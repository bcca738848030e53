# krops-bootstrap in TLA+

krops turns an empty machine or cloud account into a self-managed Kubernetes
management cluster and takes it down again. The program is `krops-bootstrap`
(`src/bootstrap-rs`), a sequential command-line tool that drives `kind`,
`kubectl`, `helm`, `clusterctl` and `aws`. What makes it hard is not its own
concurrency but everybody else's: Flux re-creates what Git declares, the
Cluster API (CAPI) providers build and deprovision real infrastructure for any
Cluster object they see, every call may fail, the process may be killed between
two of them, and the documented answer to a failure is to run it again.

This directory models the bootstrap with its pivot, the run tags, the quota
preflight and the operator's machine around it, the teardown, the AWS orphan
sweep and the orphan report, and the air-gapped package update. Line numbers
without a file are those of `src/bootstrap-rs/src/main.rs` and `teardown.rs`.

## Inventory

| Part | State it keeps or changes | Operations | Hard behaviour | What makes it correct | Here |
|---|---|---|---|---|---|
| Bootstrap run (`main.rs` 3202, 1267-2130) | kind cluster, Helm releases, secrets, local registry | Steps 1-5 | killed or failed anywhere, rerun, `--recreate` | Flux starts only with what it substitutes; a rerun repairs what was half done; a run ends | `Pivot` |
| Pivot (`main.rs` 2132-3067, `pivot.sh`) | Cluster objects on kind and on the management cluster, suspension, pausing | Phases 0-6 | Flux and providers on both sides while objects move | one owner at any time, nothing without an owner, kind goes last, the pivot completes | `Pivot`, `Handoff`, `PivotHandoff` |
| Teardown (`teardown.rs` 1862-2415) | the same objects, infrastructure, the controller host | discover, suspend, delete, wait, sweep, uninstall, remove host | Flux re-creates, answers fail or come late, tolerated failures, reruns | the host goes last, exit 0 is honest, rerunning finishes | `Teardown`, `Disposal` |
| AWS orphan sweep (`teardown.rs` 718-1620, 2236-2317) | AWS resources of each target | units 4a-4g | dependencies between resources, asynchronous deletions, failed calls | an undisturbed sweep cleans, a disturbed one converges, a sweep ends | `Sweep` |
| Run tags (`run_tags.rs`) | one ConfigMap, copied from kind to the target; the tags Flux renders from it | resolve, ensure, seed | reruns that keep or overwrite, objects rendered on either side, expiry arithmetic | one identity per environment, nothing untagged, a correct date | `RunTags`, `Calendar` |
| EIP quota preflight (`main.rs` 523-579, 1099-1236) | none; it reads the account | derive, count, compare | counts read apart while the providers allocate | a run let through has room, a rerun is let through | `EipQuota` |
| Operator's machine (`engine.rs`, `main.rs` 1239-1358, 2157-2178, `toolbox-run.sh`) | kubeconfig files, current context, the toolbox's membership of kind's network | join, leave, select, check | runs on the host and in a new container follow each other, files are lost or switched | a call without a kubeconfig reaches the kind cluster of the run; a healthy one is never asked to be recreated for lost access | `Client` |
| Orphan report (`orphans.rs`) | none (read-only) | probe, judge, report | resources go away between two probes, a failed probe is not absence | nothing missed or accused beyond what AWS answers unreadably or without a date | `Orphans`, `Calendar` |
| Air-gapped package update (`airgap/scripts/update-package.sh`) | archives, digest, state and lock in `airgap/archives/` | apply, rollback, confirm | kills between two file operations, two commands at once, a failed deploy, an altered backup | the accepted package survives, one command at a time, truthful exit codes | `PackageUpdate`, `PackageSlot` |
| Configuration (`config.rs`, `bootstrap.toml`) | none | parse, validate | - | - | constants |
| Shell twins, in-cluster jobs, package build and verification, test harness | files, containers, tags | - | - | - | not modelled |

The parts interact through shared state only: the two API servers, the cloud
account, the kubeconfig files, the container engine. A call that fails is seen
by the tool as an error, or, through `capture_lossy`, as an empty answer.

## Modules

| Module | What it is |
|---|---|
| `Pivot` | the bootstrap run and the pivot: the CLI, Flux on either cluster, the providers |
| `Handoff` | what the pivot promises, abstractly: authority over a Cluster passes once from kind to the management cluster |
| `PivotHandoff` | the refinement mapping and `ImplementsHandoff` |
| `PivotInvariant` | the inductive invariants `Inv`, `TravelInv`, and the assumption `Calm` |
| `PivotProofs`, `PivotHandoffProofs` | the theorems about them |
| `Disposal` | what teardown promises, abstractly: a Cluster is given up by its host once what it built is gone, and all of them before anything is swept, a host goes or a run succeeds |
| `Teardown`, `TeardownProofs` | the three teardown paths against Flux and the providers, the refinement mapping and `ImplementsDisposal`, and the theorems |
| `Sweep` | the AWS orphan sweep with the dependencies between the resources; `Teardown` uses it as one step per target |
| `RunTags`, `RunTagsProofs` | the run tags beside every step of `Pivot`, and Flux rendering them; the theorems |
| `Calendar` | the date conversions of `run_tags.rs` and `orphans.rs`, and the Gregorian calendar in closed form to check them against |
| `EipQuota`, `EipQuotaProofs` | the quota preflight in front of every run of `Pivot`, and the addresses the providers take; the theorems |
| `Client`, `ClientProofs` | the kubeconfig files, contexts and network membership beside every step of `Pivot`, and the theorems |
| `Orphans`, `SweepProofs` | the orphan report over the account of `Sweep`, and the theorems about both |
| `PackageSlot` | what a package update promises, abstractly |
| `PackageUpdate`, `PackageUpdateProofs` | the update in steps, and its theorems |
| `MCPivot`, `MCRunTags`, `MCEipQuota`, `MCClient`, `MCTeardown`, `MCSweep`, `MCPackageUpdate` | the instances TLC checks |

`RunTags`, `EipQuota` and `Client` each compose with `Pivot` in the same way: a
step of the composed system is a step of `Pivot` that also says what becomes of
the component's state, or a step of the component alone. Hence the properties of
`Pivot` go on holding there, and the runs check them on the compositions.

### Pivot

`pc` is the step the run is about to take: one value per step of
`run_bootstrap` (`ensure` ... `watch`) and `run_pivot` (`context` ...
`kinddelete`). A run is sequential, so every action names the step it leaves.
The steps that seed Flux are the same functions on both clusters in the code
(their `kubeconfig` argument differs); here they are the same actions and
`site` says where they work. The rest of the state:

- `src`, `tgt`: each CAPI Cluster object on kind and on the management cluster,
  absent, live or paused. An unpaused object is reconciled.
- `infra`: what the providers built: nothing, the endpoint (its kubeconfig
  Secret exists), ready nodes.
- `kz`, `suspended`, `applying`: Flux's Kustomizations on kind. The root
  declares all of them at once (`mgmt/*/kustomization.yaml`); a Kustomization
  applies `ClustersOf`.
- `has`: what the CLI installed on either cluster; `registry`: the local
  registry of a local-host run.

`clusterctl move` is external. It is modelled by what it is relied on for
(main.rs 2770-2796): pause the Clusters found on the source, create each on the
target, still paused, and only then delete from the source; it can be
interrupted between any two of these. Suspension on kind is never lifted, as in
the code.

Two comments of the source disagree about Flux and `spec.paused`: 2749 expects
Flux to unpause a Cluster, 2799 expects that it never clears the field. The
models follow the second: the field is not in Git, and server-side apply leaves
a field it does not own alone.

`Fail` is a strict step that fails, or a kill, before any step; `GiveUp` is a
wait or a guard whose condition does not hold. A wait may give up as soon as
the condition is false, however long the code waits: time is not modelled.

`Hazards` switches on behaviours that real runs can show and under which some
of the properties are false. Each run of TLC, and each theorem, says which it
allows:

| Hazard | Code |
|---|---|
| `listing` | the lossy listing of Kustomizations (2753) fails |
| `inflight` | an apply that began before the suspension ends after it (2758) |
| `unpause` | the lossy listing or a tolerated patch of the unpause loop fails (2802-2832) |
| `registry` | the local registry stops |
| `late_failure` | a step fails after a Cluster has left kind |
| `recreate_after_move`, `rerun_after_handover` | the operator reruns with `--recreate` once the move has begun, or runs the bootstrap again after it finished |

### Teardown

The same two sites, with one action per step of `run_teardown`. `opts.profile`
selects the local-host, local-talos or aws path. `Init` covers what a bootstrap
leaves (`Placements`): before the move any set of Clusters on kind with any
infrastructure, after it everything on the management cluster, with kind
(`handed`) or without, with the exported kubeconfig or without
(`nokubeconfig`). `infra` of the management Cluster is the machines of the
`mgmt` site: destroying them loses the site and every object on it.
`kubectl delete cluster` waits for the object to go where the code gives no
`--wait=false` (aws, local-talos), so `DeleteCluster` is followed by
`DeleteReturns`; on local-host the poll is the code's (`WorkloadGone`). The
providers are deleted by a call that waits in the same way (`DeleteProviders`,
`ProvidersReturn`) before they are polled for.
`Confirmed` is what each strict query or bounded wait asks for.

`Disposal` knows neither steps nor sites' contents: a host keeps objects, an
object has resources outside Kubernetes, and some Clusters nobody declares any
more. The mapping takes the objects of all sites that exist (`Kept`), what is
built (`Standing`), and what every Flux that still runs has suspended
(`Closed`). AWS_ONLY=1 waives the release.

The hazards here are the tolerated failures: of a suspending patch (`patch`), of a
deletion, which fails at once or while it waits (`delete`), of a sweep, of the
providers' deletion or wait (`providers`), of the removal of hosts and registry
(`removal`); a host that is slow to answer (`unreachable`); and controllers that
do not finish (`stuck`). `stranded` remembers a run that ended between the
machines of a local-host management cluster and its registry.

### Sweep

`left` is the set of AWS resources that exist, as target and kind; `Blockers`
says what AWS refuses to delete while something else is there, `Within` what
cannot exist alone. Both are external knowledge, limited to the dependencies the
order of the units is written for. A unit is best-effort (`Try`): a lookup that
fails reads as absent, a refused deletion is a warning. `Wait` returns when the
resource is gone or when its time is over; after a failed listing of NAT gateways
there is nothing to wait for. The global roles, users and the stack are visited
like a target's own, the stack's deletion being asynchronous; inline policies
count with the attached ones. A user's login profile, which
`docs/aws-iam.md` 138-145 has the operator create, is deleted before the user
(1523).

### RunTags and Calendar

With `KROPS_RUN_ID` set (`exported`), `EnsureInSource` takes an existing
ConfigMap on kind as it is; without it, or without a ConfigMap, the tags are
resolved again, on a possibly later day (`today`). `SeedTarget` copies what kind
has. Flux substitutes the tags of its own cluster (`RenderOnKind`,
`RenderOnTarget`) and renders again when they change (`Rerender`, a fair
action). `stamp` is what a Cluster's objects carry. The run id and the expiry
are kept apart; `revision` and `run-kind` follow the run id. `LoseKind` drops
the ConfigMap with kind, and the stamps of objects that built nothing yet: what
was built keeps its tags, whoever deletes its objects.

`Calendar` writes the loops of the two formatters and of the parser as recursive
functions on where a loop stands (`YearLoop`, `MonthLoop`) and on what is summed
up (`DaysBeforeYear`, `DaysBeforeMonth`); the time of day is a division in all of
them and left out, and so is the parser's syntax. `DayNumber`, the Gregorian
calendar in closed form, is the reference, and `Dates` are the dates it has from
1970 on. `MCRunTags` assumes, for TLC to evaluate, that the conversions agree with
it on the first, second and last days of every month of the years around each leap
rule and past a 400-year cycle (`CalendarsAgree`); that they are exact on every
date is proved. What runs really write is `TagsDated`: each expiry and each run id
found on a cluster or a resource is compared with the reference and with the
report's conversions.

### EipQuota

`probe` follows the preflight (`allocated`, then `owned`, one Cluster after the
other). `Allocate` takes an address for a Cluster that is being reconciled, at
any time; `ProvisionBehind` lets the endpoint come up when all three are there.
Regions are checked one by one in the code and do not interact: the model is one
region with both Clusters in it. What others hold is constant, and may be more than
the quota: a quota can be lowered below what is allocated.

### Client

`entry` is what each kubeconfig file says of kind's endpoint: the host's file
records a published port, the toolbox's the name on kind's network; `stale` is an
endpoint of a cluster that has been deleted from the other place. `context` is
each file's current context. `health` is the cluster's: half created, complete
with nodes that are not Ready, or ready. `InterruptCreate` leaves any of these,
with the file written or not; `NodesChange` turns nodes not Ready and back. A run
that is to reuse kind ends with a demand for `--recreate` (`DemandRecreate`) when
the export of the kubeconfig fails (1290-1294) or the nodes do not get Ready
(1296-1314), and without it where the toolbox finds no kubeconfig to select
(`SelectFails`). The operator switches and prunes files between
runs, and switches while a run waits for Step 5 or stands before Phase 0's
check. `places` says whether the runs of a behaviour are all in the toolbox, all
on the host, or mixed.

### Orphans

The report goes through its probes one by one (`scan`); between two of them a
resource may go away (`Vanish`, or `Gone` for a deletion AWS has accepted). A
sweep by the same tool does not overlap it, as both run in one concurrency group
(`.github/workflows/aws-orphan-report.yml` 9-11). All resources of a target are
as old as their environment (`aged`). Buckets are asked for but never match: the
report looks for `<cluster>-*` and `krops-<cluster>-*`, an environment's bucket
is `krops-<account>-<cluster>-data`
(`mgmt/aws/infrastructure/workload-resources/bucket.yaml` 35).

Each resource may answer with a creation time, without one, or with something that
does not parse. The code passes over the last without an error (327, 415, 489,
582) and takes the second for an orphan at any age (346-356, 435-445, 511-521,
611-621): a database that is still being created has no `InstanceCreateTime`.
`unread` and `undated` remember which resources did so, and the two properties
say that a report without errors is wrong about these only.

### PackageUpdate

Every file operation of `update-package.sh` that a kill can come between is an
action: `LinkBackup` or `CopyBackup`, `RecordSum`, `BeginCutover`, `Swap`, and so
on. `rm -f a b` is one action per file. `linked` says that backup and active
archive are two names of one inode, as after `ln`; `mv` between such names drops
the first name on some systems and does nothing on others, and both are allowed.
A digest is represented by the package it was taken of. `Stopped` is a signal
that runs the EXIT trap or a kill that does not; power loss, which could lose
what is not synced, is not modelled. `Rot` alters a backup while it is kept.
`RecoverByHand` and `RemoveLock` are what the script's messages ask of the
operator. The lock is taken call by call: `mkdir`, the pid read from a lock that is
there, `kill -0`, `rm -rf`, `mkdir` again, the pid written; between any two of them
the holder may exit or be killed and another command come in. The guard of
`ReclaimLock`, the `rm -rf`, is the assumption line 78 states: no other command
runs then.

`PackageSlot` has two variables: the accepted package and the candidate that
stands in for it. The mapping takes the accepted one from the history variable
`accepted`, and the candidate from the active archive when it differs.

## What the runs check

All on two Clusters (management and workload), and for `Pivot` a root and one
Kustomization each. Two Clusters are enough to have one moved and the other
not, one unpaused and the other not, one re-created while the other goes; the
theorems lift the pivot's results to any number. Two failures are enough for a
failed run whose rerun fails too. `CHECK_DEADLOCK` is off everywhere: a
finished run stops and nobody has to start another.

| Run | Shows |
|---|---|
| `PivotAws` | with reruns, kills and tolerated unpause failures, on `RunTags` with `KROPS_RUN_ID` set: `OneOwner`, `NothingOrphaned`, `SeededBeforeFlux`, `QuietDuringMove`, `KindGoesLast`; `TravelInv`, the inductive invariant of the proofs; `OneIdentity`, `NothingUntagged` |
| `PivotHandoffAws` | with `--recreate` before the move too, on `EipQuota`: the refinement `ImplementsHandoff`, `UnpausedBeforeFlux`; `NeverShort`, `RerunFits` |
| `PivotLiveness` | on `RunTags` without `KROPS_RUN_ID`: `TagsDated`; `PivotCompletes`, `KeyRestored`, `RunsEnd`, `TagsSettle` under fairness, with failures before the first Cluster leaves kind |
| `PivotHazards` | every hazard at once, local-host, on `Client`: `AmbientReachesKind`, `RecreateForCause` |
| `TeardownAll` | the three profiles, strict and tolerated failures, kills, reruns: `HostGuarded`, `WorkloadSweepUnopposed`, `HonestExit`; the refinement `ImplementsDisposal` |
| `TeardownAgain` | after a pivot: `NothingLeft`, `TeardownSucceeds`, `RunEnds` under fairness |
| `SweepAgain` | from a whole cluster and from every remainder of its network: `SweepCleans`, `SweepConverges`, `SweepEnds` with two failed calls or kills; and an orphan report before, between or after the sweeps: `OnlyUnreadMissed`, `OnlyUndatedAccused` |
| `PackageUpdate` | two processes, two sound packages and one unsound, two kills or alterations: `OneUpdater`, `AcceptedKept`, `ImplementsSlot`, `ExitTells`, `RefusalJustified` |

Every property of these runs has a slip: a variant of one action with a bug the
code could have (section "Slips" of each module), under which TLC finds the
property violated.

In `TeardownAll`, local-host starts after the move only: before it,
`HostGuarded` is false (`TeardownUnsuspended` below). `SweepAgain` uses one
target, since no dependency crosses targets and a report scans one after the
other. `PivotAws` and `PivotLiveness` have two days, one of them a leap day, so
that a rerun can resolve other tags than the first run did. `PivotHandoffAws`
has a quota of 8 with 2, 3 or 9 addresses in other hands: exactly enough for two
Clusters of three, one too few, and an account over its quota. Three packages
are enough for one that is accepted, one that stands in for it and one that is
rejected; two faults for a kill and another during the recovery from it.

Fairness: the CLI is one process that goes on until it ends; the operator
reruns what failed (`docs/operations.md`, "Pivot recovery", tells them to), and
that is assumed weakly fair, which means failures stop after `MaxFaults`; Flux
and the controllers reconcile in a loop, so an enabled reconciliation happens;
AWS finishes a deletion it accepted; a report that was started goes on.
Nothing is assumed of the environment's failures, and the package update has no
liveness property: nobody has to start its commands.

## Where the code and its documentation disagree

Four runs expect a violation:

- `PivotLossyListing`: a failed listing suspends nothing, and the move runs
  against a reconciling Flux (2747-2758).
- `PivotLateFailure`: a pivot that fails after the move cannot be resumed by
  rerunning: Phase 0 waits on kind for a Cluster that has moved (2213, 3038;
  `docs/bootstrap-cli.md` 100-101).
- `TeardownUnsuspended`: the pre-pivot local-host teardown does not suspend
  the workload Kustomization (2010; `bootstrap.toml` 89-90).
- `TeardownKindFirst`: kind answers, so it is taken for the controller host,
  although the inventory has moved (270-301).

Further behaviours the models show when a constant of a passing run is changed;
they are why those runs leave the case out:

| Change | Property that fails | Why |
|---|---|---|
| `PivotAws`, `Hazards = {"rerun_after_handover"}` | `OneOwner` | a second kind cluster re-creates the Clusters the management cluster owns, while `docs/bootstrap-cli.md` 12-13 calls reruns safe |
| `PivotAws`, `Hazards = {"inflight"}` | `OneOwner`, `NothingOrphaned` | suspending a Kustomization does not wait for the apply under way (2758) |
| `PivotAws`, `--recreate` among the options | `NothingOrphaned`, `OneIdentity` | kind is deleted whatever it holds (1317-1322): what was built loses its objects and keeps its tags; with `recreate_after_move` `OneOwner` fails too |
| `PivotHandoffAws`, `Hazards = {"unpause"}` | `UnpausedBeforeFlux` | tolerated failures of the unpause loop are never repaired |
| `TeardownAll`, aws, `Hazards = {"unreachable"}` | `WorkloadSweepUnopposed` | one missed 10 s probe and the sweep runs with the controllers alive (2385-2388 assumes there are none) |
| `TeardownAll`, local-talos, `Hazards = {"unreachable"}` | `HonestExit` | a missed probe is "nothing to release", exit 0 |
| `TeardownAll`, `Hazards = {"patch"}` | `HostGuarded` | a failed suspension is tolerated although it gates the host's deletion (13-15) |
| `TeardownAll`, local-host, placement `nokubeconfig` | `HostGuarded` | without the kubeconfig the containers are removed without any deletion |
| `TeardownAgain`, `Hazards = {"sweep"}` or `{"removal"}` | `NothingLeft` | what the sweep or the removal could not destroy is a warning, and the run exits 0; the providers that could still deprovision are skipped all the same (2325) |
| `TeardownAgain`, `TeardownSucceeds` with `~registry` | `TeardownSucceeds` | killed after the containers and before the registry, every rerun takes the left kubeconfig for a live cluster, gets no answer and ends before the registry (442-455, 2037-2049) |
| `TeardownAgain`, aws, `Hazards = {"stuck"}` | `RunEnds` | `kubectl delete cluster` waits outside `CLUSTER_DELETE_TIMEOUT` |
| `TeardownAgain`, local-host, placement `kind` | `NothingLeft` | the management cluster's containers are only removed when kind is gone |
| `SweepAgain`, `loose_igw` among `Fallible` | `SweepConverges` | a detached gateway is never looked up again |
| `SweepAgain`, `Locked = {a}` | `SweepEnds` | the purge loop does not look for progress |
| `PivotAws`, `Exports <- Never` | `OneIdentity` | every run without `KROPS_RUN_ID` overwrites the tags on kind, while `run_tags.rs` 7 says that tags survive reruns; `TagsSettle` says what remains |
| `PivotHazards`, `RecreateForCause` without its condition on `places` | `RecreateForCause` | a cluster recreated in the toolbox leaves the host's context with an old endpoint; `use-context` succeeds, so nothing is exported, and the run asks for `--recreate` (1285-1312) |
| `PivotHazards`, `RecreateForCause` without its condition on `health` | `RecreateForCause` | a creation that was killed half-way leaves a cluster no export recovers, while the comment at 1286-1289 says of an interrupted first create "Recover it instead of demanding a destructive --recreate" |
| `PivotHazards`, `Switch` at every step | `AmbientReachesKind` | Phase 0 checks the current context once (2157); Phases 1-4 use whatever it is later, `clusterctl move` too |

More is plain from the code and has no property:

- The guard before kind's deletion asks for any Cluster on the target, its
  comment for all of them (2951).
- `FORCE_KIND_DELETE=1` cannot remove a host whose deletions are unconfirmed on
  aws, because the run fails before step 9 (2343).
- `orphans.rs` 3-5 and `docs/bootstrap-cli.md` 396-398 list NAT gateways,
  Elastic IPs and S3 buckets among what the report finds, as does
  `docs/operations.md` 697-698. No call asks for addresses, a NAT gateway only
  dates its VPC, and the bucket patterns match no bucket of an environment.
- An answer of AWS that does not parse drops its resource from the orphan report
  without an error (`orphans.rs` 327, 415, 489, 582); one without a creation time
  makes it an orphan at any age, a database still being created among them.
- A VPC without an available NAT gateway is reported as an orphan at any age,
  and one whose gateway was replaced looks as young as the new gateway
  (`orphans.rs` 564-635).

What a killed `update-package.sh` leaves for the next command, all within the
properties above:

- Killed between `ln` and `write_state` (164-166), backup and active archive are
  one file and there is no state: in the next apply `ln` fails, `cp -p` refuses
  to copy a file onto itself, and every apply exits 1 until the backup is removed
  by hand.
- Killed between `mv` and `rm` of the state (124-125, 204-205), the accepted
  package is back but the state is still there: rollback exits 4 for want of a
  backup; in `awaiting-confirm`, confirm accepts the archive that was restored.
- Killed between `mkdir` and the pid, the lock has to be removed by hand, as the
  message says.
- In `cutover`, confirm's message offers to apply again (215), which apply
  refuses (137-141).

## What is proved

For every value of the constants that meets the named assumptions:

| Module | Theorem | Under | Says |
|---|---|---|---|
| `PivotProofs` | `Typed` | - | `TypeOK` |
| | `NeverTwoOwners` | `Calm` | `OneOwner` |
| | `MoveIsQuiet` | `Calm` | `QuietDuringMove` |
| | `RunsOnlyAdvance` | - | no run of the bootstrap goes back or round (`NoWayBack`) |
| `PivotHandoffProofs` | `KindLast` | `Calm` | `KindGoesLast` |
| | `NoOrphans` | `Calm`, no `--recreate` | `NothingOrphaned` |
| | `UnpausedFirst` | `Calm`, no `unpause` hazard | `UnpausedBeforeFlux` |
| | `Seeded` | `Calm` | `SeededBeforeFlux` |
| | `Travels` | `Calm` | `TravelInv` |
| | `Refinement` | `Calm`, no `unpause` hazard | `ImplementsHandoff` |
| `RunTagsProofs` | `AllTagged` | `Calm` | `NothingUntagged` |
| | `SameIdentity` | `Calm`, `KROPS_RUN_ID` in every run, no `--recreate` | `OneIdentity` |
| | `EveryDate`, `EveryDay` | - | the date conversions agree with the Gregorian calendar on every date, and with each other on every day, from 1970 on |
| | `RightDates` | - | `TagsDated` |
| | `TaggedRuns` | `Calm`, `NothingOrphaned` without `--recreate` | with `RunTags`: every run is one of `Pivot`; `OneOwner`, `SeededBeforeFlux`, `TravelInv`, `NothingOrphaned`, `QuietDuringMove`, `KindGoesLast` |
| `EipQuotaProofs` | `QuotaSuffices`, `RerunsFit` | - | `NeverShort`, `RerunFits` |
| | `HandoffAfterPreflight` | `Calm`, no `unpause` hazard | with `EipQuota`: `UnpausedBeforeFlux`, `ImplementsHandoff` |
| `ClientProofs` | `ReachesKind` | - | `AmbientReachesKind` |
| | `RecreateOnlyForCause` | - | `RecreateForCause` |
| | `SafeAnywhere` | `Calm` | with `Client`: `OneOwner`, `SeededBeforeFlux`, `TravelInv`, `QuietDuringMove`, `KindGoesLast` |
| | `NoOrphansAnywhere` | `Calm`, no `--recreate` | with `Client`: `NothingOrphaned` |
| | `HandoffAnywhere` | `Calm`, no `unpause` hazard | with `Client`: `ImplementsHandoff` |
| `TeardownProofs` | `Typed` | - | `TypeOK` |
| | `ExitIsHonest` | `Steady` | `HonestExit` |
| | `HostsGuarded` | `Steady` | `HostGuarded` |
| | `SweepUnopposed` | `Steady` | `WorkloadSweepUnopposed` |
| | `Refinement` | `Steady` | `ImplementsDisposal` |
| | `NothingIsLeft` | `Thorough` | `NothingLeft` |
| | `RunsOnlyAdvance` | - | no teardown goes back or round (`NoWayBack`) |
| `SweepProofs` | `Typed` | - | `TypeOK` |
| | `CleanSweep` | `NothingLoose` | `SweepCleans` |
| | `ReportMissesOnlyUnread`, `ReportAccusesOnlyUndated` | - | `OnlyUnreadMissed`, `OnlyUndatedAccused` |
| | `SweepsOnlyAdvance` | - | a sweep visits no target twice in a phase and no phase twice (`NoTargetTwice`) |
| `PackageUpdateProofs` | `TypeCorrect`, `Exclusion`, `Kept` | - | `TypeOK`, `OneUpdater`, `AcceptedKept` |
| | `ExitCodes`, `NoFalseAlarm` | - | `ExitTells`, `RefusalJustified` |
| | `Refinement` | - | `ImplementsSlot` |

Every invariant below was checked by TLC on an instance of the runs before it
was proved.

### The pivot

`Calm` excludes the hazards `listing`, `inflight`, `recreate_after_move` and
`rerun_after_handover`; failed and killed runs, late failures, registry outages
and reruns remain. The constants' assumptions are those of `Pivot`: the
management cluster is a Cluster, the root is a Kustomization and holds no
Cluster itself.

`OneOwner` is not inductive: that Flux on kind cannot bring a Cluster back
depends on which Kustomizations exist, whether all of them are suspended, and
where the run is. `Inv` says so, conjunct by conjunct: a Cluster on kind came
from a Kustomization the root declared with all the others (`AllDeclared`), the
patch loop forgets none of them (`NoneForgotten`), from the pause on Flux on
kind is idle (`StaysQuiet`), and it stays so as long as the management cluster
holds anything, run or no run (`QuietOnceShared`). `Travel` adds where each
object is during the move (`CopiedSoFar`, `PurgedSoFar`, `AllLeft`), from which
the deletion order, the ownership of infrastructure and the refinement follow.
`TravelInv` is also checked on `PivotAws`.

`SeededBeforeFlux` depends on how far a run has come on the site it works on and
on what earlier runs left there: `Seeds` says that the steps between the operator
and the instance have the tags (`TagsFirst`) and, on the target, key and
credentials (`SecretsFirst`), and that the run that seeds the target finds no
instance there before its own step (`SeededOnce`).

### The compositions

`TagsThere` says that an instance on a cluster means a ConfigMap on it, from which
`NothingUntagged` follows. `OneIdentity` compares stamps and ConfigMaps of both
clusters; `SameTags` adds that the target has tags only once the inventory has
moved (`SeededLate`), and that a kind cluster without tags is a new one, before
which nothing carries any, or gone for good (`Blank`). Without `--recreate` kind
goes once, at the end. For `TagsDated` the day each pair of tags was resolved on is
named (`Dated`). Both use `NoTagsAssumption`: the value that stands for
the absence of a ConfigMap is none a run can resolve.

The quota theorems rest on `QInv`: either the quota has room for every Cluster
beside the other holders, or no run has passed the preflight and nothing exists
(`RoomOrBare`); and while a preflight counts, what it read as allocated is the
others', counted as a Cluster's own, or will be (`CountInv`), although the
providers go on allocating. That the Clusters together hold less than is required
as long as one of them wants an address is a fact about the cardinality of the
set of numbered addresses (`Held`). There must be finitely many Clusters.

`ReachesKind` rests on `CInv`: from the check of kind to its deletion kind is up
and the file of the run records the endpoint its place can reach, and outside the
waits before Phase 0's check the context is kind's. The host's file never
records the name on kind's network, which is why a host run may rely on an entry
that is there. That the operator switches at `watch` and `context` only is part
of `Client`, hence of the theorem. `RecreateOnlyForCause` adds `OnePlaceInv`: where
all runs are on the host, the host's file never holds a stale endpoint.

The compositions add ways to end a run or not to begin one, and nothing else the
pivot can see: a refused preflight, a failed check of the client, a kind
cluster that cannot be reused, and runs killed while they create kind, which leave
a kind cluster and an idle tool. `Carried` gathers what the pivot's theorems rest
on, `CarriedStep` says that `Pivot`'s steps keep it, `EndsIdleStep` that ending
a run does, and `InterruptedStep` that the interrupted creation does; for the
abstract hand-over that creation is its `Raise`. So `HandoffAfterPreflight`,
`HandoffAnywhere`, `SafeAnywhere` and `NoOrphansAnywhere` cost no second proof
of the pivot. With the run tags nothing has to be added: `TaggedRuns` first shows
that every behaviour there is one of `Pivot`.

### Dates

That a loop of `Calendar` computes what it should is an induction over dates,
which the library's theorems cannot give the provers (their hypothesis is an
operator). A set of counterexamples can be named, though: if it is not empty it
has a least element, by the well-foundedness of `<` on the numbers, and that
element contradicts the loop's defining equation. `YearLoopIs`, `MonthLoopIs`,
`DaysBeforeYearIs` and `DaysBeforeMonthIs` are proved so, against the days before
a year (`Jan1`) and before a month (`First`) in closed form; `DayNumberIs`
relates these to the reference. The defining equations themselves are facts to be
proved as well (`YearLoopDef` and the others): a recursive definition is a choice
among the functions that satisfy it, so one has to be shown to exist. `EveryDay`
is the converse of `EveryDate`: each day is the number of a date.

### Teardown

`Steady` excludes what makes the properties false: missed probes
(`unreachable`), tolerated failures of a suspension (`patch`), and the placements
in which kind was kept after the move (`handed`) or the kubeconfig was not
exported, for local-host also those before the move (see the tables above).
Tolerated failures of deletions, stuck objects, sweeps, provider waits and
removals, strict failures, kills and reruns remain. `IInv` ties `pc` to
what has been confirmed: which host was found and that it is the one that holds
the Clusters, what is suspended on it once patching is over, that what was deleted
there stays deleted, and, from the sweep on, that no site holds a Cluster to be
deleted (`ReleasedInv`), which no controller can change any more. It is
strengthened by where Clusters, Flux and providers can be at all in each
placement.

`NothingLeft` needs more (`Thorough`): no tolerated failure of the removals
themselves, no placement before the move, no `AWS_ONLY=1`. `LeftInv` adds that
what is built has its object (`OwnedInv`), so that an object's end is its
infrastructure's, and that targets the sweep has passed, and the host once it is
removed, are not built again (`SweptInv`, `RemovedInv`).

`ImplementsDisposal` rests on `DisposalInv`, which adds to `IInv` that the
switches of a run are those of one that may be started (`OptionsInv`) and that a
run that waives the release works with no host (`WaivedInv`). The release
`Disposal` asks for before it lets anything be swept, a host go or a run succeed
is `ReleasedInv`. A removal that takes a host
with the management Cluster's machines is one step of both.

### No run goes in circles

`RunsEnd`, `RunEnds` and `SweepEnds` are liveness, but what could make them
false in the program, beside a wait, is a loop, and that is safety. `NoWayBack` and
`NoTargetTwice` say that every step of a run ends it, brings it to a later step,
or takes an element from what the loop it is in has still to do (or, at `ensure`,
the kind cluster that `--recreate` replaces): a lexicographic order that is
well-founded for finite sets, so that a run has finitely many steps. It holds
under every hazard. For the bootstrap it needs one invariant, that only the
seeding and the end of a run work on the target (`SeedsTargetLast`), because the
same steps seed both clusters. That some step is always
possible and is taken is left to TLC.

### Sweep and report

For `CleanSweep`, `RootedInv` says that dependent resources do not outlive what
they are in and that deletions under way wait for nothing. `CleanInv` gives every
unit the state it relies on, as long as no call has failed: the phases before
have removed, or asked AWS to remove, what they are there for (`PhasesDone`),
this one has for the targets it visited (`TargetsDone`), and inside a VPC,
bucket, role or user the steps before have (`StepsDone`). That every unit then
finds its blockers gone is `OrderRespects`, a statement about the order of the
units alone. `NothingLoose` says that no target starts with a gateway or a
profile that was detached and not deleted, which no sweep looks for.

`ReportInv` is about every moment of a report: what it has passed and is still
there is in it if it could be read (`PassedFound`), what it listed and has still
to describe was listed if it is there (`ListedThere`), and what it accuses of a
young target gave no time (`AccusedUndated`). It is inductive because resources
only disappear while a report runs (`OnlyDisappear`).

### The package update

It has one inductive invariant, `IInv`: type correctness;
`LockInv`, what the lock says of the process that holds it; `FileInv`, how
archives, digest and state fit together between commands; and `StepInv`, what
each process knows at each step, true of the one process that is past the lock.
`FileInv` is where the order of the script's file operations is: a digest is
recorded before the state says `cutover`, and the state before the swap. The
only assumptions are those on the constants (`Packages`, `Good`, the markers are
distinct).

### What is model-checked only

Liveness under fairness is beyond the prover, and checked on the bounds above:
`PivotCompletes`, `KeyRestored`, `RunsEnd`, `TagsSettle`, `TeardownSucceeds`,
`RunEnds`, `SweepConverges`, `SweepEnds`. Of `RunsEnd`, `RunEnds` and `SweepEnds`
the safety half is proved, as said above. Every other property of the passing
runs is a theorem.

## What is not modelled, and why

Wording, logging, Helm charts and manifests (data that no property tells
apart); time (a bounded wait is one that may give up); the azure and gcp
environments (their teardown is manual and their pivot differs in the manifests
of Phase 3 only); the inside of `helm` waits; the detection of docker or podman,
which reads only; parsing and validation of the configuration; the build and the
verification of air-gap packages, straight-line scripts whose verdict
`PackageUpdate` takes as given; the worker run tags job, one idempotent call per
machine; the shell twins, which the Rust code replaced. Names are abstract, so
the sweep of IAM roles by prefix (`teardown.rs` 1492) cannot hit another
cluster's roles in `Sweep`.

## Plan

What would come next:

1. `SweepTarget`, the one step `Teardown` takes per target, as the abstract
   specification of a sweep, implemented by `Sweep` when no call fails.
2. Names in `Sweep`, so that the sweep of IAM roles by prefix can be checked
   against a cluster whose name begins with another's.
3. Pure algorithms against reference definitions: node readiness, manifest
   variables, durations.
