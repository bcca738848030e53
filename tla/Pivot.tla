------------------------------- MODULE Pivot -------------------------------
(***************************************************************************)
(* The bootstrap run of krops-bootstrap and the pivot it ends with:        *)
(* run_bootstrap and run_pivot of bootstrap-rs/src/main.rs, one action per *)
(* step that changes state or can be the last one of a run.                *)
(*                                                                         *)
(* Three parties interleave:                                               *)
(*   - the CLI, a sequential process that may fail or be killed before any *)
(*     of its steps, and that an operator starts again;                    *)
(*   - Flux on the kind bootstrap cluster, which keeps applying what Git   *)
(*     declares while the CLI works, and Flux on the management cluster    *)
(*     once the CLI has seeded it;                                         *)
(*   - the CAPI providers, which turn an unpaused Cluster object into      *)
(*     infrastructure.                                                     *)
(***************************************************************************)
EXTENDS Naturals, FiniteSets

CONSTANTS
  Clusters,        \* the CAPI Clusters Git declares
  MgmtCluster,     \* the one the inventory is moved into
  Kustomizations,  \* the Flux Kustomizations of the environment
  Root,            \* the Kustomization the FluxInstance creates
  ClustersOf,      \* the Clusters each Kustomization applies
  Profile,         \* "local-host" or "aws"
  RunOptions,      \* the switches a run may be started with
  Hazards,         \* which of HazardKinds may happen
  MaxFaults        \* bound on the failures of CLI steps

HazardKinds ==
  { "listing",               \* kubectl get kustomizations fails before the move
    "inflight",              \* a Flux apply under way outlives the suspension
    "unpause",               \* listing or patching the moved Clusters fails
    "registry",              \* the local registry stops serving
    "late_failure",          \* a step fails once a Cluster has left kind
    "recreate_after_move",   \* --recreate once the move has started
    "rerun_after_handover" } \* the bootstrap is run again after kind is gone

Options == [recreate : BOOLEAN, pivot : BOOLEAN, skipDelete : BOOLEAN]

ASSUME MgmtAssumption == MgmtCluster \in Clusters
ASSUME RootAssumption ==
  Root \in Kustomizations /\ ClustersOf \in [Kustomizations -> SUBSET Clusters]
\* The root only declares Kustomizations (mgmt/*/kustomization.yaml).
ASSUME RootHoldsNoCluster == ClustersOf[Root] = {}
ASSUME InstanceAssumption ==
  /\ Profile \in {"local-host", "aws"}
  /\ RunOptions \subseteq Options
  /\ Hazards \subseteq HazardKinds
  /\ MaxFaults \in Nat

VARIABLES
  pc,         \* the step the run is about to take, or how the last run ended
  opts,       \* the switches of the current run
  site,       \* the cluster the Flux seeding steps work on
  toSuspend,  \* Kustomizations listed and not yet patched
  inventory,  \* what clusterctl move found on kind
  toMove,     \* Clusters the current loop still has to visit
  faults,     \* failures so far
  kind,       \* the kind bootstrap cluster
  kz,         \* Kustomizations existing on kind
  suspended,  \* the suspended ones
  applying,   \* Kustomizations whose apply began before the suspension
  src, tgt,   \* each Cluster object on kind and on the management cluster
  infra,      \* what the providers have built for each Cluster
  has,        \* what the CLI installed on each of the two clusters
  registry    \* the local registry serves

run   == <<opts, site, toSuspend, inventory, toMove, faults>>
flux  == <<kz, suspended, applying>>
vars  == <<pc, run, kind, flux, src, tgt, infra, has, registry>>

Local == Profile = "local-host"
Sites == {"kind", "mgmt"}
Items == {"operator", "tags", "key", "creds", "instance", "capi", "providers"}

Ended   == {"idle", "failed", "done"}
Running == { "ensure", "registry", "operator", "tags", "dropkey", "applykey",
             "instance", "watch", "context", "definition", "kubeconfig",
             "export", "nodes", "capi", "manifests", "providers", "list",
             "suspend", "copy", "purge", "moved", "unpause", "relist", "push",
             "guard", "kinddelete" }

Missing(objects) == {c \in Clusters : objects[c] = "none"}
Present(objects) == Clusters \ Missing(objects)

(* The management cluster holds a part of the inventory, or its own Flux.  *)
MgmtOwns == Present(tgt) # {} \/ "instance" \in has["mgmt"]

(* Some Cluster has left kind for the management cluster.                  *)
SomeLeft == Present(tgt) \cap Missing(src) # {}

(* clusterctl can hand out the kubeconfig of c: its Secret is on kind.     *)
SecretOnKind(c) == src[c] # "none" /\ infra[c] # "none"

(* Bookkeeping of one CLI step: it leaves the run's data alone.            *)
Step(from, to) == pc = from /\ pc' = to
World == <<kind, flux, src, tgt, infra>>

(* A seeding step leaves the items on the cluster the run is seeding.      *)
Install(items) ==
  /\ has' = [has EXCEPT ![site] = @ \cup items]
  /\ UNCHANGED <<run, World, registry>>

TypeOK ==
  /\ pc \in Ended \cup Running
  /\ opts \in Options
  /\ site \in Sites
  /\ toSuspend \subseteq Kustomizations
  /\ inventory \subseteq Clusters /\ toMove \subseteq Clusters
  /\ faults \in 0..MaxFaults
  /\ kind \in {"absent", "up"}
  /\ kz \subseteq Kustomizations
  /\ suspended \subseteq Kustomizations
  /\ applying \subseteq Kustomizations
  /\ src \in [Clusters -> {"none", "live", "paused"}]
  /\ tgt \in [Clusters -> {"none", "live", "paused"}]
  /\ infra \in [Clusters -> {"none", "endpoint", "ready"}]
  /\ has \in [Sites -> SUBSET Items]
  /\ registry \in {"stopped", "serving"}

Init ==
  /\ pc = "idle"
  /\ opts \in RunOptions
  /\ site = "kind"
  /\ toSuspend = {} /\ inventory = {} /\ toMove = {}
  /\ faults = 0
  /\ kind = "absent"
  /\ kz = {} /\ suspended = {} /\ applying = {}
  /\ src = [c \in Clusters |-> "none"]
  /\ tgt = [c \in Clusters |-> "none"]
  /\ infra = [c \in Clusters |-> "none"]
  /\ has = [s \in Sites |-> {}]
  /\ registry = "stopped"

(* The bounded waits and guards of the run, with the state each asks for.  *)
(* Where it does not hold the wait may run out, and the run ends.          *)
Satisfied(p) ==
  CASE p = "watch"      -> ~Local \/ \A c \in Clusters \ {MgmtCluster} :
                             SecretOnKind(c) /\ infra[c] = "ready"
    [] p = "context"    -> Local => registry = "serving"
    [] p = "definition" -> src[MgmtCluster] # "none"
    [] p = "kubeconfig" -> SecretOnKind(MgmtCluster)
    [] p = "export"     -> SecretOnKind(MgmtCluster)
    [] p = "nodes"      -> infra[MgmtCluster] = "ready"
    [] p = "push"       -> Local => registry = "serving"
    [] p = "guard"      -> opts.skipDelete
                             \/ (Present(tgt) # {} /\ (Local => registry = "serving"))
    [] OTHER            -> TRUE

---------------------------------------------------------------------------
(* Slips: variants of actions below, each with a bug the code could have.  *)
(* No specification uses them; putting one in the place of its original    *)
(* must break the property named with it.                                  *)

\* OneOwner, QuietDuringMove: the move starts before the last suspension.
MovePauseEarly ==
  /\ Step("suspend", "copy")
  /\ inventory' = Present(src) /\ toMove' = Present(src)
  /\ src' = [c \in Clusters |-> IF src[c] = "live" THEN "paused" ELSE src[c]]
  /\ UNCHANGED <<opts, site, toSuspend, faults, kind, flux, tgt, infra, has,
                 registry>>

\* NothingOrphaned, ImplementsHandoff: deletion from the source
\* begins before every object is on the target.
MoveCreatedEarly ==
  /\ Step("copy", "purge")
  /\ toMove' = inventory
  /\ UNCHANGED <<opts, site, toSuspend, inventory, faults, World, has, registry>>

\* KindGoesLast, TravelInv: the move is taken for complete too early.
MoveDeletedEarly ==
  /\ Step("purge", "moved")
  /\ UNCHANGED <<run, World, has, registry>>

\* UnpausedBeforeFlux: the unpause loop lists the source.
ListMovedOnSource ==
  /\ Step("moved", "unpause")
  /\ toMove' = Present(src)
  /\ UNCHANGED <<opts, site, toSuspend, inventory, faults, World, has, registry>>

\* SeededBeforeFlux: the FluxInstance before the run tags and secrets.
InstallFluxOperatorOnly == Step("operator", "instance") /\ Install({"operator"})

\* KeyRestored: a rerun reapplies the credentials only.
ApplyCredentialsOnly ==
  /\ Step("applykey", "instance")
  /\ Install({"creds"})

\* PivotCompletes: Phase 5 seeds the cluster of the current context again.
PublishToKind ==
  /\ Step("push", "operator") /\ Satisfied("push")
  /\ UNCHANGED <<run, World, has, registry>>

\* RunsEnd: the definition is waited for, without bound, on the target.
WaitForDefinitionOnTarget ==
  /\ Step("definition", "kubeconfig") /\ tgt[MgmtCluster] # "none"
  /\ UNCHANGED <<run, World, has, registry>>

---------------------------------------------------------------------------
(* Starting and ending a run.                                              *)

(* The operator starts the CLI, first or again. The documented procedure   *)
(* is to rerun the same command after a failure; running it again once     *)
(* kind is gone, or with --recreate once the move has begun, is a hazard.  *)
Start(o) ==
  /\ pc \in Ended
  /\ kind = "absent" /\ MgmtOwns => "rerun_after_handover" \in Hazards
  /\ kind = "up" /\ o.recreate /\ MgmtOwns => "recreate_after_move" \in Hazards
  /\ pc' = "ensure"
  /\ opts' = o
  /\ site' = "kind"
  /\ UNCHANGED <<toSuspend, inventory, toMove, faults, World, has, registry>>

(* A strict step fails, or the process is killed between two steps.        *)
Fail ==
  /\ pc \in Running
  /\ faults < MaxFaults
  /\ SomeLeft => "late_failure" \in Hazards
  /\ pc' = "failed"
  /\ faults' = faults + 1
  /\ UNCHANGED <<opts, site, toSuspend, inventory, toMove, World, has, registry>>

(* The run ends where what the step asks for does not come.             *)
GiveUp ==
  /\ pc \in Running
  /\ ~Satisfied(pc)
  /\ pc' = "failed"
  /\ UNCHANGED <<run, World, has, registry>>

---------------------------------------------------------------------------
(* Step 1: the kind cluster.                                               *)

ReuseKind ==
  /\ Step("ensure", "registry")
  /\ kind = "up" /\ ~opts.recreate
  /\ UNCHANGED <<run, World, has, registry>>

(* kind delete cluster: every object on it is gone with it.                *)
EraseKind ==
  /\ kind' = "absent"
  /\ kz' = {} /\ suspended' = {} /\ applying' = {}
  /\ src' = [c \in Clusters |-> "none"]
  /\ has' = [has EXCEPT !["kind"] = {}]

DropKind ==
  /\ pc = "ensure" /\ kind = "up" /\ opts.recreate
  /\ EraseKind
  /\ UNCHANGED <<pc, run, tgt, infra, registry>>

CreateKind ==
  /\ Step("ensure", "registry")
  /\ kind = "absent"
  /\ kind' = "up"
  /\ UNCHANGED <<run, flux, src, tgt, infra, has, registry>>

(* Step 1.5: the post-create hook, and the registry of a local-host run.   *)
StartRegistry ==
  /\ Step("registry", "operator")
  /\ registry' = IF Local THEN "serving" ELSE registry
  /\ UNCHANGED <<run, World, has>>

---------------------------------------------------------------------------
(* Seeding Flux, on kind (Steps 2-4) and on the target (Phase 5). The same *)
(* functions serve both; site says which cluster they work on (see Install). *)

InstallFluxOperator == Step("operator", "tags") /\ Install({"operator"})

(* On kind the tags are made; the target's are copied from kind.           *)
EnsureRunTags ==
  /\ pc = "tags"
  /\ site = "mgmt" => "tags" \in has["kind"]
  /\ pc' = IF Local THEN "instance" ELSE "dropkey"
  /\ Install({"tags"})

(* The sops-age Secret is deleted and then applied: two steps.             *)
DropSopsKey ==
  /\ Step("dropkey", "applykey")
  /\ has' = [has EXCEPT ![site] = @ \ {"key"}]
  /\ UNCHANGED <<run, World, registry>>

ApplySecrets ==
  /\ Step("applykey", "instance")
  /\ Install(IF site = "kind" THEN {"key", "creds"} ELSE {"key"})

(* The FluxInstance makes the operator create the root Kustomization.      *)
InstallFluxInstance ==
  /\ pc = "instance"
  /\ pc' = IF site = "kind" THEN "watch" ELSE "guard"
  /\ has' = [has EXCEPT ![site] = @ \cup {"instance"}]
  /\ kz' = IF site = "kind" THEN kz \cup {Root} ELSE kz
  /\ UNCHANGED <<run, kind, suspended, applying, src, tgt, infra, registry>>

(* Step 5; BOOTSTRAP_PIVOT=0 ends the run here.                            *)
WatchReconciliation ==
  /\ pc = "watch" /\ Satisfied("watch")
  /\ pc' = IF opts.pivot THEN "context" ELSE "done"
  /\ UNCHANGED <<run, World, has, registry>>

---------------------------------------------------------------------------
(* Phases 0-3.                                                             *)

CheckContext ==
  /\ Step("context", "definition") /\ Satisfied("context")
  /\ UNCHANGED <<run, World, has, registry>>

WaitForDefinition ==
  /\ Step("definition", "kubeconfig") /\ Satisfied("definition")
  /\ UNCHANGED <<run, World, has, registry>>

WaitForKubeconfig ==
  /\ Step("kubeconfig", "export") /\ Satisfied("kubeconfig")
  /\ UNCHANGED <<run, World, has, registry>>

ExportKubeconfig ==
  /\ Step("export", "nodes") /\ Satisfied("export")
  /\ UNCHANGED <<run, World, has, registry>>

WaitForNodes ==
  /\ Step("nodes", "capi") /\ Satisfied("nodes")
  /\ UNCHANGED <<run, World, has, registry>>

InstallOnTarget(items) ==
  /\ has' = [has EXCEPT !["mgmt"] = @ \cup items]
  /\ UNCHANGED <<run, World, registry>>

InstallCapiOperator == Step("capi", "manifests") /\ InstallOnTarget({"capi"})

ApplyPivotManifests ==
  /\ Step("manifests", "providers")
  /\ InstallOnTarget(IF Local THEN {} ELSE {"creds"})

WaitForProviders ==
  /\ Step("providers", "list")
  /\ InstallOnTarget({"providers"})

---------------------------------------------------------------------------
(* Phase 4: suspend Flux in kind, move, unpause.                           *)

(* capture_lossy: a failed listing is an empty one.                        *)
ListKustomizations ==
  /\ Step("list", "suspend")
  /\ \/ toSuspend' = kz
     \/ "listing" \in Hazards /\ toSuspend' = {}
  /\ UNCHANGED <<opts, site, inventory, toMove, faults, World, has, registry>>

SuspendKustomization(k) ==
  /\ pc = "suspend" /\ k \in toSuspend
  /\ toSuspend' = toSuspend \ {k}
  /\ suspended' = suspended \cup {k}
  /\ UNCHANGED <<pc, opts, site, inventory, toMove, faults, kind, kz, applying,
                 src, tgt, infra, has, registry>>

(* clusterctl move pauses every Cluster it finds on the source,            *)
MovePause ==
  /\ Step("suspend", "copy") /\ toSuspend = {}
  /\ inventory' = Present(src) /\ toMove' = Present(src)
  /\ src' = [c \in Clusters |-> IF src[c] = "live" THEN "paused" ELSE src[c]]
  /\ UNCHANGED <<opts, site, toSuspend, faults, kind, flux, tgt, infra, has,
                 registry>>

(* creates each, still paused, on the target,                              *)
MoveCreate(c) ==
  /\ pc = "copy" /\ c \in toMove
  /\ tgt' = [tgt EXCEPT ![c] = "paused"]
  /\ toMove' = toMove \ {c}
  /\ UNCHANGED <<pc, opts, site, toSuspend, inventory, faults, kind, flux, src,
                 infra, has, registry>>

MoveCreated ==
  /\ Step("copy", "purge") /\ toMove = {}
  /\ toMove' = inventory
  /\ UNCHANGED <<opts, site, toSuspend, inventory, faults, World, has, registry>>

(* and only then deletes them from the source.                             *)
MoveDelete(c) ==
  /\ pc = "purge" /\ c \in toMove
  /\ src' = [src EXCEPT ![c] = "none"]
  /\ toMove' = toMove \ {c}
  /\ UNCHANGED <<pc, opts, site, toSuspend, inventory, faults, kind, flux, tgt,
                 infra, has, registry>>

MoveDeleted ==
  /\ Step("purge", "moved") /\ toMove = {}
  /\ UNCHANGED <<run, World, has, registry>>

(* Unpausing: another lossy listing, and each patch may fail unnoticed.    *)
ListMoved ==
  /\ Step("moved", "unpause")
  /\ \/ toMove' = Present(tgt)
     \/ "unpause" \in Hazards /\ toMove' = {}
  /\ UNCHANGED <<opts, site, toSuspend, inventory, faults, World, has, registry>>

Unpause(c) ==
  /\ pc = "unpause" /\ c \in toMove
  /\ toMove' = toMove \ {c}
  /\ \/ tgt' = [tgt EXCEPT ![c] = "live"]
     \/ "unpause" \in Hazards /\ tgt' = tgt
  /\ UNCHANGED <<pc, opts, site, toSuspend, inventory, faults, kind, flux, src,
                 infra, has, registry>>

Unpaused ==
  /\ Step("unpause", "relist") /\ toMove = {}
  /\ UNCHANGED <<run, World, has, registry>>

(* The strict listing and the move fallbacks end Phase 4.                  *)
ApplyFallbacks ==
  /\ Step("relist", "push")
  /\ UNCHANGED <<run, World, has, registry>>

---------------------------------------------------------------------------
(* Phases 5 and 6.                                                         *)

PublishArtifact ==
  /\ Step("push", "operator") /\ Satisfied("push")
  /\ site' = "mgmt"
  /\ UNCHANGED <<opts, toSuspend, inventory, toMove, faults, World, has, registry>>

(* The guard: PIVOT_SKIP_DELETE=1 ends the run; no Cluster listed on the   *)
(* target, or a dead registry, fails it (GiveUp).                          *)
GuardDeletion ==
  /\ pc = "guard" /\ Satisfied("guard")
  /\ pc' = IF opts.skipDelete THEN "done" ELSE "kinddelete"
  /\ UNCHANGED <<run, World, has, registry>>

DeleteKind ==
  /\ Step("kinddelete", "done")
  /\ EraseKind
  /\ UNCHANGED <<run, tgt, infra, registry>>

---------------------------------------------------------------------------
(* The world around the CLI.                                               *)

Live(k) == k \in kz \ suspended /\ "instance" \in has["kind"]

(* Flux on kind has rendered k and is about to apply it. Suspending k does *)
(* not stop an apply that has begun.                                       *)
FluxBegin(k) ==
  /\ "inflight" \in Hazards
  /\ Live(k) /\ k \notin applying
  /\ applying' = applying \cup {k}
  /\ UNCHANGED <<pc, run, kind, kz, suspended, src, tgt, infra, has, registry>>

(* Flux creates what Git declares and is absent. It leaves spec.paused of  *)
(* an existing Cluster alone, which Git does not mention.                  *)
FluxApply(k) ==
  /\ kind = "up"
  /\ Live(k) \/ k \in applying
  /\ \/ k = Root /\ kz # Kustomizations
     \/ ClustersOf[k] \cap Missing(src) # {}
  /\ applying' = applying \ {k}
  /\ kz' = IF k = Root THEN Kustomizations ELSE kz
  /\ src' = [c \in Clusters |->
               IF c \in ClustersOf[k] /\ src[c] = "none" THEN "live" ELSE src[c]]
  /\ UNCHANGED <<pc, run, kind, suspended, tgt, infra, has, registry>>

FluxApplyOnTarget(c) ==
  /\ "instance" \in has["mgmt"]
  /\ tgt[c] = "none"
  /\ tgt' = [tgt EXCEPT ![c] = "live"]
  /\ UNCHANGED <<pc, run, kind, flux, src, infra, has, registry>>

(* The providers build an unpaused Cluster: endpoint first, then nodes.    *)
Provision(c) ==
  /\ src[c] = "live" \/ tgt[c] = "live"
  /\ infra[c] # "ready"
  /\ infra' = [infra EXCEPT ![c] = IF @ = "none" THEN "endpoint" ELSE "ready"]
  /\ UNCHANGED <<pc, run, kind, flux, src, tgt, has, registry>>

RegistryStops ==
  /\ "registry" \in Hazards
  /\ registry = "serving" /\ faults < MaxFaults
  /\ registry' = "stopped"
  /\ faults' = faults + 1
  /\ UNCHANGED <<pc, opts, site, toSuspend, inventory, toMove, World, has>>

---------------------------------------------------------------------------
Bootstrap ==
  \/ ReuseKind \/ DropKind \/ CreateKind \/ StartRegistry
  \/ InstallFluxOperator \/ EnsureRunTags \/ DropSopsKey \/ ApplySecrets
  \/ InstallFluxInstance \/ WatchReconciliation

Prepare ==
  \/ CheckContext \/ WaitForDefinition \/ WaitForKubeconfig
  \/ ExportKubeconfig \/ WaitForNodes
  \/ InstallCapiOperator \/ ApplyPivotManifests \/ WaitForProviders

Move ==
  \/ ListKustomizations
  \/ \E k \in Kustomizations : SuspendKustomization(k)
  \/ MovePause \/ MoveCreated \/ MoveDeleted
  \/ \E c \in Clusters : MoveCreate(c) \/ MoveDelete(c)
  \/ ListMoved
  \/ \E c \in Clusters : Unpause(c)
  \/ Unpaused \/ ApplyFallbacks

Finish == PublishArtifact \/ GuardDeletion \/ DeleteKind

CliStep == Bootstrap \/ Prepare \/ Move \/ Finish

Environment ==
  \/ \E k \in Kustomizations : FluxBegin(k) \/ FluxApply(k)
  \/ \E c \in Clusters : FluxApplyOnTarget(c) \/ Provision(c)
  \/ RegistryStops

Next ==
  \/ CliStep \/ GiveUp \/ Fail \/ Environment
  \/ \E o \in RunOptions : Start(o)

Spec == Init /\ [][Next]_vars

(* A started run goes on until it ends, controllers reconcile, and the     *)
(* operator reruns what failed, as docs/operations.md tells them to.       *)
Fairness ==
  /\ WF_vars(CliStep \/ GiveUp)
  /\ WF_vars(pc # "done" /\ \E o \in RunOptions : Start(o))
  /\ \A k \in Kustomizations : WF_vars(FluxApply(k))
  /\ \A c \in Clusters : WF_vars(FluxApplyOnTarget(c)) /\ WF_vars(Provision(c))

FairSpec == Spec /\ Fairness
---------------------------------------------------------------------------
(* What must hold.                                                         *)

(* The parts of Phase 4 during which both clusters may hold a Cluster.     *)
Moving == pc \in {"copy", "purge", "moved", "unpause"}

(* One owner: a Cluster that has a copy on the management cluster is not   *)
(* reconciled on kind, whatever fails and is rerun (main.rs 2747-2751).    *)
OneOwner == \A c \in Clusters : src[c] = "live" => tgt[c] = "none"

(* Infrastructure a provider built is always under some Cluster object, so *)
(* something can still deprovision it (main.rs 2139-2140, 2951-2952).      *)
NothingOrphaned ==
  \A c \in Clusters : infra[c] # "none" => src[c] # "none" \/ tgt[c] # "none"

(* When Flux on the management cluster starts, every Cluster the move left *)
(* there is unpaused: nothing later would unpause it (main.rs 2798-2801).  *)
UnpausedBeforeFlux ==
  "instance" \in has["mgmt"] => \A c \in Clusters : tgt[c] # "paused"

(* A FluxInstance never runs without what its Kustomizations substitute:   *)
(* the run tags and, on the target, the sops-age key and the credentials   *)
(* (main.rs 2913-2920).                                                    *)
SeededBeforeFlux ==
  /\ \A s \in Sites : "instance" \in has[s] => {"operator", "tags"} \subseteq has[s]
  /\ "instance" \in has["mgmt"] /\ ~Local => {"key", "creds"} \subseteq has["mgmt"]

(* Flux in kind creates no Cluster while the move is under way             *)
(* (main.rs 2747-2751).                                                    *)
QuietDuringMove ==
  [][Moving => \A c \in Clusters : src[c] = "none" => src'[c] = "none"]_vars

(* Outside --recreate, kind is deleted only when it holds no Cluster and   *)
(* the management cluster runs its own Flux (main.rs 2951-2969).           *)
KindGoesLast ==
  [][kind = "up" /\ kind' = "absent" /\ pc # "ensure" =>
       src = [c \in Clusters |-> "none"] /\ "instance" \in has["mgmt"]]_vars

(* Every wait is bounded: a run that was started ends (main.rs 1931-1944). *)
RunsEnd == pc \in Running ~> pc \in Ended

(* Rerunning the command brings an interrupted bootstrap or pivot to its   *)
(* end: kind gone, every Cluster active on the management cluster          *)
(* (docs/bootstrap-cli.md 100-101).                                        *)
PivotCompletes ==
  <>[](kind = "absent" /\ \A c \in Clusters : tgt[c] = "live")

(* A sops-age Secret lost between its deletion and its re-creation comes   *)
(* back while Flux needs it (main.rs 1708-1734).                           *)
KeyRestored ==
  ("instance" \in has["kind"] /\ "key" \notin has["kind"])
    ~> "key" \in has["kind"]
=============================================================================
