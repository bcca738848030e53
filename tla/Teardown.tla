------------------------------ MODULE Teardown ------------------------------
(***************************************************************************)
(* krops-bootstrap teardown: run_teardown of bootstrap-rs/src/teardown.rs  *)
(* with the three paths it has (local-host, local-talos, aws), one action  *)
(* per step that changes state or decides how the run goes on.             *)
(*                                                                         *)
(* The run works against controllers that keep going: Flux re-creates a    *)
(* Cluster object Git declares, the CAPI providers build what a live       *)
(* object asks for and deprovision what a deleted one leaves. A run may be *)
(* started in any state a bootstrap, finished or interrupted, leaves       *)
(* behind (Placements), and again after a failure.                         *)
(***************************************************************************)
EXTENDS Naturals, FiniteSets

CONSTANTS
  Clusters,      \* the CAPI Clusters Git declares
  MgmtCluster,   \* the management cluster among them
  Placements,    \* where the bootstrap of each profile left the inventory
  RunOptions,    \* the switches a run may be started with
  Hazards,       \* which of HazardKinds may happen
  MaxFaults      \* bound on the failures of strict steps

HazardKinds ==
  { "unreachable",   \* a 10 s discovery probe misses a cluster that is up
    "patch",         \* suspending a Kustomization fails, and is tolerated
    "delete",        \* a kubectl delete fails or returns early, and is tolerated
    "stuck",         \* a Cluster or a provider keeps its finalizer
    "sweep",         \* the sweep leaves a target's resources behind
    "providers",     \* deleting the providers fails, and is tolerated
    "removal" }      \* removing kind, the containers or the registry fails,
                     \* and is tolerated

Profiles == {"local-host", "local-talos", "aws"}

Options == [profile : Profiles, awsOnly : BOOLEAN, force : BOOLEAN,
            awsCli : BOOLEAN]

ASSUME MgmtAssumption == MgmtCluster \in Clusters
ASSUME InstanceAssumption ==
  /\ Placements \in [Profiles -> SUBSET {"kind", "handed", "mgmt", "nokubeconfig"}]
  /\ RunOptions \subseteq Options
  /\ Hazards \subseteq HazardKinds
  /\ MaxFaults \in Nat
\* AWS_ONLY=1 is rejected by the other profiles (1922-1924, 2057-2061), and
\* needs the AWS CLI (1889-1892).
ASSUME OptionAssumption ==
  \A o \in RunOptions : o.awsOnly => o.profile = "aws" /\ o.awsCli

VARIABLES
  pc,          \* the step the run is about to take, or how the last one ended
  opts,        \* the switches of the current run
  host,        \* the discovered controller host: a site or "none"
  todo,        \* what the current loop still has to visit
  current,     \* the Cluster a delete or a wait is about
  faults,      \* failures of strict steps so far
  up,          \* the sites that exist and answer
  kubeconfig,  \* the management kubeconfig was exported
  objs,        \* the Cluster objects on each site
  infra,       \* what exists of each Cluster outside Kubernetes
  flux,        \* the sites Flux reconciles
  suspended,   \* Clusters whose Kustomization is suspended, by site
  capi,        \* the sites whose providers are running
  leaving,     \* those where they are being deleted
  registry,    \* the local registry exists
  stranded     \* history: a run ended between the machines and the registry

run   == <<opts, host, current, faults, stranded>>
world == <<up, kubeconfig, objs, infra, flux, suspended, capi, leaving, registry>>
vars  == <<pc, run, todo, world>>

Local == opts.profile = "local-host"
Talos == opts.profile = "local-talos"
Aws   == opts.profile = "aws"
Sites == {"kind", "mgmt"}

Ended   == {"idle", "failed", "complete"}
Running == { "discover", "suspend", "patch", "list", "delete", "deleting",
             "await", "sweep", "sweeping", "providers", "releasing", "released",
             "helm", "host", "registry" }

(* What teardown deletes through CAPI: everything on local-talos, where    *)
(* the deletion is the release; elsewhere all but the management cluster.  *)
Doomed == IF Talos THEN Clusters ELSE Clusters \ {MgmtCluster}

On(s) == {c \in Clusters : objs[s][c] # "none"}

TypeOK ==
  /\ pc \in Ended \cup Running
  /\ opts \in Options
  /\ host \in Sites \cup {"none"}
  /\ todo \subseteq Clusters /\ current \in Clusters
  /\ faults \in 0..MaxFaults
  /\ up \subseteq Sites /\ flux \subseteq up
  /\ leaving \subseteq capi /\ capi \subseteq up
  /\ kubeconfig \in BOOLEAN
  /\ objs \in [Sites -> [Clusters -> {"none", "live", "deleting"}]]
  /\ infra \in [Clusters -> {"none", "built"}]
  /\ suspended \in [Sites -> SUBSET Clusters]
  /\ registry \in BOOLEAN /\ stranded \in BOOLEAN

---------------------------------------------------------------------------
(* Where a bootstrap may have left things (the end states of Pivot).       *)

Nothing == [c \in Clusters |-> "none"]
LiveOf(S) == [c \in Clusters |-> IF c \in S THEN "live" ELSE "none"]
BuiltOf(S) == [c \in Clusters |-> IF c \in S THEN "built" ELSE "none"]

\* Before the move: Flux and the providers on kind; the management cluster
\* may exist already, empty.
BeforeMove ==
  \E made \in SUBSET Clusters : \E built \in SUBSET made :
    /\ objs = [s \in Sites |-> IF s = "kind" THEN LiveOf(made) ELSE Nothing]
    /\ infra = BuiltOf(built)
    /\ up = IF MgmtCluster \in built THEN Sites ELSE {"kind"}
    /\ kubeconfig \in BOOLEAN /\ (kubeconfig => MgmtCluster \in built)
    /\ flux = {"kind"} /\ capi = {"kind"}
    /\ suspended = [s \in Sites |-> {}]

\* After the move: everything is on the management cluster. kind is still
\* there ("handed": PIVOT_SKIP_DELETE=1, or a failure after the move) or not.
AfterMove(place) ==
  /\ objs = [s \in Sites |-> IF s = "mgmt" THEN LiveOf(Clusters) ELSE Nothing]
  /\ infra = BuiltOf(Clusters)
  /\ up = IF place = "handed" THEN Sites ELSE {"mgmt"}
  /\ kubeconfig = (place # "nokubeconfig")
  /\ flux = up \/ (place = "handed" /\ flux = {"kind"})
  /\ capi = up
  /\ suspended = [s \in Sites |-> IF s = "kind" THEN Clusters ELSE {}]

Init ==
  /\ pc = "idle"
  /\ opts \in RunOptions
  /\ host = "none" /\ todo = {} /\ current = MgmtCluster
  /\ faults = 0 /\ leaving = {}
  /\ registry = Local /\ stranded = FALSE
  /\ \E place \in Placements[opts.profile] :
       IF place = "kind" THEN BeforeMove ELSE AfterMove(place)

---------------------------------------------------------------------------
(* Effects several steps share.                                            *)

Goto(from, to) == pc = from /\ pc' = to

(* The machines of a site are gone, with everything that ran on them.      *)
Lose(s) ==
  /\ up' = up \ {s}
  /\ flux' = flux \ {s} /\ capi' = capi \ {s} /\ leaving' = leaving \ {s}
  /\ objs' = [objs EXCEPT ![s] = Nothing]
  /\ suspended' = [suspended EXCEPT ![s] = {}]

KeepSites == UNCHANGED <<up, flux, capi, leaving, objs, suspended>>

(* The outside resources of c are destroyed: the management cluster's are  *)
(* the machines of its site.                                               *)
Destroy(c) ==
  /\ infra' = [infra EXCEPT ![c] = "none"]
  /\ IF c = MgmtCluster THEN Lose("mgmt") ELSE KeepSites

(* What a query or a bounded wait needs to be answered well.               *)
Confirmed ==
  CASE pc = "suspend"   -> host \in up
    [] pc = "list"      -> Local \/ host \in up
    [] pc = "delete"    -> Local /\ todo # {} => host \in up
    [] pc = "deleting"  -> Local => host \in up /\ objs[host][current] = "none"
    [] pc = "await"     -> host \in up /\ On(host) \cap Doomed = {}
    [] pc \in {"providers", "released"} -> host \in up
    [] OTHER            -> TRUE

---------------------------------------------------------------------------
(* Slips: variants of actions below, each with a bug the code could have.  *)
(* No specification uses them; putting one in the place of its original    *)
(* must break the properties named with it.                                *)

\* ImplementsDisposal: the finalizer is taken off, to end the wait.
DropFinalizer(c) ==
  objs' = [objs EXCEPT ![host][c] = "none"]

\* TypeOK: the patch names the host instead of the Kustomization.
PatchWrongName(c) ==
  /\ pc = "patch" /\ c \in todo
  /\ todo' = todo \ {c}
  /\ suspended' = [suspended EXCEPT ![host] = @ \cup {host}]
  /\ UNCHANGED <<pc, run, up, kubeconfig, objs, infra, flux, capi, leaving, registry>>

\* HostGuarded, WorkloadSweepUnopposed, HonestExit: a poll that errors or
\* runs out reads as "all gone".
AwaitGoneBlindly ==
  /\ pc = "await"
  /\ pc' = IF Talos THEN "host" ELSE "sweep"
  /\ UNCHANGED <<run, todo, world>>

\* HostGuarded on local-host: the delete is not waited for.
WorkloadGoneUnchecked ==
  /\ Local /\ Goto("deleting", "delete")
  /\ UNCHANGED <<run, todo, world>>

\* RunEnds: the probe of a workload is repeated until it is answered.
GiveUpExceptDelete ==
  /\ pc \in Running \ {"delete"}
  /\ ~Confirmed
  /\ pc' = "failed"
  /\ UNCHANGED <<run, todo, world>>

\* NothingLeft, TeardownSucceeds: the management cluster is no sweep target.
PlanWorkloadSweep ==
  /\ Goto("sweep", "sweeping")
  /\ todo' = IF opts.awsCli THEN Clusters \ {MgmtCluster} ELSE {}
  /\ UNCHANGED <<run, world>>

---------------------------------------------------------------------------
(* Starting and ending a run.                                              *)

(* An environment keeps its profile; the switches may change.              *)
Start(o) ==
  /\ pc \in Ended
  /\ o.profile = opts.profile
  /\ pc' = "discover"
  /\ opts' = o
  /\ UNCHANGED <<host, current, faults, stranded, todo, world>>

(* A strict step fails (a query that errors among them), or the process is *)
(* killed between two steps.                                               *)
Fail ==
  /\ pc \in Running
  /\ faults < MaxFaults
  /\ pc' = "failed"
  /\ faults' = faults + 1
  /\ stranded' = (stranded \/ (pc = "registry" /\ up = {}))
  /\ UNCHANGED <<opts, host, current, todo, world>>

(* The run ends where what the step asks for is not confirmed.            *)
GiveUp ==
  /\ pc \in Running
  /\ ~Confirmed
  /\ pc' = "failed"
  /\ UNCHANGED <<run, todo, world>>

---------------------------------------------------------------------------
(* The controller host.                                                    *)

(* kind wins, then the exported kubeconfig. The local-host path looks at   *)
(* the kind listing and at the file only; the others probe the clusters.   *)
Candidates ==
  {s \in Sites : IF s = "kind" THEN "kind" \in up
                 ELSE kubeconfig /\ (Local \/ "mgmt" \in up)}

Prefer(seen) ==
  IF "kind" \in seen THEN "kind" ELSE IF "mgmt" \in seen THEN "mgmt" ELSE "none"

FindHost ==
  \/ host' = Prefer(Candidates)
  \/ /\ "unreachable" \in Hazards
     /\ \E seen \in SUBSET Candidates : host' = Prefer(seen)

DiscoverLocal ==
  /\ Local /\ pc = "discover"
  /\ FindHost
  /\ pc' = CASE host' = "kind" -> "list"
             [] host' = "mgmt" -> "patch"
             [] OTHER          -> "host"
  \* On the management cluster the workload Kustomization is suspended.
  /\ todo' = IF host' = "mgmt" THEN Doomed ELSE {}
  /\ UNCHANGED <<opts, current, faults, stranded, world>>

DiscoverTalos ==
  /\ Talos /\ pc = "discover"
  /\ FindHost
  /\ pc' = IF host' = "none" THEN "complete" ELSE "suspend"
  /\ UNCHANGED <<opts, current, faults, stranded, todo, world>>

DiscoverAws ==
  /\ Aws /\ pc = "discover"
  /\ IF opts.awsOnly THEN host' = "none" ELSE FindHost
  /\ pc' = IF host' = "none" THEN "sweep" ELSE "suspend"
  /\ UNCHANGED <<opts, current, faults, stranded, todo, world>>

---------------------------------------------------------------------------
(* Steps 1-3: suspend Flux, delete the Clusters, wait.                     *)

ListKustomizations ==
  /\ Goto("suspend", "patch") /\ Confirmed
  /\ todo' = IF host \in flux THEN Clusters ELSE {}
  /\ UNCHANGED <<run, world>>

Patch(c) ==
  /\ pc = "patch" /\ c \in todo
  /\ todo' = todo \ {c}
  /\ \/ /\ host \in up
        /\ suspended' = [suspended EXCEPT ![host] = @ \cup {c}]
     \/ /\ "patch" \in Hazards \/ host \notin up
        /\ UNCHANGED suspended
  /\ UNCHANGED <<pc, run, up, kubeconfig, objs, infra, flux, capi, leaving, registry>>

Patched ==
  /\ Goto("patch", "list") /\ todo = {}
  /\ UNCHANGED <<run, todo, world>>

(* local-host visits its configured workloads, the others what they list.  *)
ListClusters ==
  /\ pc = "list" /\ Confirmed
  /\ todo' = IF Local THEN Doomed ELSE On(host) \cap Doomed
  /\ pc' = CASE todo' # {} \/ Local -> "delete"
             [] OTHER -> IF Talos THEN "host" ELSE "sweep"
  /\ UNCHANGED <<run, world>>

(* kubectl delete cluster c on the host.                                   *)
RequestDeletion(c) ==
  objs' = [objs EXCEPT ![host][c] = IF @ = "none" THEN "none" ELSE "deleting"]

(* aws and local-talos: the delete blocks until the object is gone, with   *)
(* no bound of its own; that it failed, at once or later, is ignored.      *)
DeleteCluster(c) ==
  /\ ~Local /\ pc = "delete" /\ c \in todo
  /\ todo' = todo \ {c}
  /\ current' = c
  /\ \/ pc' = "deleting" /\ RequestDeletion(c)
     \/ "delete" \in Hazards /\ UNCHANGED <<pc, objs>>
  /\ UNCHANGED <<opts, host, faults, stranded, up, kubeconfig, infra, flux,
                 suspended, capi, leaving, registry>>

DeleteReturns ==
  /\ ~Local /\ Goto("deleting", "delete")
  /\ objs[host][current] # "deleting" \/ "delete" \in Hazards
  /\ UNCHANGED <<run, todo, world>>

AllDeleted ==
  /\ ~Local /\ Goto("delete", "await") /\ todo = {}
  /\ UNCHANGED <<run, todo, world>>

AwaitGone ==
  /\ pc = "await" /\ Confirmed
  /\ pc' = IF Talos THEN "host" ELSE "sweep"
  /\ UNCHANGED <<run, todo, world>>

(* local-host: probe, delete without waiting, poll, one Cluster at a time. *)
SkipAbsent(c) ==
  /\ Local /\ pc = "delete" /\ c \in todo /\ Confirmed
  /\ objs[host][c] = "none"
  /\ todo' = todo \ {c}
  /\ UNCHANGED <<pc, run, world>>

DeleteWorkload(c) ==
  /\ Local /\ Goto("delete", "deleting") /\ c \in todo /\ Confirmed
  /\ objs[host][c] # "none"
  /\ todo' = todo \ {c}
  /\ current' = c
  /\ RequestDeletion(c)
  /\ UNCHANGED <<opts, host, faults, stranded, up, kubeconfig, infra, flux,
                 suspended, capi, leaving, registry>>

WorkloadGone ==
  /\ Local /\ Goto("deleting", "delete") /\ Confirmed
  /\ UNCHANGED <<run, todo, world>>

WorkloadsGone ==
  /\ Local /\ Goto("delete", "host") /\ todo = {}
  /\ UNCHANGED <<run, todo, world>>

---------------------------------------------------------------------------
(* Step 4: the AWS orphan sweep, best-effort, over the configured targets. *)

PlanSweep ==
  /\ Goto("sweep", "sweeping")
  /\ todo' = IF opts.awsCli THEN Clusters ELSE {}
  /\ UNCHANGED <<run, world>>

SweepTarget(c) ==
  /\ pc = "sweeping" /\ c \in todo
  /\ todo' = todo \ {c}
  /\ \/ Destroy(c)
     \/ "sweep" \in Hazards /\ UNCHANGED infra /\ KeepSites
  /\ UNCHANGED <<pc, run, kubeconfig, registry>>

(* Steps 5-8 are skipped without a host, and when the sweep was asked to   *)
(* remove the management cluster it runs on.                               *)
MgmtSwept == opts.awsCli /\ host = "mgmt"

SweepDone ==
  /\ pc = "sweeping" /\ todo = {}
  /\ pc' = IF host = "none" \/ MgmtSwept THEN "host" ELSE "providers"
  /\ UNCHANGED <<run, todo, world>>

---------------------------------------------------------------------------
(* Steps 5-9: providers, Helm releases and secrets, the host itself.       *)

(* The providers are listed and deleted by calls that block like those for *)
(* Clusters and whose failure is ignored; then polled for, with a bound    *)
(* the run survives.                                                       *)
DeleteProviders ==
  /\ Goto("providers", "releasing") /\ Confirmed
  /\ \/ leaving' = leaving \cup (capi \cap {host})
     \/ "providers" \in Hazards /\ UNCHANGED leaving
  /\ UNCHANGED <<run, todo, up, kubeconfig, objs, infra, flux, suspended, capi,
                 registry>>

ProvidersReturn ==
  /\ Goto("releasing", "released")
  /\ host \notin leaving \/ "providers" \in Hazards
  /\ UNCHANGED <<run, todo, world>>

PollProviders ==
  /\ Goto("released", "helm") /\ Confirmed
  /\ UNCHANGED <<run, todo, world>>

UninstallHelm ==
  /\ Goto("helm", "host")
  /\ flux' \in {flux, flux \ {host}}
  /\ UNCHANGED <<run, todo, up, kubeconfig, objs, infra, suspended, capi, leaving,
                 registry>>

(* kind delete cluster; on the post-pivot local-host the containers of the *)
(* management cluster; on the other hosts nothing is left to remove.       *)
RemoveHost ==
  /\ pc = "host"
  /\ pc' = CASE Local -> "registry"
             [] Aws /\ host = "none" /\ ~opts.awsOnly -> "failed"
             [] OTHER -> "complete"
  /\ CASE host = "kind" ->
            /\ UNCHANGED infra
            /\ Lose("kind") \/ ("removal" \in Hazards /\ KeepSites)
       [] host # "kind" /\ Local ->
            \/ Destroy(MgmtCluster)
            \/ /\ "removal" \in Hazards
               /\ UNCHANGED infra /\ KeepSites
       [] OTHER -> UNCHANGED infra /\ KeepSites
  /\ UNCHANGED <<run, todo, kubeconfig, registry>>

RemoveRegistry ==
  /\ Goto("registry", "complete")
  /\ registry' = FALSE \/ ("removal" \in Hazards /\ UNCHANGED registry)
  /\ UNCHANGED <<run, todo, up, kubeconfig, objs, infra, flux, suspended, capi,
                 leaving>>

---------------------------------------------------------------------------
(* The controllers.                                                        *)

FluxRecreates(s, c) ==
  /\ s \in flux /\ c \notin suspended[s]
  /\ objs[s][c] = "none"
  /\ objs' = [objs EXCEPT ![s][c] = "live"]
  /\ UNCHANGED <<pc, run, todo, up, kubeconfig, infra, flux, suspended, capi,
                 leaving, registry>>

Build(s, c) ==
  /\ s \in capi /\ objs[s][c] = "live" /\ infra[c] = "none"
  /\ infra' = [infra EXCEPT ![c] = "built"]
  /\ up' = IF c = MgmtCluster THEN up \cup {"mgmt"} ELSE up
  /\ UNCHANGED <<pc, run, todo, kubeconfig, objs, flux, suspended, capi, leaving,
                 registry>>

(* A deleted Cluster's resources go first, its finalizer last. The machine *)
(* of a local-talos cluster is released, never wiped: the site stays up.   *)
Deprovision(s, c) ==
  /\ s \in capi /\ objs[s][c] = "deleting" /\ infra[c] = "built"
  /\ infra' = [infra EXCEPT ![c] = "none"]
  /\ UNCHANGED <<pc, run, todo, up, kubeconfig, objs, flux, suspended, capi,
                 leaving, registry>>

Finalize(s, c) ==
  /\ s \in capi /\ objs[s][c] = "deleting" /\ infra[c] = "none"
  /\ objs' = [objs EXCEPT ![s][c] = "none"]
  /\ UNCHANGED <<pc, run, todo, up, kubeconfig, infra, flux, suspended, capi,
                 leaving, registry>>

(* The CAPI operator takes a deleted provider down.                        *)
TakeDown(s) ==
  /\ s \in leaving
  /\ leaving' = leaving \ {s} /\ capi' = capi \ {s}
  /\ UNCHANGED <<pc, run, todo, up, kubeconfig, objs, infra, flux, suspended,
                 registry>>

---------------------------------------------------------------------------
Discover == DiscoverLocal \/ DiscoverTalos \/ DiscoverAws

DeleteClusters ==
  \/ ListKustomizations \/ Patched \/ ListClusters
  \/ \E c \in Clusters :
       Patch(c) \/ DeleteCluster(c) \/ SkipAbsent(c) \/ DeleteWorkload(c)
  \/ DeleteReturns \/ AllDeleted \/ AwaitGone
  \/ WorkloadGone \/ WorkloadsGone

Sweep == PlanSweep \/ (\E c \in Clusters : SweepTarget(c)) \/ SweepDone

Remove ==
  \/ DeleteProviders \/ ProvidersReturn \/ PollProviders
  \/ UninstallHelm \/ RemoveHost \/ RemoveRegistry

CliStep == Discover \/ DeleteClusters \/ Sweep \/ Remove

Controllers ==
  \E s \in Sites :
    \/ TakeDown(s)
    \/ \E c \in Clusters :
         FluxRecreates(s, c) \/ Build(s, c) \/ Deprovision(s, c) \/ Finalize(s, c)

Next ==
  \/ CliStep \/ GiveUp \/ Fail \/ Controllers
  \/ \E o \in RunOptions : Start(o)

Spec == Init /\ [][Next]_vars

(* A started run goes on until it ends, and the operator reruns what       *)
(* failed. The controllers do their work unless something is stuck.        *)
Fairness ==
  /\ WF_vars(CliStep \/ GiveUp)
  /\ WF_vars(pc # "complete" /\ \E o \in RunOptions : Start(o))
  /\ "stuck" \notin Hazards =>
       \A s \in Sites :
         /\ WF_vars(TakeDown(s))
         /\ \A c \in Clusters : WF_vars(Deprovision(s, c)) /\ WF_vars(Finalize(s, c))

FairSpec == Spec /\ Fairness
---------------------------------------------------------------------------
(* What must hold.                                                         *)

(* A controller host goes only when it holds no Cluster that teardown is   *)
(* to delete through it: nothing else deprovisions what such a Cluster     *)
(* built (teardown.rs 318-324; docs/bootstrap-cli.md 345-356). AWS_ONLY=1  *)
(* gives this up knowingly.                                                *)
HostGuarded ==
  [][\A s \in up \ up' : opts.awsOnly \/ On(s) \cap Doomed = {}]_vars

(* The sweep destroys no workload a running controller still reconciles    *)
(* for a live Cluster (teardown.rs 2236-2240, 2385-2388).                  *)
WorkloadSweepUnopposed ==
  [][\A c \in Clusters \ {MgmtCluster} :
       pc = "sweeping" /\ infra[c] = "built" /\ infra'[c] = "none"
         => opts.awsOnly \/ ~\E s \in capi : objs[s][c] = "live"]_vars

(* A run that exits 0 has left no Cluster to be deleted on any site that   *)
(* exists (docs/bootstrap-cli.md 339-353).                                 *)
HonestExit ==
  pc = "complete" /\ ~opts.awsOnly => \A s \in up : On(s) \cap Doomed = {}

(* What a site holds, what exists outside Kubernetes, and what no running  *)
(* Flux applies any more.                                                  *)
Kept     == UNION {On(s) : s \in up}
Standing == {c \in Clusters : infra[c] = "built"}
Closed   == {c \in Clusters : \A s \in flux : c \in suspended[s]}

Promise == INSTANCE Disposal
             WITH doomed <- Doomed, kept <- Kept, standing <- Standing,
                  closed <- Closed, hosts <- up, waived <- opts.awsOnly,
                  over <- pc = "complete"

(* Each Cluster to be deleted is given up by its host when what it built   *)
(* is gone, and all of them before anything is swept, a host is removed or *)
(* a run succeeds (teardown.rs 3-14, docs/bootstrap-cli.md 339-356).       *)
ImplementsDisposal == Promise!Spec

(* What a completed run leaves outside Kubernetes: nothing                 *)
(* (teardown.rs 3: "Destroys everything the bootstrap creates").           *)
NothingLeft ==
  pc = "complete" /\ (Aws => opts.awsCli) => \A c \in Clusters : infra[c] = "none"

(* Every run ends: its waits are bounded (docs/bootstrap-cli.md 319-320).  *)
RunEnds == pc \in Running ~> pc \in Ended

(* Rerunning teardown after failures removes everything for good, with one *)
(* exception: a run that ended between the machines and the registry of    *)
(* local-host leaves the registry, and no rerun removes it. The exported   *)
(* kubeconfig is still there, so every rerun tries the management cluster, *)
(* gets no answer and ends before it (teardown.rs 442-455, 2037-2049).     *)
TeardownSucceeds ==
  <>[](/\ up = {} /\ \A c \in Clusters : infra[c] = "none"
       /\ registry = stranded)
=============================================================================
