------------------------------- MODULE Client -------------------------------
(***************************************************************************)
(* The machine krops-bootstrap runs on: which cluster a kubectl, helm or   *)
(* clusterctl call without --kubeconfig reaches. That depends on the       *)
(* kubeconfig file of the run (its own in the toolbox container, the       *)
(* operator's on the host), on its current context, and in the toolbox on  *)
(* the container's membership of kind's network (engine.rs).               *)
(*                                                                         *)
(* It also depends on the kind cluster being one: a creation that was      *)
(* killed leaves half a cluster, and nodes stop being Ready.               *)
(*                                                                         *)
(* Every step is a step of Pivot that also says what becomes of these, or  *)
(* something the operator does to the files or the nodes do.               *)
(***************************************************************************)
EXTENDS PivotInvariant

VARIABLES
  places,    \* where runs are started: in the toolbox (TRUE), on the host
  toolbox,   \* the current run is in the toolbox
  attached,  \* its container is on kind's network
  entry,     \* what each place's file records of kind's endpoint
  context,   \* the current context of each place's file
  health     \* of the kind cluster

client == <<places, toolbox, attached, entry, context, health>>
cvars  == <<vars, client>>

Entries  == {"none", "stale", "host", "internal"}
Contexts == {"none", "kind", "other"}
Healths  == {"none", "half", "unready", "ready"}

(* The endpoint a place can reach: the published port on the host, the     *)
(* name on kind's network in the toolbox.                                  *)
Endpoint(t) == IF t THEN "internal" ELSE "host"

CInit ==
  /\ Init
  /\ places \in SUBSET BOOLEAN \ {{}} /\ toolbox \in places
  /\ attached = FALSE
  /\ entry = [t \in BOOLEAN |-> "none"]
  /\ context \in [BOOLEAN -> {"none", "other"}] /\ context[TRUE] = "none"
  /\ health = "none"

---------------------------------------------------------------------------
(* Slips.                                                                  *)

\* AmbientReachesKind: a rerun finds the context in the file and takes the
\* endpoint for the one it needs.
SelectUnlessPresent ==
  /\ entry' = IF entry[toolbox] = "none"
              THEN [entry EXCEPT ![toolbox] = Endpoint(toolbox)]
              ELSE entry
  /\ context' = [context EXCEPT ![toolbox] = "kind"]

\* RecreateForCause: without the context in the file the run ends.
UnusableUnlessPresent ==
  health # "ready" \/ (entry[toolbox] \in {"none", "stale"} /\ ~toolbox)

---------------------------------------------------------------------------
(* A container that is attached already, or that somebody attaches         *)
(* meanwhile, is as good as one attached now; the host needs none.         *)
JoinKindNetwork == attached' = toolbox

(* select_toolbox_kind_kubeconfig and use-context, with kind export        *)
(* kubeconfig when the context is missing. The toolbox writes its file     *)
(* anew, the host relies on what is there.                                 *)
SelectKind ==
  /\ entry' = IF toolbox \/ entry[toolbox] = "none"
              THEN [entry EXCEPT ![toolbox] = Endpoint(toolbox)]
              ELSE entry
  /\ context' = [context EXCEPT ![toolbox] = "kind"]

(* The nodes of the cluster the file names do not get ready.               *)
Unusable == health # "ready" \/ (entry[toolbox] = "stale" /\ ~toolbox)

StartIn(o, t) ==
  /\ Start(o) /\ t \in places
  /\ toolbox' = t
  /\ attached' = FALSE        \* run --rm: a new container
  /\ UNCHANGED <<places, entry, context, health>>

ReuseReachable ==
  /\ ~Unusable
  /\ ReuseKind /\ JoinKindNetwork /\ SelectKind
  /\ UNCHANGED <<places, toolbox, health>>

(* What a run that was to reuse kind may find.                             *)
Reusing == pc = "ensure" /\ kind = "up" /\ ~opts.recreate

Ends == pc' = "failed" /\ UNCHANGED <<run, World, has, registry>>

(* Half a cluster has no kubeconfig to give: in the toolbox the run ends   *)
(* there, on the host kind export kubeconfig fails.                        *)
SelectFails ==
  /\ Reusing /\ toolbox /\ health = "half"
  /\ Ends /\ JoinKindNetwork
  /\ UNCHANGED <<places, toolbox, entry, context, health>>

ExportFails ==
  /\ ~toolbox /\ entry[FALSE] = "none"
  /\ UNCHANGED <<entry, context>>

(* The two ends that ask for --recreate: the export failed, or the nodes   *)
(* of the cluster the file now names never get ready. A healthy cluster    *)
(* meets them when one of these calls fails.                               *)
DemandRecreate ==
  /\ Reusing /\ (toolbox => health # "half")
  /\ (Unusable /\ Ends) \/ Fail
  /\ \/ (health = "half" \/ faults' # faults) /\ ExportFails
     \/ (toolbox \/ entry[FALSE] # "none" \/ health # "half") /\ SelectKind
  /\ JoinKindNetwork
  /\ UNCHANGED <<places, toolbox, health>>

(* kind create cluster puts the published endpoint into the file.          *)
CreateReachable ==
  /\ CreateKind /\ JoinKindNetwork
  /\ entry' = [entry EXCEPT ![toolbox] = Endpoint(toolbox)]
  /\ context' = [context EXCEPT ![toolbox] = "kind"]
  /\ health' = "ready"
  /\ UNCHANGED <<places, toolbox>>

(* The run is killed while kind create cluster is at work, which writes    *)
(* the file last; or it ends after that: before or after the toolbox has   *)
(* selected its endpoint, or because the nodes do not get ready.           *)
InterruptCreate ==
  /\ pc = "ensure" /\ kind = "absent" /\ faults < MaxFaults
  /\ pc' = "failed" /\ faults' = faults + 1
  /\ kind' = "up"
  /\ \/ health' \in Healths \ {"none"} /\ UNCHANGED <<entry, context>>
     \/ /\ health' \in {"unready", "ready"}
        /\ \E e \in {"host", Endpoint(toolbox)} : entry' = [entry EXCEPT ![toolbox] = e]
        /\ context' = [context EXCEPT ![toolbox] = "kind"]
  /\ UNCHANGED <<opts, site, toSuspend, inventory, toMove, flux, src, tgt,
                 infra, has, registry, places, toolbox, attached>>

(* kind delete cluster takes its entry out of the file of this run only.   *)
(* Leaving the network is best-effort; after the pivot the run tries to    *)
(* switch to the management cluster's context, which the file may lack.    *)
LoseKind ==
  /\ \/ DropKind /\ context' = [context EXCEPT ![toolbox] =
                                  IF @ = "kind" THEN "none" ELSE @]
     \/ DeleteKind /\ \E x \in {"none", "other"} :
          context' = [context EXCEPT ![toolbox] = x]
  /\ attached' \in {FALSE, attached}
  /\ entry' = [t \in BOOLEAN |->
                 IF t = toolbox \/ entry[t] = "none" THEN "none" ELSE "stale"]
  /\ health' = "none"
  /\ UNCHANGED <<places, toolbox>>

(* Phase 0 compares the context. On a local-host run Step 5 reads from the *)
(* cluster too, and fails on another one.                                  *)
OnKind == context[toolbox] = "kind"

CheckedOnKind ==
  /\ \/ WatchReconciliation /\ (Local => OnKind)
     \/ CheckContext /\ OnKind
  /\ UNCHANGED client

WrongContext ==
  /\ pc = "context" \/ (pc = "watch" /\ Local)
  /\ ~OnKind
  /\ pc' = "failed"
  /\ UNCHANGED <<run, World, has, registry, client>>

Elsewhere ==
  /\ \/ GiveUp \/ Fail
     \/ StartRegistry \/ InstallFluxOperator \/ EnsureRunTags \/ DropSopsKey
     \/ ApplySecrets \/ InstallFluxInstance
     \/ WaitForDefinition \/ WaitForKubeconfig \/ ExportKubeconfig
     \/ WaitForNodes \/ InstallCapiOperator \/ ApplyPivotManifests
     \/ WaitForProviders \/ Move
     \/ PublishArtifact \/ GuardDeletion
     \/ Environment
  /\ UNCHANGED client

(* The operator works with the host's file: between runs, and while a run  *)
(* has nothing to do but wait for the hand-over. The toolbox's holds       *)
(* kind's context only.                                                    *)
Switch(x) ==
  /\ pc \in Ended \cup {"watch", "context"}
  /\ x = "kind" => entry[FALSE] # "none"
  /\ x # context[FALSE]
  /\ context' = [context EXCEPT ![FALSE] = x]
  /\ UNCHANGED <<vars, places, toolbox, attached, entry, health>>

(* A file is removed or pruned.                                            *)
Prune(t) ==
  /\ pc \in Ended /\ entry[t] # "none"
  /\ entry' = [entry EXCEPT ![t] = "none"]
  /\ context' = [context EXCEPT ![t] = "none"]
  /\ UNCHANGED <<vars, places, toolbox, attached, health>>

(* Nodes of a complete cluster stop being Ready and get Ready again. Only  *)
(* the beginning of a run looks at them: a change in the middle of one is  *)
(* taken when it ends.                                                     *)
NodesChange ==
  /\ pc \in Ended \cup {"ensure"}
  /\ health \in {"unready", "ready"}
  /\ health' \in {"unready", "ready"} \ {health}
  /\ UNCHANGED <<vars, places, toolbox, attached, entry, context>>

CNext ==
  \/ ReuseReachable \/ SelectFails \/ DemandRecreate \/ CreateReachable \/ InterruptCreate
  \/ LoseKind \/ CheckedOnKind \/ WrongContext \/ Elsewhere \/ NodesChange
  \/ \E o \in RunOptions, t \in BOOLEAN : StartIn(o, t)
  \/ \E x \in {"kind", "other"} : Switch(x)
  \/ \E t \in BOOLEAN : Prune(t)

CSpec == CInit /\ [][CNext]_cvars
---------------------------------------------------------------------------
(* The steps that call kubectl, helm or clusterctl without --kubeconfig.   *)
Ambient == { "registry", "operator", "tags", "dropkey", "applykey", "instance",
             "definition", "kubeconfig", "export", "list", "suspend", "copy",
             "purge" }

(* Those calls reach the kind cluster of this run: it is the source of the *)
(* move, and what is installed before the move is installed there, however *)
(* runs in the toolbox and on the host have followed each other and        *)
(* whatever became of their files (main.rs 1239-1358, 2157-2178).          *)
AmbientReachesKind ==
  pc \in Ambient /\ site = "kind" =>
    /\ kind = "up" /\ OnKind
    /\ entry[toolbox] = Endpoint(toolbox)
    /\ toolbox => attached

(* While all runs are started in one place, a rerun over a healthy kind    *)
(* cluster asks for a destructive --recreate only when one of its own      *)
(* calls fails: whatever was lost of the access to it is recovered         *)
(* (main.rs 1285-1314).                                                    *)
RecreateForCause ==
  [][Cardinality(places) = 1 /\ health = "ready" /\ DemandRecreate
       => faults' # faults]_cvars
=============================================================================
