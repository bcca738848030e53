--------------------------- MODULE PivotInvariant ---------------------------
(***************************************************************************)
(* The inductive invariant behind OneOwner, and the assumption it is true  *)
(* under. OneOwner alone is not inductive: whether Flux on kind can bring  *)
(* a Cluster back depends on which Kustomizations exist, which of them are *)
(* suspended, and where the run is.                                        *)
(***************************************************************************)
EXTENDS PivotHandoff

(* No Kustomization escapes the suspension, and the operator follows the   *)
(* documented procedure. Failures of CLI steps, tolerated unpause failures *)
(* and registry outages are not excluded.                                  *)
Calm == Hazards \cap { "listing", "inflight", "recreate_after_move",
                       "rerun_after_handover" } = {}

NoneLive == \A c \in Clusters : src[c] # "live"

(* From the definition check to the suspension; the steps after it.        *)
Preparing == pc \in { "kubeconfig", "export", "nodes", "capi", "manifests",
                      "providers", "list", "suspend" }
Seeding   == pc \in {"operator", "tags", "dropkey", "applykey", "instance"}
Quiesced  == \/ pc \in { "copy", "purge", "moved", "unpause", "relist", "push",
                         "guard", "kinddelete" }
             \/ Seeding /\ site = "mgmt"

\* Without kind there is nothing on it.
EmptyWithoutKind ==
  kind = "absent" => kz = {} /\ suspended = {} /\ Present(src) = {}

\* The root declares all the Kustomizations at once.
RootDeclaresAll == kz \subseteq {Root} \/ kz = Kustomizations

\* A Cluster on kind came from a Kustomization the root declared, with all
\* the others.
AllDeclared == Present(src) # {} \/ Preparing => kz = Kustomizations

\* The patch loop covers every Kustomization.
NoneForgotten == pc = "suspend" => Kustomizations \subseteq suspended \cup toSuspend

\* From the pause on, Flux on kind is idle and its Clusters are paused.
StaysQuiet ==
  Quiesced => kz = Kustomizations /\ Kustomizations \subseteq suspended /\ NoneLive

\* As long as the management cluster holds anything, the same is true of a
\* kind cluster that still exists, run or no run.
QuietOnceShared ==
  MgmtOwns => /\ NoneLive
              /\ kz \subseteq suspended
              /\ kind = "up" => kz = Kustomizations

\* A run works on kind first.
StartsOnKind == pc \in {"ensure", "registry"} => site = "kind"

\* Only the first step of a run works without kind, and no run that would
\* build or replace it starts once something has moved.
NoRebuild ==
  /\ kind = "absent" /\ pc \in Running => pc = "ensure"
  /\ pc = "ensure" /\ MgmtOwns => kind = "up" /\ ~opts.recreate

Inv ==
  /\ TypeOK
  /\ applying = {}
  /\ EmptyWithoutKind
  /\ RootDeclaresAll
  /\ AllDeclared
  /\ NoneForgotten
  /\ StaysQuiet
  /\ QuietOnceShared
  /\ StartsOnKind
  /\ NoRebuild

---------------------------------------------------------------------------
(* How the objects travel. With Inv this gives the deletion order, the     *)
(* ownership of the infrastructure, and the refinement of Handoff.         *)

Paused(objects) == {c \in Clusters : objects[c] = "paused"}

(* The steps after clusterctl move, and those after the unpause loop.      *)
AfterUnpause == \/ pc \in {"relist", "push", "guard", "kinddelete"}
                \/ Seeding /\ site = "mgmt"
AfterMove    == pc \in {"moved", "unpause"} \/ AfterUnpause

\* The pivot goes on only while kind holds the management Cluster.
SourceHeld == Preparing \/ pc = "copy" => src[MgmtCluster] # "none"

\* What the copy loop has visited is on the target,
CopiedSoFar ==
  pc = "copy" => /\ inventory = Present(src)
                 /\ toMove \subseteq inventory
                 /\ inventory \ toMove \subseteq Present(tgt)

\* so that the purge loop deletes nothing that is not.
PurgedSoFar ==
  pc = "purge" => /\ Present(src) \subseteq toMove
                  /\ MgmtCluster \in Present(tgt)
                  /\ toMove \subseteq Present(tgt)

\* The unpause loop visits what was moved.
UnpausesMoved == pc = "unpause" => toMove \subseteq Present(tgt)

\* After the move everything is on the target, and from the first unpaused
\* Cluster or the seeded Flux on, kind stays empty.
AllLeft ==
  /\ AfterMove => Present(src) = {} /\ MgmtCluster \in Present(tgt)
  /\ "instance" \in has["mgmt"] \/ (\E c \in Clusters : tgt[c] = "live")
       => Present(src) = {}
  /\ pc \in {"guard", "kinddelete"} => "instance" \in has["mgmt"]

\* The unpause loop leaves none behind, when its patches do not fail.
NonePausedLeft ==
  /\ pc = "unpause" => Paused(tgt) \subseteq toMove
  /\ AfterUnpause \/ "instance" \in has["mgmt"] => Paused(tgt) = {}

TravelInv ==
  Inv /\ SourceHeld /\ CopiedSoFar /\ PurgedSoFar /\ UnpausesMoved
      /\ AllLeft

=============================================================================
