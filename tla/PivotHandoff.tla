---------------------------- MODULE PivotHandoff ----------------------------
(***************************************************************************)
(* The bootstrap run implements Handoff: the authority over a Cluster is   *)
(* read off the two objects that stand for it.                             *)
(***************************************************************************)
EXTENDS Pivot

OwnerOf(c) ==
  CASE tgt[c] = "live"   -> "mgmt"
    [] tgt[c] = "paused" -> "transit"
    [] OTHER             -> IF src[c] = "none" THEN "nobody" ELSE "kind"

Host == IF kind = "up" THEN "kind" ELSE IF MgmtOwns THEN "retired" ELSE "none"

Promise == INSTANCE Handoff
             WITH owner <- [c \in Clusters |-> OwnerOf(c)], host <- Host

(* Every step of a run is a step of the promise, or none: no Cluster is    *)
(* ever reconciled from both sides, none goes back to kind, and kind is    *)
(* retired last (main.rs 2746-2796, 2942-3009).                            *)
ImplementsHandoff == Promise!Spec
=============================================================================
