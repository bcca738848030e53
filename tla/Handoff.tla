------------------------------ MODULE Handoff ------------------------------
(***************************************************************************)
(* What the pivot promises, without saying how: the authority over every   *)
(* Cluster passes once, from the kind bootstrap cluster to the management  *)
(* cluster, and kind is retired after the last one.                        *)
(*                                                                         *)
(* The promise is the one the pivot's comments and docs state              *)
(* (bootstrap-rs/src/main.rs 2139-2141, docs/operations.md 1204-1206):     *)
(* objects exist on the target before they leave the source, nothing is    *)
(* reconciled on both sides, kind goes last.                               *)
(***************************************************************************)
CONSTANT Clusters

VARIABLES
  owner,  \* who reconciles each Cluster
  host    \* the bootstrap cluster: "none", "kind", or "retired"

vars == <<owner, host>>

OwnedBy(authorities) == \A c \in Clusters : owner[c] \in authorities

Init ==
  /\ owner = [c \in Clusters |-> "nobody"]
  /\ host = "none"

(* A bootstrap cluster is created, or thrown away before anything moved.   *)
Raise ==
  /\ host = "none"
  /\ host' = "kind"
  /\ UNCHANGED owner

Discard ==
  /\ host = "kind"
  /\ OwnedBy({"nobody", "kind"})
  /\ host' = "none"
  /\ owner' = [c \in Clusters |-> "nobody"]

(* Git's Clusters are created on kind as long as none has been lifted.     *)
Claim(S) ==
  /\ host = "kind"
  /\ OwnedBy({"nobody", "kind"})
  /\ owner' = [c \in Clusters |-> IF c \in S THEN "kind" ELSE owner[c]]
  /\ UNCHANGED host

(* A Cluster in transit is reconciled by nobody.                           *)
Lift(c) ==
  /\ host = "kind"
  /\ owner[c] = "kind"
  /\ owner' = [owner EXCEPT ![c] = "transit"]
  /\ UNCHANGED host

(* It is reconciled again only once kind owns none.                        *)
Land(c) ==
  /\ OwnedBy({"nobody", "transit", "mgmt"})
  /\ owner[c] = "transit"
  /\ owner' = [owner EXCEPT ![c] = "mgmt"]
  /\ UNCHANGED host

(* The self-managed cluster creates what Git declares and kind never held. *)
SelfClaim(c) ==
  /\ OwnedBy({"nobody", "mgmt"})
  /\ owner[c] = "nobody"
  /\ owner' = [owner EXCEPT ![c] = "mgmt"]
  /\ UNCHANGED host

Retire ==
  /\ host = "kind"
  /\ OwnedBy({"nobody", "mgmt"})
  /\ host' = "retired"
  /\ UNCHANGED owner

Next ==
  \/ Raise \/ Discard \/ Retire
  \/ \E S \in SUBSET Clusters : Claim(S)
  \/ \E c \in Clusters : Lift(c) \/ Land(c) \/ SelfClaim(c)

Spec == Init /\ [][Next]_vars
=============================================================================
