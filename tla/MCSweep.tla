------------------------------ MODULE MCSweep ------------------------------
(* Instances of Sweep for TLC.                                             *)
EXTENDS Orphans

CONSTANT a

One == {a}

(* A complete cluster; and every remainder of its network part that an     *)
(* interrupted creation or deletion can leave.                             *)
Fresh    == Kinds \ {"loose_igw", "loose_profile"}
Network  == {"nodegroup", "eks", "nat", "subnet", "igw", "routes", "rules",
             "groups", "vpc", "eip"}
Closed(S) == \A k \in S : Within(k) \subseteq S
Any      == {Fresh} \cup {S \in SUBSET Network : Closed(S)}

Nothing   == {}
(* Any single call but the second halves of the detach-and-delete pairs.   *)
AnyCall   == Calls \ {"loose_igw", "loose_profile"}
=============================================================================
