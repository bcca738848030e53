---------------------------- MODULE PackageSlot ----------------------------
(***************************************************************************)
(* What update-package.sh promises of the active archive, without saying   *)
(* how: a candidate that passed verification stands in for the accepted    *)
(* package until it is accepted or withdrawn (docs/airgap.md 459-463).     *)
(***************************************************************************)
CONSTANTS Packages, Good, NoFile

VARIABLES
  current,    \* the package the operator has accepted, if any
  candidate   \* the one that stands in for it, if any

Init == current \in Good \cup {NoFile} /\ candidate = NoFile

Offer(p) ==
  /\ candidate = NoFile /\ p # current
  /\ candidate' = p
  /\ UNCHANGED current

Accept ==
  /\ candidate # NoFile
  /\ current' = candidate /\ candidate' = NoFile

Withdraw ==
  /\ candidate # NoFile
  /\ candidate' = NoFile
  /\ UNCHANGED current

Next == Accept \/ Withdraw \/ \E p \in Good : Offer(p)

Spec == Init /\ [][Next]_<<current, candidate>>
=============================================================================
