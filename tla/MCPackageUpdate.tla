-------------------------- MODULE MCPackageUpdate --------------------------
(* Instances of PackageUpdate for TLC: two updaters, two packages that     *)
(* pass verification and one that does not.                                *)
EXTENDS PackageUpdate

CONSTANTS u1, u2, p, q, bad

TwoUpdaters == {u1, u2}
AllPackages == {p, q, bad}
Sound       == {p, q}
=============================================================================
