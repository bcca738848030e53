------------------------------ MODULE MCClient ------------------------------
(* Instances of Client for TLC: runs with and without --recreate.          *)
EXTENDS MCPivot, Client

MayRecreate == {Normal, Recreate}
=============================================================================
