----------------------------- MODULE MCEipQuota -----------------------------
(* Instances of EipQuota for TLC, on those of Pivot: room for exactly two  *)
(* Clusters, one address less, and an account over its quota.              *)
EXTENDS MCPivot, EipQuota

JustEnough == {2, 3, 9}
=============================================================================
