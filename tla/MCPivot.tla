------------------------------ MODULE MCPivot ------------------------------
(* Instances of Pivot for TLC: a root Kustomization that declares one      *)
(* Kustomization per Cluster, a management and a workload Cluster.         *)
EXTENDS PivotInvariant, TLC

CONSTANTS m, w, root, km, kw

TwoClusters == {m, w}
ThreeKustomizations == {root, km, kw}
OneEach == (root :> {}) @@ (km :> {m}) @@ (kw :> {w})

Normal    == [recreate |-> FALSE, pivot |-> TRUE,  skipDelete |-> FALSE]
NoPivot   == [recreate |-> FALSE, pivot |-> FALSE, skipDelete |-> FALSE]
Inspect   == [recreate |-> FALSE, pivot |-> TRUE,  skipDelete |-> TRUE]
Recreate  == [recreate |-> TRUE,  pivot |-> TRUE,  skipDelete |-> FALSE]

OnlyNormal   == {Normal}
KeepKind     == {Normal, NoPivot, Inspect}
AnyRun       == {Normal, NoPivot, Inspect, Recreate}

NoHazard     == {}
Tolerated    == {"registry", "late_failure", "unpause"}
LateFaults   == {"registry", "late_failure"}
LossyListing == {"listing"}
LateFailure  == {"late_failure"}
AllHazards   == HazardKinds
=============================================================================
