----------------------------- MODULE MCTeardown -----------------------------
(* Instances of Teardown for TLC: a management and a workload Cluster.     *)
EXTENDS Teardown

CONSTANTS m, w

TwoClusters == {m, w}

Plain(p) == [profile |-> p, awsOnly |-> FALSE, force |-> FALSE, awsCli |-> TRUE]
Forced   == [Plain("aws") EXCEPT !.force = TRUE]
NoCli    == [Plain("aws") EXCEPT !.awsCli = FALSE]
AwsOnly  == [Plain("aws") EXCEPT !.awsOnly = TRUE]

AllRuns   == {Plain("local-host"), Plain("local-talos"), Plain("aws"),
              Forced, NoCli, AwsOnly}
PlainRuns == {Plain("local-host"), Plain("aws")}
LocalRun  == {Plain("local-host")}
AwsRun    == {Plain("aws")}

(* Before the move or after it; local-host only after (see README).        *)
Settled == [p \in Profiles |-> IF p = "local-host" THEN {"mgmt"} ELSE {"kind", "mgmt"}]
Before  == [p \in Profiles |-> {"kind"}]
After   == [p \in Profiles |-> {"mgmt"}]
Handed  == [p \in Profiles |-> {"handed"}]

NoHazard  == {}
Tolerated == {"delete", "stuck", "sweep", "providers", "removal"}
=============================================================================
