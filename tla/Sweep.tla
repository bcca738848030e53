------------------------------- MODULE Sweep -------------------------------
(***************************************************************************)
(* Step 4 of the aws teardown: the orphan sweep of                         *)
(* bootstrap-rs/src/teardown.rs 718-1620, unit by unit in the order        *)
(* run_teardown runs them (2241-2317). Teardown models the whole of it as  *)
(* SweepTarget; here are the dependencies between the resources.           *)
(*                                                                         *)
(* Every unit is best-effort: a lookup that fails reads as "absent", a     *)
(* call AWS refuses is a warning. The sweep may be run again until nothing *)
(* is left, and it must work from wherever the last one stopped.           *)
(***************************************************************************)
EXTENDS Naturals, FiniteSets

CONSTANTS
  Targets,    \* the workload clusters and the management cluster
  Made,       \* what a target may own when the first sweep starts
  Fallible,   \* the calls that may fail
  Locked,     \* targets with an object version S3 refuses to delete
  MaxFaults   \* bound on failed calls

(* A detached gateway and a profile without a role are resources too; the  *)
(* keys of a user stand for its inline policies as well.                   *)
Kinds == { "nodegroup", "eks", "rds", "nat", "subnet", "igw", "loose_igw",
           "routes", "rules", "groups", "vpc", "eip", "objects", "bucket",
           "policies", "profile", "loose_profile", "role",
           "login", "keys", "user", "stack" }

(* What AWS wants gone before it deletes a resource.                       *)
Blockers(k) ==
  CASE k = "eks"    -> {"nodegroup"}
    [] k = "subnet" -> {"nodegroup", "eks", "nat"}
    [] k = "igw"    -> {"nodegroup", "nat"}
    [] k = "routes" -> {"subnet"}
    [] k = "groups" -> {"nodegroup", "eks", "rules"}
    [] k = "vpc"    -> {"eks", "nat", "subnet", "igw", "routes", "groups"}
    [] k = "eip"    -> {"nat"}
    [] k = "bucket" -> {"objects"}
    [] k = "role"   -> {"policies", "profile"}
    [] k = "user"   -> {"login", "keys"}
    [] OTHER        -> {}

(* What cannot exist without something else.                               *)
Within(k) ==
  CASE k = "nodegroup"                      -> {"eks"}
    [] k \in {"eks", "nat"}                 -> {"subnet"}
    [] k \in {"subnet", "igw", "routes", "groups"} -> {"vpc"}
    [] k = "rules"                          -> {"groups"}
    [] k = "objects"                        -> {"bucket"}
    [] k \in {"policies", "profile"}        -> {"role"}
    [] k \in {"login", "keys"}              -> {"user"}
    [] OTHER                                -> {}

(* Deleted in the background after the call returns.                       *)
Slow == {"nodegroup", "eks", "nat", "rds", "stack"}

(* What may fail: the deletion of a kind (that of "igw" and "profile" is   *)
(* the detaching), a lookup, the parsing of an answer, a wait, the process *)
(* itself.                                                                 *)
Calls == Kinds \cup {"look", "answer", "wait", "kill"}

ASSUME SweepAssumption ==
  /\ \A S \in Made : S \subseteq Kinds /\ \A k \in S : Within(k) \subseteq S
  /\ Fallible \subseteq Calls
  /\ Locked \subseteq Targets
  /\ MaxFaults \in Nat

VARIABLES
  phase,   \* the unit the sweep is running
  todo,    \* the targets it has still to visit
  at,      \* the target whose VPC or bucket it is in
  left,    \* the resources that exist, as <<target, kind>>
  going,   \* the ones AWS is deleting
  faults   \* failed calls so far

aws  == <<left, going, faults>>
vars == <<phase, todo, at, aws>>

Phases == { "idle", "nodegroups", "nodegroupwait", "eks", "ekswait", "rds",
            "vpcs", "nats", "natwait", "subnets", "igws", "routes", "rules",
            "groups", "vpc", "eips", "buckets", "purge", "bucket", "roles",
            "rolepolicies", "roleprofiles", "role", "users", "user",
            "userkeys", "userdelete", "stack" }

TypeOK ==
  /\ phase \in Phases
  /\ todo \subseteq Targets /\ at \in Targets
  /\ left \subseteq Targets \X Kinds
  /\ going \subseteq left
  /\ faults \in 0..MaxFaults

Init ==
  /\ phase = "idle" /\ todo = {} /\ at \in Targets
  /\ \E made \in [Targets -> Made] :
       left = {r \in Targets \X Kinds : r[2] \in made[r[1]]}
  /\ going = {}
  /\ faults = 0

---------------------------------------------------------------------------
Has(t, k)  == <<t, k>> \in left
Free(t, k) == \A b \in Blockers(k) : ~Has(t, b)

Fails(call) == call \in Fallible /\ faults < MaxFaults /\ faults' = faults + 1

Untouched == UNCHANGED <<left, going>>

(* A deletion that goes through: at once, or in the background.            *)
Delete(t, k) ==
  /\ IF k \in Slow
     THEN going' = going \cup {<<t, k>>} /\ UNCHANGED left
     ELSE left' = left \ {<<t, k>>} /\ UNCHANGED going
  /\ UNCHANGED faults

(* Asking for the deletion of a resource that was found.                   *)
Ask(t, k) ==
  \/ Has(t, k) /\ Free(t, k) /\ Delete(t, k)
  \/ ~(Has(t, k) /\ Free(t, k)) /\ Untouched /\ UNCHANGED faults
  \/ Has(t, k) /\ Free(t, k) /\ Fails(k) /\ Untouched

Unlisted(t, k) == Has(t, k) /\ Fails("look") /\ Untouched

(* One best-effort unit: look the resource up, ask for its deletion.       *)
Try(t, k) == Ask(t, k) \/ Unlisted(t, k)

(* Detaching, then deleting what is now attached to nothing: only what is  *)
(* still attached is looked up.                                            *)
TryDetached(t, k, loose) ==
  \/ Try(t, k)
  \/ /\ Has(t, k) /\ Free(t, k) /\ Fails(loose)
     /\ left' = (left \ {<<t, k>>}) \cup {<<t, loose>>}
     /\ UNCHANGED going

(* aws ... wait: returns when the resource is gone, or times out.          *)
Wait(t, k) ==
  /\ \/ <<t, k>> \notin going /\ UNCHANGED faults
     \/ Has(t, k) /\ (Fails("look") \/ Fails("wait"))
  /\ Untouched

(* A phase visits each target once; the next starts after the last.        *)
Visit(p, t) == phase = p /\ t \in todo /\ todo' = todo \ {t} /\ at' = t

Each(p, t) == Visit(p, t) /\ UNCHANGED phase

(* The steps inside one VPC, bucket, role or user follow each other.       *)
Inside(from, to) == phase = from /\ phase' = to /\ UNCHANGED <<todo, at>>

Then(from, to) ==
  /\ phase = from /\ todo = {}
  /\ phase' = to /\ todo' = Targets
  /\ UNCHANGED <<at, aws>>
---------------------------------------------------------------------------
(* Slips: variants of units below, each with a bug the code could have.    *)
(* No specification uses them; putting one in the place of its original    *)
(* must break the properties named with it.                                *)

\* SweepCleans: the control planes are not waited for.
WaitNothing(t) == Each("ekswait", t) /\ Untouched /\ UNCHANGED faults

\* SweepConverges: addresses are released only while their VPC exists,
\* which is what issue #493 was.
ReleaseEipsOfVpc(t) ==
  /\ Each("eips", t)
  /\ IF Has(t, "vpc") THEN Try(t, "eip") ELSE UNCHANGED aws

\* SweepEnds: the wait for the nodegroups has no time-out.
WaitForNodegroups(t) ==
  /\ Each("nodegroupwait", t) /\ ~Has(t, "nodegroup")
  /\ Untouched /\ UNCHANGED faults

\* TypeOK: the users' unit is entered by a name no unit has.
EnterUserMisspelt(t) ==
  /\ Visit("users", t)
  /\ phase' = IF Has(t, "user") THEN "users " ELSE "users"
  /\ UNCHANGED aws
---------------------------------------------------------------------------
(* Teardown may be run again when a sweep left something behind, and may   *)
(* be killed between two calls.                                            *)
StartSweep ==
  /\ phase = "idle" /\ left # {}
  /\ phase' = "nodegroups" /\ todo' = Targets
  /\ UNCHANGED <<at, aws>>

Killed ==
  /\ phase # "idle" /\ Fails("kill")
  /\ phase' = "idle" /\ todo' = {}
  /\ UNCHANGED at /\ Untouched

(* 4a. Nodegroups, looked up through their EKS cluster.                    *)
CleanupNodegroups(t)     == Each("nodegroups", t) /\ Try(t, "nodegroup")
WaitNodegroupsDeleted(t) == Each("nodegroupwait", t) /\ Wait(t, "nodegroup")

(* 4b. Control planes.                                                     *)
CleanupEksCluster(t)     == Each("eks", t) /\ Try(t, "eks")
WaitEksClusterDeleted(t) == Each("ekswait", t) /\ Wait(t, "eks")

(* 4c. Databases are in the default VPC: nothing waits for them.           *)
CleanupRdsInstance(t) == Each("rds", t) /\ Try(t, "rds")

(* An inner sequence starts when the lookup of its resource succeeds.      *)
Enter(t, p, k, inner) ==
  /\ Visit(p, t)
  /\ \/ phase' = (IF Has(t, k) THEN inner ELSE p) /\ UNCHANGED faults
     \/ phase' = p /\ Has(t, k) /\ Fails("look")
  /\ Untouched

(* 4d. The CAPA-tagged VPC, bottom up, then the addresses.                 *)
(* NAT gateways are listed once: a listing that fails leaves nothing to    *)
(* delete and nothing to wait for.                                         *)
EnterVpc(t)          == Enter(t, "vpcs", "vpc", "nats")
DeleteNatGateways    == Inside("nats", "natwait") /\ Ask(at, "nat")
NatListingFails      == Inside("nats", "subnets") /\ Unlisted(at, "nat")
WaitNatGateways      == Inside("natwait", "subnets") /\ Wait(at, "nat")
DeleteSubnets        == Inside("subnets", "igws") /\ Try(at, "subnet")
DeleteInternetGateways == Inside("igws", "routes") /\ TryDetached(at, "igw", "loose_igw")
DeleteRouteTables    == Inside("routes", "rules") /\ Try(at, "routes")
RevokeRules          == Inside("rules", "groups") /\ Try(at, "rules")
DeleteSecurityGroups == Inside("groups", "vpc") /\ Try(at, "groups")
DeleteVpc            == Inside("vpc", "vpcs") /\ Try(at, "vpc")
ReleaseClusterEips(t) == Each("eips", t) /\ Try(t, "eip")

(* 4e. Buckets, unless the account cannot be told.                         *)
AccountUnknown ==
  /\ phase = "buckets" /\ todo = Targets /\ todo' = {}
  /\ Fails("look")
  /\ UNCHANGED <<phase, at>> /\ Untouched

EnterBucket(t) == Enter(t, "buckets", "bucket", "purge")

(* The loop reads the versions again after each batch, and goes round for  *)
(* ever on one that S3 accepts to delete and does not.                     *)
PurgeBucket ==
  /\ Inside("purge", "bucket")
  /\ Has(at, "objects") => at \notin Locked
  /\ Try(at, "objects")
DeleteBucket == Inside("bucket", "buckets") /\ Try(at, "bucket")

(* 4f. Roles and users.                                                    *)
EnterRole(t)      == Enter(t, "roles", "role", "rolepolicies")
DetachPolicies    == Inside("rolepolicies", "roleprofiles") /\ Try(at, "policies")
DeleteProfiles    == /\ Inside("roleprofiles", "role")
                     /\ TryDetached(at, "profile", "loose_profile")
DeleteRole        == Inside("role", "roles") /\ Try(at, "role")
EnterUser(t)      == Enter(t, "users", "user", "user")
DeleteLoginProfile == Inside("user", "userkeys") /\ Try(at, "login")
DeleteUserKeys    == Inside("userkeys", "userdelete") /\ Try(at, "keys")
DeleteUser        == Inside("userdelete", "users") /\ Try(at, "user")

(* 4g. The CloudFormation stack, in each region; its deletion is not       *)
(* waited for.                                                             *)
CleanupCfnStack(t) == Each("stack", t) /\ Try(t, "stack")

(* "AWS orphan cleanup complete", whatever is left.                        *)
SweepDone ==
  /\ phase = "stack" /\ todo = {}
  /\ phase' = "idle"
  /\ UNCHANGED <<todo, at, aws>>

NextPhase ==
  \/ Then("nodegroups", "nodegroupwait") \/ Then("nodegroupwait", "eks")
  \/ Then("eks", "ekswait") \/ Then("ekswait", "rds") \/ Then("rds", "vpcs")
  \/ Then("vpcs", "eips") \/ Then("eips", "buckets") \/ Then("buckets", "roles")
  \/ Then("roles", "users") \/ Then("users", "stack")

(* AWS finishes a deletion in the background.                              *)
Gone(r) ==
  /\ r \in going
  /\ left' = left \ {r} /\ going' = going \ {r}
  /\ UNCHANGED <<phase, todo, at, faults>>

---------------------------------------------------------------------------
Unit(t) ==
  \/ CleanupNodegroups(t) \/ WaitNodegroupsDeleted(t)
  \/ CleanupEksCluster(t) \/ WaitEksClusterDeleted(t)
  \/ CleanupRdsInstance(t) \/ EnterVpc(t) \/ ReleaseClusterEips(t)
  \/ EnterBucket(t) \/ EnterRole(t) \/ EnterUser(t) \/ CleanupCfnStack(t)

VpcStep ==
  \/ DeleteNatGateways \/ NatListingFails \/ WaitNatGateways
  \/ DeleteSubnets \/ DeleteInternetGateways \/ DeleteRouteTables
  \/ RevokeRules \/ DeleteSecurityGroups \/ DeleteVpc

InnerStep ==
  \/ VpcStep \/ PurgeBucket \/ DeleteBucket
  \/ DetachPolicies \/ DeleteProfiles \/ DeleteRole
  \/ DeleteLoginProfile \/ DeleteUserKeys \/ DeleteUser

SweepStep ==
  \/ StartSweep \/ (\E t \in Targets : Unit(t)) \/ InnerStep
  \/ AccountUnknown \/ NextPhase \/ SweepDone

Next == SweepStep \/ Killed \/ \E r \in Targets \X Kinds : Gone(r)

Spec == Init /\ [][Next]_vars

(* The sweep is one sequential process, run again while it leaves things;  *)
(* AWS finishes what it accepted.                                          *)
Fairness == WF_vars(SweepStep) /\ \A r \in Targets \X Kinds : WF_vars(Gone(r))

FairSpec == Spec /\ Fairness
---------------------------------------------------------------------------
(* A sweep before which and in which no call failed leaves nothing but     *)
(* what AWS is still deleting: the order of the units respects every       *)
(* dependency (teardown.rs 2241-2317).                                     *)
SweepCleans ==
  [][phase # "idle" /\ phase' = "idle" /\ faults' = 0 => left \subseteq going]_vars

(* Whatever failed or was killed, sweeping again removes the rest          *)
(* (teardown.sh 799-802).                                                  *)
SweepConverges == <>(left = {})

(* No resource keeps a sweep from ending (teardown.rs 616-617).            *)
SweepEnds == phase # "idle" ~> phase = "idle"
=============================================================================
