---------------------------- MODULE SweepProofs ----------------------------
(***************************************************************************)
(* Theorems about the orphan sweep and the orphan report, for every set of *)
(* targets, whatever exists of them at first, any calls that may fail and  *)
(* any number of failures.                                                 *)
(***************************************************************************)
EXTENDS Orphans, TLAPS

---------------------------------------------------------------------------
(* The report. While it runs resources only disappear: a finding stays     *)
(* true of what is still there, and what was not found cannot come back.   *)

(* The probes after the one that describes k.                              *)
After(k) ==
  CASE k = "eks"       -> {"nodegroups", "nodegroup", "rds", "vpcs", "nat", "s3"}
    [] k = "nodegroup" -> {"rds", "vpcs", "nat", "s3"}
    [] k = "rds"       -> {"vpcs", "nat", "s3"}
    [] k = "vpc"       -> {"s3"}

(* The report has been past resource k of target t.                        *)
Passed(t, k) ==
  \/ scan = "done"
  \/ scan \in Probing /\ t \notin pending
       /\ (scan = "target" \/ t # scanned \/ scan \in After(k))

\* What it has passed, could read and is still there is in it.
PassedFound ==
  ~errors => \A t \in Targets, k \in Scanned :
    Passed(t, k) /\ Has(t, k) /\ <<t, k>> \notin unread =>
      /\ <<t, k>> \in found
      /\ t \in aged => <<t, k>> \in orphaned

\* What exists between the listing and the description was listed.
ListedThere ==
  ~errors =>
    /\ scan = "nodegroup" /\ Has(scanned, "nodegroup") => listed
    /\ scan = "nat" /\ Has(scanned, "vpc") => listed

\* A young target is called an orphan only without a NAT gateway to date it,
\* or in what gave no time of its own.
AccusedUndated ==
  ~errors => \A t \in Targets \ aged, k \in Scanned :
    Has(t, "nat") /\ <<t, "nat">> \notin going /\ <<t, k>> \in orphaned =>
      <<t, k>> \in undated

ReportTypeOK ==
  /\ scan \in Probing \cup {"none", "done", "closed"}
  /\ errors \in BOOLEAN /\ listed \in BOOLEAN
  /\ scan \in {"none", "closed"} => found = {} /\ orphaned = {} /\ ~errors

ReportInv == ReportTypeOK /\ PassedFound /\ ListedThere /\ AccusedUndated

LEMMA ReportInit == OInit => ReportInv
  BY DEF OInit, ReportInv, ReportTypeOK, PassedFound, ListedThere, AccusedUndated,
         Passed, Probing

(* While the report runs, resources only disappear.                        *)
LEMMA OnlyDisappear ==
  ASSUME [ONext]_ovars, scan \notin {"none", "closed"}
  PROVE  left' \subseteq left /\ left' \ going' \subseteq left \ going
  <1> USE DEF Keep, Goto
  <1>1. CASE UNCHANGED <<left, going>>
    BY <1>1
  <1>2. CASE StartReport \/ SweepKilled \/ UNCHANGED ovars
    BY <1>1, <1>2 DEF StartReport, SweepKilled, Killed, Untouched, ovars, vars, aws
  <1>3. CASE ReportStep
    BY <1>1, <1>3 DEF ReportStep, ProbeCluster, ListNodegroups, ProbeNodegroup,
       ProbeDatabase, ListVpcs, ProbeNat, ListBuckets, EndReport, CloseReport,
       NextTarget, vars, aws
  <1>4. ASSUME NEW r \in Targets \X Kinds, Finished(r) \/ Vanish(r)
        PROVE  left' \subseteq left /\ left' \ going' \subseteq left \ going
    BY <1>4 DEF Finished, Gone, Vanish
  <1> QED
    BY <1>2, <1>3, <1>4 DEF ONext, Sweeping

LEMMA Listing ==
  ASSUME \E k \in Kinds : listed' = Has(scanned, k) \/ listed' = FALSE
  PROVE  listed' \in BOOLEAN
  <1>1. ASSUME NEW k, listed' = Has(scanned, k)
        PROVE  listed' \in BOOLEAN
    BY <1>1 DEF Has
  <1> QED
    BY <1>1

LEMMA ReportInvStep == ReportInv /\ [ONext]_ovars => ReportInv'
  <1> SUFFICES ASSUME ReportInv, [ONext]_ovars
               PROVE  ReportInv'
    OBVIOUS
  <1> USE DEF ReportInv, ReportTypeOK, PassedFound, ListedThere, AccusedUndated,
              Passed, Probing, Scanned, Has, Keep, Goto
  <1>1. CASE UNCHANGED report
    <2>1. /\ UNCHANGED <<scan, scanned, pending, aged, listed, found, orphaned, errors, unread, undated>>
      BY <1>1 DEF report, odd
    <2>2. CASE scan \in {"none", "closed"}
      BY <2>1, <2>2
    <2>3. CASE scan \notin {"none", "closed"}
      BY <2>1, <2>3, OnlyDisappear
    <2> QED
      BY <2>2, <2>3
  <1>2. CASE StartReport
    BY <1>2 DEF StartReport, odd
  <1>3. ASSUME NEW t \in Targets, NextTarget(t)
        PROVE  ReportInv'
    BY <1>3 DEF NextTarget, odd, After
  <1>4. CASE ProbeCluster
    BY <1>4 DEF ProbeCluster, Describe, Report, NoFinding, Answered, Failed, Dated,
       Undated, Unreadable, odd, After
  <1>5. CASE ListNodegroups
    <2>1. UNCHANGED <<found, orphaned, scanned, pending, aged, left, going, unread, undated>>
      BY <1>5 DEF ListNodegroups, NoFinding, Answered, Failed, odd
    <2>2. \/ errors' = errors /\ listed' = Has(scanned, "nodegroup")
          \/ errors' = TRUE /\ listed' = FALSE
      BY <1>5 DEF ListNodegroups, Answered, Failed
    <2>3. errors' \in BOOLEAN /\ listed' \in BOOLEAN
      <3>1. errors' \in BOOLEAN
        BY <2>2
      <3>2. listed' \in BOOLEAN
        BY <2>2, Listing DEF Kinds
      <3> QED
        BY <3>1, <3>2
    <2>4. ~errors' => ~errors /\ (Has(scanned, "nodegroup") => listed')
      BY <2>2
    <2>5. \A t \in Targets, j \in Scanned : Passed(t, j)' => Passed(t, j)
      BY <1>5, <2>1 DEF ListNodegroups, After
    <2> QED
      BY <1>5, <2>1, <2>3, <2>4, <2>5 DEF ListNodegroups
  <1>6. CASE ProbeNodegroup
    <2>1. /\ UNCHANGED <<scanned, pending, aged, left, going>>
          /\ errors' \in BOOLEAN /\ listed' = FALSE
          /\ scan = "nodegroup" /\ scan' = "rds"
      BY <1>6 DEF ProbeNodegroup, Describe, Dated, Undated, Unreadable, Answered, Failed
    <2>2. \A t \in Targets, k \in Scanned :
            Passed(t, k)' => Passed(t, k) \/ (t = scanned /\ k = "nodegroup")
      BY <2>1 DEF After
    <2>3. CASE /\ UNCHANGED <<found, orphaned, undated>> /\ unread \subseteq unread'
               /\ ~errors' => ~errors
               /\ Has(scanned, "nodegroup") => errors' \/ <<scanned, "nodegroup">> \in unread'
      BY <2>1, <2>2, <2>3
    <2>4. CASE UNCHANGED <<errors, unread, undated>> /\ Report("nodegroup", scanned \in aged)
      BY <2>1, <2>2, <2>4 DEF Report
    <2>5. CASE Undated("nodegroup")
      BY <2>1, <2>2, <2>5 DEF Undated, Report
    <2> QED
      BY <1>6, <2>3, <2>4, <2>5 DEF ProbeNodegroup, Describe, Dated, Unreadable,
         NoFinding, Answered, Failed, odd
  <1>7. CASE ProbeDatabase
    BY <1>7 DEF ProbeDatabase, Describe, Report, NoFinding, Answered, Failed, Dated,
       Undated, Unreadable, odd, After
  <1>8. CASE ListVpcs
    <2>1. UNCHANGED <<found, orphaned, scanned, pending, aged, left, going, unread, undated>>
      BY <1>8 DEF ListVpcs, NoFinding, Answered, Failed, odd
    <2>2. \/ errors' = errors /\ listed' = Has(scanned, "vpc")
          \/ errors' = TRUE /\ listed' = FALSE
      BY <1>8 DEF ListVpcs, Answered, Failed
    <2>3. errors' \in BOOLEAN /\ listed' \in BOOLEAN
      <3>1. errors' \in BOOLEAN
        BY <2>2
      <3>2. listed' \in BOOLEAN
        BY <2>2, Listing DEF Kinds
      <3> QED
        BY <3>1, <3>2
    <2>4. ~errors' => ~errors /\ (Has(scanned, "vpc") => listed')
      BY <2>2
    <2>5. \A t \in Targets, j \in Scanned : Passed(t, j)' => Passed(t, j)
      BY <1>8, <2>1 DEF ListVpcs, After
    <2> QED
      BY <1>8, <2>1, <2>3, <2>4, <2>5 DEF ListVpcs
  <1>9. CASE ProbeNat
    BY <1>9 DEF ProbeNat, NatAvailable, Report, NoFinding, Answered, Failed, Dated,
       Undated, Unreadable, odd, After
  <1>10. CASE ListBuckets
    BY <1>10 DEF ListBuckets, NoFinding, Answered, Failed, odd, After
  <1>11. CASE EndReport \/ CloseReport
    BY <1>11 DEF EndReport, CloseReport, odd, vars, aws
  <1>12. CASE ReportStep
    BY <1>3, <1>4, <1>5, <1>6, <1>7, <1>8, <1>9, <1>10, <1>11, <1>12 DEF ReportStep
  <1> QED
    BY <1>1, <1>2, <1>12 DEF ONext, Sweeping, SweepKilled, Finished, Vanish, ovars

LEMMA ReportInvariance == OSpec => []ReportInv
  BY ReportInit, ReportInvStep, PTL DEF OSpec

(* What a report without errors has missed is what it could not read:      *)
(* everything else it looks for and is still there is in it, whatever was  *)
(* deleted while it ran (orphans.rs 43-52 and 262-303).                    *)
THEOREM ReportMissesOnlyUnread == OSpec => []OnlyUnreadMissed
  <1>1. ReportInv => OnlyUnreadMissed
    BY DEF ReportInv, PassedFound, Passed, OnlyUnreadMissed
  <1> QED
    BY ReportInvariance, <1>1, PTL

(* In a young environment that still has its NAT gateways it accuses only  *)
(* what gave no creation time (orphans.rs 346-356, 435-445, 511-521 and    *)
(* 592-664).                                                               *)
THEOREM ReportAccusesOnlyUndated == OSpec => []OnlyUndatedAccused
  <1>1. ReportInv => OnlyUndatedAccused
    BY DEF ReportInv, AccusedUndated, OnlyUndatedAccused
  <1> QED
    BY ReportInvariance, <1>1, PTL

---------------------------------------------------------------------------
(* The sweep. As long as no call has failed, every unit finds the          *)
(* dependencies of what it deletes gone.                                   *)

(* No target is a remainder the sweep does not look for: a gateway or a    *)
(* profile that was detached and not deleted.                              *)
NothingLoose == \A S \in Made : S \cap {"loose_igw", "loose_profile"} = {}

InVpc    == {"nats", "natwait", "subnets", "igws", "routes", "rules", "groups", "vpc"}
InBucket == {"purge", "bucket"}
InRole   == {"rolepolicies", "roleprofiles", "role"}
InUser   == {"user", "userkeys", "userdelete"}
Inner    == InVpc \cup InBucket \cup InRole \cup InUser

Servers  == {"nodegroup", "eks"}
VpcParts == {"nat", "subnet", "igw", "routes", "rules", "groups", "vpc"}
Storage  == {"objects", "bucket"}
Roles    == {"policies", "profile", "role"}
Users    == {"login", "keys", "user"}

(* What no target has any more when phase p begins,                        *)
Cleared(p) ==
  CASE p \in {"eks", "ekswait"}          -> {"nodegroup"}
    [] p \in {"rds", "vpcs"} \cup InVpc  -> Servers
    [] p = "eips"                        -> Servers \cup VpcParts
    [] p \in {"buckets"} \cup InBucket   -> Servers \cup VpcParts \cup {"eip"}
    [] p \in {"roles"} \cup InRole       -> Servers \cup VpcParts \cup {"eip"} \cup Storage
    [] p \in {"users"} \cup InUser       -> Servers \cup VpcParts \cup {"eip"} \cup Storage
                                              \cup Roles
    [] p = "stack"                       -> Servers \cup VpcParts \cup {"eip"} \cup Storage
                                              \cup Roles \cup Users
    [] OTHER                             -> {}

(* what it takes from each target it visits,                               *)
Cleans(p) ==
  CASE p = "nodegroupwait"               -> {"nodegroup"}
    [] p = "ekswait"                     -> {"eks"}
    [] p \in {"vpcs"} \cup InVpc         -> VpcParts
    [] p = "eips"                        -> {"eip"}
    [] p \in {"buckets"} \cup InBucket   -> Storage
    [] p \in {"roles"} \cup InRole       -> Roles
    [] p \in {"users"} \cup InUser       -> Users
    [] OTHER                             -> {}

(* and what has been taken from the target in the middle of it.            *)
SoFar(p) ==
  CASE p = "subnets"      -> {"nat"}
    [] p = "igws"         -> {"nat", "subnet"}
    [] p = "routes"       -> {"nat", "subnet", "igw"}
    [] p = "rules"        -> {"nat", "subnet", "igw", "routes"}
    [] p = "groups"       -> {"nat", "subnet", "igw", "routes", "rules"}
    [] p = "vpc"          -> {"nat", "subnet", "igw", "routes", "rules", "groups"}
    [] p = "bucket"       -> {"objects"}
    [] p = "roleprofiles" -> {"policies"}
    [] p = "role"         -> {"policies", "profile"}
    [] p = "userkeys"     -> {"login"}
    [] p = "userdelete"   -> {"login", "keys"}
    [] OTHER              -> {}

(* The deletions AWS has accepted when p begins, and those p asks for.     *)
Accepted(p) ==
  CASE p = "nodegroupwait" -> {"nodegroup"}
    [] p = "ekswait"       -> {"eks"}
    [] p \in {"nodegroups", "eks", "rds"} -> {}
    [] OTHER               -> {"rds"}

Asks(p) == IF p \in {"eks", "rds", "stack"} THEN {p}
           ELSE IF p = "nodegroups" THEN {"nodegroup"} ELSE {}

Clear(t, kinds) == \A k \in kinds : ~Has(t, k)
Going(t, kinds) == \A k \in kinds : Has(t, k) => <<t, k>> \in going

\* Dependent resources do not outlive what they are in; what is being deleted
\* in the background is nothing else, and waits for nothing.
RootedInv ==
  \A t \in Targets, k \in Kinds :
    /\ Has(t, k) => \A w \in Within(k) : Has(t, w)
    /\ <<t, k>> \in going => k \in Slow /\ Free(t, k)

\* Nothing was only detached.
NoLooseEnds == \A t \in Targets : Clear(t, {"loose_igw", "loose_profile"})

\* The phases before have done their part,
PhasesDone ==
  phase # "idle" => \A t \in Targets : /\ Clear(t, Cleared(phase))
                                       /\ Going(t, Accepted(phase))

\* this phase has, for the targets it has visited,
TargetsDone ==
  \A t \in Targets \ todo :
    phase # "idle" /\ (t # at \/ phase \notin Inner) =>
      Clear(t, Cleans(phase)) /\ Going(t, Asks(phase))

\* and the steps before, for the target it is in.
StepsDone ==
  phase \in Inner =>
    /\ at \notin todo
    /\ Clear(at, SoFar(phase))
    /\ phase = "natwait" => Going(at, {"nat"})

CleanInv == faults = 0 => NoLooseEnds /\ PhasesDone /\ TargetsDone /\ StepsDone

SweepInv == TypeOK /\ RootedInv /\ CleanInv

LEMMA Blocking == \A k \in Kinds : \A w \in Within(k) : k \in Blockers(w) /\ w \in Kinds
  BY DEF Kinds, Within, Blockers

LEMMA LooseBlocksNothing ==
  \A k \in Kinds : Blockers(k) \subseteq Kinds \ {"loose_igw", "loose_profile"}
  BY DEF Kinds, Blockers

LEMMA LooseIsFree ==
  \A k \in {"loose_igw", "loose_profile"} : Within(k) = {} /\ k \in Kinds
  BY DEF Kinds, Within

(* What any step may do to the account: only what nothing depends on goes, *)
(* only loose ends appear, and not even those unless a call fails.         *)
Removes ==
  \A t \in Targets, k \in Kinds :
    Has(t, k) => Has(t, k)' \/ Free(t, k)

Adds ==
  \A t \in Targets, k \in Kinds :
    /\ Has(t, k)' => Has(t, k) \/ k \in {"loose_igw", "loose_profile"}
    /\ <<t, k>> \in going' => \/ <<t, k>> \in going
                              \/ k \in Slow /\ Free(t, k)

Shrinks == left' \subseteq left /\ left' \ going' \subseteq left \ going

AwsStep ==
  /\ left' \subseteq Targets \X Kinds /\ going' \subseteq left'
  /\ faults' \in 0..MaxFaults
  /\ Removes /\ Adds
  /\ faults' = 0 => faults = 0 /\ Shrinks

LEMMA FailsIsCounted ==
  ASSUME TypeOK, NEW call, Fails(call)
  PROVE  faults' \in 0..MaxFaults /\ faults' # 0
  BY SweepAssumption DEF TypeOK, Fails

LEMMA UntouchedStep ==
  ASSUME TypeOK, Untouched, UNCHANGED faults \/ \E call \in Calls : Fails(call)
  PROVE  AwsStep
  BY FailsIsCounted DEF AwsStep, Untouched, Removes, Adds, Shrinks, TypeOK, Has

LEMMA TryStep ==
  ASSUME TypeOK, RootedInv, NEW t \in Targets, NEW k \in Kinds, Try(t, k)
  PROVE  AwsStep
  <1>1. k \in Calls /\ "look" \in Calls
    BY DEF Calls
  <1>2. CASE Untouched
    BY <1>1, <1>2, UntouchedStep DEF Try, Ask, Unlisted, Delete
  <1>3. CASE Has(t, k) /\ Free(t, k) /\ Delete(t, k)
    <2>1. faults' = faults /\ faults \in 0..MaxFaults
      BY <1>3 DEF Delete, TypeOK
    <2>2. CASE k \in Slow
      <3>1. left' = left /\ going' = going \cup {<<t, k>>}
        BY <1>3, <2>2 DEF Delete
      <3> QED
        BY <1>3, <2>1, <2>2, <3>1
           DEF AwsStep, Removes, Adds, Shrinks, TypeOK, Has
    <2>3. CASE k \notin Slow
      <3>1. left' = left \ {<<t, k>>} /\ going' = going
        BY <1>3, <2>3 DEF Delete
      <3>2. <<t, k>> \notin going
        BY <2>3 DEF RootedInv
      <3> QED
        BY <1>3, <2>1, <3>1, <3>2
           DEF AwsStep, Removes, Adds, Shrinks, TypeOK, Has
    <2> QED
      BY <2>2, <2>3
  <1> QED
    BY <1>2, <1>3 DEF Try, Ask, Unlisted

LEMMA AskStep ==
  ASSUME TypeOK, RootedInv, NEW t \in Targets, NEW k \in Kinds,
         Ask(t, k) \/ Unlisted(t, k)
  PROVE  AwsStep
  BY TryStep DEF Try

LEMMA TryDetachedStep ==
  ASSUME TypeOK, RootedInv, NEW t \in Targets, NEW k \in Kinds \ Slow,
         NEW loose \in {"loose_igw", "loose_profile"}, TryDetached(t, k, loose)
  PROVE  AwsStep
  <1>1. CASE Try(t, k)
    BY <1>1, TryStep
  <1>2. CASE /\ Has(t, k) /\ Free(t, k) /\ Fails(loose)
             /\ left' = (left \ {<<t, k>>}) \cup {<<t, loose>>}
             /\ UNCHANGED going
    <2>1. faults' \in 0..MaxFaults /\ faults' # 0
      BY <1>2, FailsIsCounted
    <2>2. <<t, k>> \notin going
      BY DEF RootedInv
    <2> QED
      BY <1>2, <2>1, <2>2, LooseIsFree DEF AwsStep, Removes, Adds, TypeOK, Has
  <1> QED
    BY <1>1, <1>2 DEF TryDetached

LEMMA WaitStep ==
  ASSUME TypeOK, NEW t \in Targets, NEW k \in Kinds, Wait(t, k)
  PROVE  AwsStep
  BY UntouchedStep DEF Wait, Calls

LEMMA RemoveStep ==
  ASSUME TypeOK, RootedInv, NEW t \in Targets, NEW k \in Kinds,
         <<t, k>> \in going \/ Free(t, k),
         left' = left \ {<<t, k>>}, going' = going \ {<<t, k>>}, faults' = faults
  PROVE  AwsStep
  BY DEF AwsStep, Removes, Adds, Shrinks, TypeOK, Has, RootedInv

LEMMA EnterStep ==
  ASSUME TypeOK, NEW t, NEW p, NEW k, NEW inner, Enter(t, p, k, inner)
  PROVE  AwsStep
  BY UntouchedStep DEF Enter, Calls

LEMMA EveryUnit ==
  ASSUME TypeOK, RootedInv, NEW t \in Targets, Unit(t)
  PROVE  AwsStep /\ at' = t /\ todo' = todo \ {t} /\ t \in todo /\ phase' \in Phases
  <1> USE DEF Each, Visit, Kinds, Phases
  <1>1. CASE CleanupNodegroups(t) \/ CleanupEksCluster(t) \/ CleanupRdsInstance(t)
    BY <1>1, TryStep
       DEF CleanupNodegroups, CleanupEksCluster, CleanupRdsInstance
  <1>2. CASE WaitNodegroupsDeleted(t) \/ WaitEksClusterDeleted(t)
    BY <1>2, WaitStep DEF WaitNodegroupsDeleted, WaitEksClusterDeleted
  <1>3. CASE EnterVpc(t) \/ EnterBucket(t) \/ EnterRole(t) \/ EnterUser(t)
    <2>1. AwsStep
      BY <1>3, EnterStep DEF EnterVpc, EnterBucket, EnterRole, EnterUser
    <2> QED
      BY <1>3, <2>1 DEF EnterVpc, EnterBucket, EnterRole, EnterUser, Enter
  <1>4. CASE ReleaseClusterEips(t) \/ CleanupCfnStack(t)
    BY <1>4, TryStep DEF ReleaseClusterEips, CleanupCfnStack
  <1> QED
    BY <1>1, <1>2, <1>3, <1>4 DEF Unit

LEMMA EveryInnerStep ==
  ASSUME TypeOK, RootedInv, InnerStep
  PROVE  AwsStep /\ UNCHANGED <<todo, at>> /\ phase' \in Phases
  <1> USE DEF Inside, Kinds, Phases
  <1>0. at \in Targets
    BY DEF TypeOK
  <1>1. CASE VpcStep
    <2>1. CASE DeleteInternetGateways
      BY <1>0, <2>1, TryDetachedStep DEF DeleteInternetGateways, Slow
    <2>2. CASE WaitNatGateways
      BY <1>0, <2>2, WaitStep DEF WaitNatGateways
    <2>3. CASE DeleteNatGateways \/ NatListingFails
      BY <1>0, <2>3, AskStep DEF DeleteNatGateways, NatListingFails
    <2> QED
      BY <1>0, <1>1, <2>1, <2>2, <2>3, TryStep
         DEF VpcStep, DeleteSubnets, DeleteRouteTables,
             RevokeRules, DeleteSecurityGroups, DeleteVpc
  <1>2. CASE DeleteProfiles
    BY <1>0, <1>2, TryDetachedStep DEF DeleteProfiles, Slow
  <1> QED
    BY <1>0, <1>1, <1>2, TryStep
       DEF InnerStep, PurgeBucket, DeleteBucket, DetachPolicies, DeleteRole,
           DeleteLoginProfile, DeleteUserKeys, DeleteUser

LEMMA EverySweepStep ==
  ASSUME TypeOK, RootedInv, SweepStep
  PROVE  AwsStep /\ TypeOK'
  <1>1. AwsStep /\ phase' \in Phases /\ todo' \subseteq Targets /\ at' \in Targets
    <2>1. CASE StartSweep \/ NextPhase \/ SweepDone
      <3>1. AwsStep
        BY <2>1, UntouchedStep
           DEF StartSweep, NextPhase, Then, SweepDone, aws, Untouched
      <3> QED
        BY <2>1, <3>1 DEF StartSweep, NextPhase, Then, SweepDone, TypeOK, Phases
    <2>2. CASE AccountUnknown
      <3>1. AwsStep
        BY <2>2, UntouchedStep DEF AccountUnknown, Calls
      <3> QED
        BY <2>2, <3>1 DEF AccountUnknown, TypeOK
    <2>3. ASSUME NEW t \in Targets, Unit(t)
          PROVE  AwsStep /\ phase' \in Phases /\ todo' \subseteq Targets /\ at' \in Targets
      BY <2>3, EveryUnit DEF TypeOK
    <2>4. CASE InnerStep
      BY <2>4, EveryInnerStep DEF TypeOK
    <2> QED
      BY <2>1, <2>2, <2>3, <2>4 DEF SweepStep
  <1> QED
    BY <1>1 DEF AwsStep, TypeOK

LEMMA EveryReportStep ==
  ASSUME TypeOK, StartReport \/ ReportStep
  PROVE  AwsStep /\ UNCHANGED <<phase, todo, at>>
  <1> USE DEF Keep, Goto, Answered, Failed, Dated, Undated, Unreadable
  <1>1. "look" \in Calls /\ "answer" \in Calls
    BY DEF Calls
  <1>2. /\ UNCHANGED <<phase, todo, at, left, going>>
        /\ UNCHANGED faults \/ Fails("look") \/ Fails("answer")
    <2>1. CASE StartReport
      BY <2>1 DEF StartReport
    <2>2. CASE ProbeCluster \/ ProbeNodegroup \/ ProbeDatabase
      BY <2>2 DEF ProbeCluster, ProbeNodegroup, ProbeDatabase, Describe
    <2>3. CASE ListNodegroups \/ ListVpcs \/ ProbeNat \/ ListBuckets
      BY <2>3 DEF ListNodegroups, ListVpcs, ProbeNat, ListBuckets
    <2>4. CASE EndReport \/ CloseReport \/ \E t \in Targets : NextTarget(t)
      BY <2>4 DEF EndReport, CloseReport, NextTarget, vars, aws
    <2> QED
      BY <2>1, <2>2, <2>3, <2>4 DEF ReportStep
  <1> QED
    BY <1>1, <1>2, UntouchedStep DEF Untouched

LEMMA EveryStep ==
  ASSUME TypeOK, RootedInv, [ONext]_ovars
  PROVE  AwsStep /\ TypeOK'
  <1>1. CASE StartReport \/ ReportStep
    BY <1>1, EveryReportStep DEF AwsStep, TypeOK
  <1>2. CASE Sweeping
    BY <1>2, EverySweepStep DEF Sweeping
  <1>3. CASE SweepKilled
    <2>1. AwsStep
      BY <1>3, UntouchedStep DEF SweepKilled, Killed, Calls
    <2> QED
      BY <1>3, <2>1 DEF SweepKilled, Killed, AwsStep, TypeOK, Phases
  <1>4. ASSUME NEW r \in Targets \X Kinds, Finished(r) \/ Vanish(r)
        PROVE  AwsStep /\ TypeOK'
    <2>1. PICK t \in Targets, k \in Kinds : r = <<t, k>>
      OBVIOUS
    <2>2. AwsStep
      BY <1>4, <2>1, RemoveStep DEF Finished, Gone, Vanish
    <2> QED
      BY <1>4, <2>2 DEF Finished, Gone, Vanish, AwsStep, TypeOK
  <1>5. CASE UNCHANGED ovars
    <2>1. AwsStep
      BY <1>5, UntouchedStep DEF ovars, vars, aws, Untouched
    <2> QED
      BY <1>5, <2>1 DEF ovars, vars, aws, AwsStep, TypeOK
  <1> QED
    BY <1>1, <1>2, <1>3, <1>4, <1>5 DEF ONext

LEMMA RootedStep ==
  ASSUME TypeOK, RootedInv, AwsStep
  PROVE  RootedInv'
  <1> SUFFICES ASSUME NEW t \in Targets, NEW k \in Kinds
               PROVE  /\ Has(t, k)' => \A w \in Within(k) : Has(t, w)'
                      /\ <<t, k>> \in going' => k \in Slow /\ Free(t, k)'
    BY DEF RootedInv
  <1>1. \A b \in Blockers(k) : Has(t, b)' => Has(t, b)
    BY LooseBlocksNothing DEF AwsStep, Adds
  <1>2. <<t, k>> \in going' => k \in Slow /\ Free(t, k)'
    BY <1>1 DEF AwsStep, Adds, RootedInv, Free
  <1>3. ASSUME Has(t, k)', NEW w \in Within(k)
        PROVE  Has(t, w)'
    <2>1. Has(t, k)
      BY <1>3, LooseIsFree DEF AwsStep, Adds
    <2>2. Has(t, w) /\ ~Free(t, w) /\ w \in Kinds
      BY <2>1, <1>3, Blocking DEF RootedInv, Free
    <2> QED
      BY <2>2 DEF AwsStep, Removes
  <1> QED
    BY <1>2, <1>3

LEMMA SweepInit == OInit => TypeOK /\ RootedInv
  <1> SUFFICES ASSUME OInit
               PROVE  TypeOK /\ RootedInv
    OBVIOUS
  <1>1. TypeOK
    BY SweepAssumption DEF OInit, Init, TypeOK, Phases
  <1>2. PICK made \in [Targets -> Made] :
               left = {r \in Targets \X Kinds : r[2] \in made[r[1]]}
    BY DEF OInit, Init
  <1>3. \A t \in Targets, k \in Kinds : Has(t, k) <=> k \in made[t]
    BY <1>2 DEF Has
  <1>4. \A t \in Targets : \A k \in made[t] : Within(k) \subseteq made[t] /\ k \in Kinds
    BY SweepAssumption
  <1>5. \A t \in Targets, k \in Kinds : \A w \in Within(k) : Has(t, k) => Has(t, w)
    BY <1>3, <1>4, Blocking
  <1> QED
    BY <1>1, <1>5 DEF RootedInv, OInit, Init

LEMMA Rooted == OSpec => [](TypeOK /\ RootedInv)
  <1>1. TypeOK /\ RootedInv /\ [ONext]_ovars => (TypeOK /\ RootedInv)'
    BY EveryStep, RootedStep
  <1> QED
    BY SweepInit, <1>1, PTL DEF OSpec

(* TypeOK, in every sweep and under every report.                          *)
THEOREM Typed == OSpec => []TypeOK
  BY Rooted, PTL

---------------------------------------------------------------------------
(* Without failures. A deletion that nothing blocks is done, or accepted.  *)
LEMMA TryDeletes ==
  ASSUME TypeOK, NEW t \in Targets, NEW k \in Kinds, Try(t, k), Free(t, k),
         faults' = 0
  PROVE  IF k \in Slow THEN Going(t, {k})' ELSE Clear(t, {k})'
  <1>1. ~(\E call : Fails(call))
    BY FailsIsCounted
  <1> QED
    BY <1>1 DEF Try, Ask, Unlisted, Delete, Untouched, Going, Clear, Has

LEMMA DetachDeletes ==
  ASSUME TypeOK, NEW t \in Targets, NEW k \in Kinds \ Slow, NEW loose,
         TryDetached(t, k, loose), Free(t, k), faults' = 0
  PROVE  Clear(t, {k})'
  BY FailsIsCounted, TryDeletes DEF TryDetached

LEMMA WaitEnds ==
  ASSUME TypeOK, NEW t \in Targets, NEW k \in Kinds, Wait(t, k), Going(t, {k}),
         faults' = 0
  PROVE  Clear(t, {k})'
  BY FailsIsCounted DEF Wait, Going, Clear, Has, Untouched

(* What a unit is there to do: it leaves its target without what the phase *)
(* cleans, or goes into it.                                                *)
UnitDone(t) ==
  \/ /\ phase' = phase /\ phase \notin Inner \cup {"idle"}
     /\ Clear(t, Cleans(phase))' /\ Going(t, Asks(phase))'
  \/ /\ phase \notin Inner \cup {"idle"} /\ phase' \in Inner \ {"natwait"}
     /\ Cleared(phase') = Cleared(phase) /\ Cleans(phase') = Cleans(phase)
     /\ Accepted(phase') = Accepted(phase) /\ Asks(phase') = Asks(phase)
     /\ SoFar(phase') = {}

LEMMA NoVpcNoParts ==
  ASSUME TypeOK, RootedInv, NEW t \in Targets, ~Has(t, "vpc")
  PROVE  Clear(t, VpcParts)
  <1>1. \A k \in {"subnet", "igw", "routes", "groups"} : ~Has(t, k)
    BY DEF RootedInv, Within, Kinds
  <1>2. ~Has(t, "nat") /\ ~Has(t, "rules")
    BY <1>1 DEF RootedInv, Within, Kinds
  <1> QED
    BY <1>1, <1>2 DEF Clear, VpcParts

LEMMA NoOwnerNoParts ==
  ASSUME TypeOK, RootedInv, NEW t \in Targets
  PROVE  /\ ~Has(t, "bucket") => Clear(t, Storage)
         /\ ~Has(t, "role") => Clear(t, Roles)
         /\ ~Has(t, "user") => Clear(t, Users)
  BY DEF RootedInv, Within, Kinds, Clear, Storage, Roles, Users

LEMMA EnterDone ==
  ASSUME TypeOK, RootedInv, faults' = 0, NEW t \in Targets,
         EnterVpc(t) \/ EnterBucket(t) \/ EnterRole(t) \/ EnterUser(t)
  PROVE  UnitDone(t)
  <1> USE DEF Enter, Visit, Untouched, EnterVpc, EnterBucket, EnterRole, EnterUser
  <1>1. ~(\E call : Fails(call))
    BY FailsIsCounted
  <1>2. CASE phase' # phase
    <2>1. \/ phase = "vpcs" /\ phase' = "nats"
          \/ phase = "buckets" /\ phase' = "purge"
          \/ phase = "roles" /\ phase' = "rolepolicies"
          \/ phase = "users" /\ phase' = "user"
      BY <1>1, <1>2
    <2> QED
      BY <2>1 DEF UnitDone, Inner, InVpc, InBucket, InRole, InUser, Cleared, Cleans,
                  Accepted, Asks, SoFar
  <1>3. CASE phase' = phase
    <2>1. /\ left' = left
          /\ \/ phase = "vpcs" /\ ~Has(t, "vpc")
             \/ phase = "buckets" /\ ~Has(t, "bucket")
             \/ phase = "roles" /\ ~Has(t, "role")
             \/ phase = "users" /\ ~Has(t, "user")
      BY <1>1, <1>3
    <2>2. Clear(t, Cleans(phase))
      <3>1. CASE phase = "vpcs"
        <4>1. Cleans(phase) = VpcParts
          BY <3>1 DEF Cleans, InVpc, InBucket, InRole, InUser
        <4> QED
          BY <2>1, <3>1, <4>1, NoVpcNoParts
      <3>2. CASE phase \in {"buckets", "roles", "users"}
        BY <2>1, <3>2, NoOwnerNoParts DEF Cleans, InVpc, InBucket, InRole, InUser
      <3> QED
        BY <2>1, <3>1, <3>2
    <2> QED
      BY <1>3, <2>1, <2>2 DEF UnitDone, Inner, InVpc, InBucket, InRole, InUser, Asks,
                              Going, Clear, Has
  <1> QED
    BY <1>2, <1>3

LEMMA UnitIsDone ==
  ASSUME TypeOK, RootedInv, PhasesDone, NEW t \in Targets, Unit(t), faults' = 0
  PROVE  UnitDone(t)
  <1> USE DEF Each, Visit, Kinds, Slow, Free, Blockers, PhasesDone, Cleared, Accepted
  <1>1. CASE CleanupNodegroups(t)
    <2>1. phase = "nodegroups" /\ phase' = phase /\ Going(t, {"nodegroup"})'
      BY <1>1, TryDeletes DEF CleanupNodegroups
    <2> QED
      BY <2>1 DEF UnitDone, Inner, InVpc, InBucket, InRole, InUser, Cleans, Asks, Clear
  <1>2. CASE WaitNodegroupsDeleted(t)
    <2>1. phase = "nodegroupwait" /\ phase' = phase /\ Clear(t, {"nodegroup"})'
      BY <1>2, WaitEnds DEF WaitNodegroupsDeleted
    <2> QED
      BY <2>1 DEF UnitDone, Inner, InVpc, InBucket, InRole, InUser, Cleans, Asks, Going
  <1>3. CASE CleanupEksCluster(t)
    <2>1. phase = "eks" /\ phase' = phase
      BY <1>3 DEF CleanupEksCluster
    <2>2. Free(t, "eks")
      BY <2>1 DEF Clear, InVpc, InBucket, InRole, InUser
    <2>3. Going(t, {"eks"})'
      BY <1>3, <2>2, TryDeletes DEF CleanupEksCluster
    <2> QED
      BY <2>1, <2>3
         DEF UnitDone, Inner, InVpc, InBucket, InRole, InUser, Cleans, Asks, Clear
  <1>4. CASE WaitEksClusterDeleted(t)
    <2>1. phase = "ekswait" /\ phase' = phase /\ Clear(t, {"eks"})'
      BY <1>4, WaitEnds DEF WaitEksClusterDeleted
    <2> QED
      BY <2>1 DEF UnitDone, Inner, InVpc, InBucket, InRole, InUser, Cleans, Asks, Going
  <1>5. CASE CleanupRdsInstance(t)
    <2>1. phase = "rds" /\ phase' = phase /\ Going(t, {"rds"})'
      BY <1>5, TryDeletes DEF CleanupRdsInstance
    <2> QED
      BY <2>1 DEF UnitDone, Inner, InVpc, InBucket, InRole, InUser, Cleans, Asks, Clear
  <1>6. CASE ReleaseClusterEips(t)
    <2>1. phase = "eips" /\ phase' = phase /\ Clear(t, {"eip"})'
      BY <1>6, TryDeletes DEF ReleaseClusterEips, Clear, VpcParts
    <2> QED
      BY <2>1 DEF UnitDone, Inner, InVpc, InBucket, InRole, InUser, Cleans, Asks, Going
  <1>7. CASE CleanupCfnStack(t)
    <2>1. phase = "stack" /\ phase' = phase /\ Going(t, {"stack"})'
      BY <1>7, TryDeletes DEF CleanupCfnStack
    <2> QED
      BY <2>1 DEF UnitDone, Inner, InVpc, InBucket, InRole, InUser, Cleans, Asks, Clear
  <1> QED
    BY <1>1, <1>2, <1>3, <1>4, <1>5, <1>6, <1>7, EnterDone DEF Unit

(* The steps inside, with the kind each one takes from its target.         *)
Order == { <<"natwait", "subnets", "nat">>, <<"subnets", "igws", "subnet">>,
           <<"igws", "routes", "igw">>, <<"routes", "rules", "routes">>,
           <<"rules", "groups", "rules">>, <<"groups", "vpc", "groups">>,
           <<"vpc", "vpcs", "vpc">>, <<"purge", "bucket", "objects">>,
           <<"bucket", "buckets", "bucket">>,
           <<"rolepolicies", "roleprofiles", "policies">>,
           <<"roleprofiles", "role", "profile">>, <<"role", "roles", "role">>,
           <<"user", "userkeys", "login">>,
           <<"userkeys", "userdelete", "keys">>, <<"userdelete", "users", "user">> }

LEMMA OrderRespects ==
  \A s \in Order :
    /\ s[1] \in Inner /\ s[3] \in Kinds
    /\ s[1] # "natwait" => s[3] \notin Slow
    /\ Blockers(s[3]) \subseteq Cleared(s[1]) \cup SoFar(s[1])
  BY DEF Order, Inner, InVpc, InBucket, InRole, InUser, Kinds, Slow, Blockers,
         Cleared, SoFar, Servers, VpcParts, Storage, Roles, Users

LEMMA OrderKeeps ==
  \A s \in Order :
    /\ Cleared(s[2]) = Cleared(s[1]) /\ Cleans(s[2]) = Cleans(s[1])
    /\ Accepted(s[2]) = Accepted(s[1]) /\ Asks(s[1]) = {} /\ Asks(s[2]) = {}
  BY DEF Order, Inner, InVpc, InBucket, InRole, InUser, Cleared, Cleans, Accepted, Asks

LEMMA OrderAdds ==
  \A s \in Order :
    \/ s[2] \in Inner \ {"natwait"} /\ SoFar(s[2]) = SoFar(s[1]) \cup {s[3]}
    \/ s[2] \notin Inner \cup {"idle"} /\ Cleans(s[1]) = SoFar(s[1]) \cup {s[3]}
  BY DEF Order, Inner, InVpc, InBucket, InRole, InUser, SoFar, Cleans,
         VpcParts, Storage, Roles, Users

LEMMA InnerIsDone ==
  ASSUME TypeOK, RootedInv, PhasesDone, StepsDone, InnerStep, ~DeleteNatGateways,
         faults' = 0
  PROVE  \E s \in Order : phase = s[1] /\ phase' = s[2] /\ Clear(at, {s[3]})'
  <1>1. at \in Targets /\ "nat" \in Kinds
    BY DEF TypeOK, Kinds
  <1>2. CASE WaitNatGateways
    <2>1. phase = "natwait" /\ phase' = "subnets" /\ at' = at
      BY <1>2 DEF WaitNatGateways, Inside
    <2>2. Clear(at, {"nat"})'
      BY <1>1, <1>2, <2>1, WaitEnds
         DEF WaitNatGateways, StepsDone, Inner, InVpc, Clear, Has
    <2> QED
      BY <2>1, <2>2 DEF Order
  <1>3. CASE ~WaitNatGateways
    <2>0. ~NatListingFails
      BY FailsIsCounted DEF NatListingFails, Unlisted
    <2>1. PICK s \in Order : /\ Inside(s[1], s[2]) /\ s[1] # "natwait"
                            /\ \/ Try(at, s[3])
                               \/ \E loose : TryDetached(at, s[3], loose)
      BY <1>3, <2>0 DEF InnerStep, VpcStep, DeleteSubnets, DeleteInternetGateways,
         DeleteRouteTables, RevokeRules, DeleteSecurityGroups, DeleteVpc, PurgeBucket,
         DeleteBucket, DetachPolicies, DeleteProfiles, DeleteRole, DeleteLoginProfile,
         DeleteUserKeys,
         DeleteUser, Order
    <2>2. phase = s[1] /\ phase' = s[2] /\ at' = at /\ s[1] # "idle"
      BY <2>1, OrderRespects DEF Inside, Inner, InVpc, InBucket, InRole, InUser
    <2>3. Free(at, s[3])
      BY <1>1, <2>2, OrderRespects DEF PhasesDone, StepsDone, Clear, Free
    <2>4. Clear(at, {s[3]})'
      BY <1>1, <2>1, <2>2, <2>3, OrderRespects, TryDeletes, DetachDeletes DEF Clear, Has
    <2> QED
      BY <2>2, <2>4
  <1> QED
    BY <1>2, <1>3

(* From one phase to the next.                                             *)
LEMMA NextPhaseIsNext ==
  ASSUME NextPhase
  PROVE  /\ phase \notin Inner \cup {"idle"} /\ phase' \notin Inner \cup {"idle"}
         /\ todo = {} /\ todo' = Targets /\ UNCHANGED <<left, going>>
         /\ Cleared(phase') \subseteq Cleared(phase) \cup Cleans(phase)
         /\ Accepted(phase') \subseteq Accepted(phase) \cup Asks(phase)
  <1>1. \E s \in { <<"nodegroups", "nodegroupwait">>, <<"nodegroupwait", "eks">>,
                   <<"eks", "ekswait">>, <<"ekswait", "rds">>, <<"rds", "vpcs">>,
                   <<"vpcs", "eips">>, <<"eips", "buckets">>, <<"buckets", "roles">>,
                   <<"roles", "users">>, <<"users", "stack">> } :
          phase = s[1] /\ phase' = s[2]
    BY DEF NextPhase, Then
  <1>2. todo = {} /\ todo' = Targets /\ UNCHANGED <<left, going>>
    BY DEF NextPhase, Then, aws
  <1>3. /\ Cleared(phase') \subseteq Cleared(phase) \cup Cleans(phase)
        /\ Accepted(phase') \subseteq Accepted(phase) \cup Asks(phase)
    BY <1>1 DEF Cleared, Cleans, Accepted, Asks, InVpc, InBucket, InRole, InUser,
                Servers
  <1> QED
    BY <1>1, <1>2, <1>3 DEF Inner, InVpc, InBucket, InRole, InUser

LEMMA CleanStep ==
  ASSUME TypeOK, RootedInv, CleanInv, [ONext]_ovars
  PROVE  CleanInv'
  <1> SUFFICES ASSUME faults' = 0
               PROVE  (NoLooseEnds /\ PhasesDone /\ TargetsDone /\ StepsDone)'
    BY DEF CleanInv
  <1>1. Shrinks /\ NoLooseEnds /\ PhasesDone /\ TargetsDone /\ StepsDone
    BY EveryStep DEF CleanInv, AwsStep
  <1> USE DEF Shrinks, Clear, Going, Has
  <1>2. NoLooseEnds'
    BY <1>1 DEF NoLooseEnds
  <1>3. CASE UNCHANGED <<phase, todo, at>>
    BY <1>1, <1>2, <1>3 DEF PhasesDone, TargetsDone, StepsDone
  <1>4. CASE StartSweep
    BY <1>2, <1>4 DEF StartSweep, PhasesDone, TargetsDone, StepsDone, Cleared, Accepted,
         Inner, InVpc, InBucket, InRole, InUser
  <1>5. CASE SweepDone \/ Killed
    BY <1>2, <1>5 DEF SweepDone, Killed, PhasesDone, TargetsDone, StepsDone,
         Inner, InVpc, InBucket, InRole, InUser
  <1>6. ASSUME NEW t \in Targets, Unit(t)
        PROVE  (PhasesDone /\ TargetsDone /\ StepsDone)'
    <2>1. at' = t /\ todo' = todo \ {t} /\ UnitDone(t)
      BY <1>1, <1>6, EveryUnit, UnitIsDone
    <2>2. CASE phase' = phase
      BY <1>1, <2>1, <2>2 DEF UnitDone, PhasesDone, TargetsDone, StepsDone
    <2>3. CASE phase' # phase
      BY <1>1, <2>1, <2>3 DEF UnitDone, PhasesDone, TargetsDone, StepsDone
    <2> QED
      BY <2>2, <2>3
  <1>7. CASE DeleteNatGateways
    <2>1. phase = "nats" /\ phase' = "natwait" /\ UNCHANGED <<todo, at>>
      BY <1>7 DEF DeleteNatGateways, Inside
    <2>2. Going(at, {"nat"})'
      <3>1. at \in Targets /\ "nat" \in Kinds /\ "nat" \in Slow /\ Free(at, "nat")
        BY DEF TypeOK, Kinds, Slow, Free, Blockers
      <3> QED
        BY <1>7, <2>1, <3>1, TryDeletes DEF DeleteNatGateways, Try
    <2>3. /\ phase \in Inner /\ phase' \in Inner /\ SoFar(phase') = {}
          /\ Cleared(phase') = Cleared(phase) /\ Cleans(phase') = Cleans(phase)
          /\ Accepted(phase') = Accepted(phase) /\ Asks(phase') = Asks(phase)
      BY <2>1 DEF Cleared, Cleans, Accepted, Asks, SoFar, Inner, InVpc, InBucket,
                  InRole, InUser
    <2>4. PhasesDone' /\ TargetsDone'
      BY <1>1, <2>1, <2>3 DEF PhasesDone, TargetsDone
    <2>5. StepsDone'
      BY <1>1, <2>1, <2>2, <2>3 DEF StepsDone
    <2> QED
      BY <1>2, <2>4, <2>5
  <1>8. CASE InnerStep /\ ~DeleteNatGateways
    <2>1. PICK s \in Order : phase = s[1] /\ phase' = s[2] /\ Clear(at, {s[3]})'
      BY <1>1, <1>8, InnerIsDone
    <2>2. UNCHANGED <<todo, at>>
      BY <1>8, EveryInnerStep
    <2>3. /\ phase \in Inner /\ phase # "idle" /\ phase' # "idle"
          /\ Cleared(phase') = Cleared(phase) /\ Cleans(phase') = Cleans(phase)
          /\ Accepted(phase') = Accepted(phase)
          /\ Asks(phase) = {} /\ Asks(phase') = {}
          /\ \/ /\ phase' \in Inner \ {"natwait"}
                /\ SoFar(phase') = SoFar(phase) \cup {s[3]}
             \/ phase' \notin Inner /\ Cleans(phase) = SoFar(phase) \cup {s[3]}
      <3>1. "idle" \notin Inner
        BY DEF Inner, InVpc, InBucket, InRole, InUser
      <3> QED
        BY <2>1, <3>1, OrderKeeps, OrderAdds, OrderRespects
    <2>4. PhasesDone'
      BY <1>1, <2>3 DEF PhasesDone
    <2>5. at \notin todo /\ \A k \in SoFar(phase) \cup {s[3]} : <<at, k>> \notin left'
      <3>1. Clear(at, SoFar(phase)) /\ at \notin todo
        BY <1>1, <2>3 DEF StepsDone
      <3> QED
        BY <1>1, <2>1, <2>2, <3>1
    <2>6. TargetsDone'
      BY <1>1, <2>2, <2>3, <2>5 DEF TargetsDone
    <2>7. StepsDone'
      BY <1>1, <2>2, <2>3, <2>5 DEF StepsDone
    <2> QED
      BY <1>2, <2>4, <2>6, <2>7
  <1>9. CASE NextPhase
    <2>1. \A t \in Targets : /\ Clear(t, Cleared(phase) \cup Cleans(phase))
                             /\ Going(t, Accepted(phase) \cup Asks(phase))
      BY <1>1, <1>9, NextPhaseIsNext DEF PhasesDone, TargetsDone
    <2>2. PhasesDone'
      BY <1>9, <2>1, NextPhaseIsNext DEF PhasesDone
    <2> QED
      BY <1>2, <1>9, <2>2, NextPhaseIsNext DEF TargetsDone, StepsDone
  <1>10. ~AccountUnknown
    BY FailsIsCounted DEF AccountUnknown
  <1>11. CASE StartReport \/ ReportStep
    BY <1>3, <1>11, EveryReportStep
  <1>12. ASSUME NEW r, Finished(r) \/ Vanish(r)
         PROVE  UNCHANGED <<phase, todo, at>>
    BY <1>12 DEF Finished, Gone, Vanish
  <1>13. CASE UNCHANGED ovars
    BY <1>3, <1>13 DEF ovars, vars
  <1> QED
    BY <1>2, <1>3, <1>4, <1>5, <1>6, <1>7, <1>8, <1>9, <1>10, <1>11, <1>12, <1>13
       DEF ONext, Sweeping, SweepKilled, SweepStep

LEMMA CleanAtFirst == NothingLoose => (OInit => CleanInv)
  <1> SUFFICES ASSUME NothingLoose, OInit
               PROVE  CleanInv
    OBVIOUS
  <1>1. NoLooseEnds
    <2>1. PICK made \in [Targets -> Made] :
                 left = {r \in Targets \X Kinds : r[2] \in made[r[1]]}
      BY DEF OInit, Init
    <2>2. \A t \in Targets : made[t] \cap {"loose_igw", "loose_profile"} = {}
      BY DEF NothingLoose
    <2> QED
      BY <2>1, <2>2 DEF NoLooseEnds, Clear, Has
  <1> QED
    BY <1>1 DEF OInit, Init, CleanInv, PhasesDone, TargetsDone, StepsDone,
         Inner, InVpc, InBucket, InRole, InUser

(* What is cleared before the last phase, or accepted by the end of it, is *)
(* all there is.                                                           *)
LEMMA NothingForgotten ==
  Kinds \subseteq Cleared("stack") \cup Accepted("stack") \cup Asks("stack")
             \cup {"loose_igw", "loose_profile"}
  BY DEF Kinds, Cleared, Accepted, Asks, InVpc, InBucket, InRole, InUser,
         Servers, VpcParts, Storage, Roles, Users

(* A sweep in which and before which no call failed leaves nothing but     *)
(* what AWS is still deleting, wherever the last one stopped: the order of *)
(* the units respects every dependency (teardown.rs 2241-2317).            *)
THEOREM CleanSweep == NothingLoose => (OSpec => SweepCleans)
  <1> SUFFICES ASSUME NothingLoose
               PROVE  OSpec => SweepCleans
    OBVIOUS
  <1>1. OInit => TypeOK /\ RootedInv /\ CleanInv
    BY SweepInit, CleanAtFirst
  <1>2. /\ TypeOK /\ RootedInv /\ CleanInv /\ [ONext]_ovars
        => (TypeOK /\ RootedInv /\ CleanInv)'
    BY EveryStep, RootedStep, CleanStep
  <1>3. TypeOK /\ RootedInv /\ CleanInv /\ [ONext]_ovars
        => [phase # "idle" /\ phase' = "idle" /\ faults' = 0 => left \subseteq going]_vars
    <2> SUFFICES ASSUME TypeOK, RootedInv, CleanInv, [ONext]_ovars,
                        phase # "idle", phase' = "idle", faults' = 0
                 PROVE  left \subseteq going
      OBVIOUS
    <2>1. SweepDone
      <3>1. ~Killed
        BY FailsIsCounted DEF Killed
      <3>2. ~StartReport /\ ~ReportStep
        BY EveryReportStep
      <3>3. \A r \in Targets \X Kinds : ~Finished(r) /\ ~Vanish(r)
        BY DEF Finished, Gone, Vanish
      <3>4. SweepStep
        BY <3>1, <3>2, <3>3 DEF ONext, Sweeping, SweepKilled, ovars, vars
      <3>5. PhasesDone /\ StepsDone
        BY EveryStep DEF CleanInv, AwsStep
      <3>6. \A t \in Targets : ~Unit(t)
        BY <3>5, UnitIsDone DEF UnitDone, Inner, InVpc, InBucket, InRole, InUser
      <3>7. ~InnerStep
        BY <3>5, InnerIsDone, OrderAdds DEF DeleteNatGateways, Inside, Inner, InVpc,
             InBucket, InRole, InUser
      <3>8. ~AccountUnknown /\ ~StartSweep /\ ~NextPhase
        BY NextPhaseIsNext DEF AccountUnknown, StartSweep
      <3> QED
        BY <3>4, <3>6, <3>7, <3>8 DEF SweepStep
    <2>2. /\ NoLooseEnds
          /\ \A t \in Targets : Clear(t, Cleared("stack")) /\ Going(t, Accepted("stack"))
          /\ \A t \in Targets : Going(t, Asks("stack"))
      BY <2>1, EveryStep DEF SweepDone, CleanInv, AwsStep, PhasesDone, TargetsDone,
           Inner, InVpc, InBucket, InRole, InUser
    <2>3. \A t \in Targets, k \in Kinds : Has(t, k) => <<t, k>> \in going
      BY <2>2, NothingForgotten DEF NoLooseEnds, Clear, Going
    <2> QED
      BY <2>3 DEF TypeOK, Has
  <1> QED
    BY <1>1, <1>2, <1>3, PTL DEF OSpec, SweepCleans

---------------------------------------------------------------------------
(* How far a sweep has come: the phases, and the steps inside a VPC, a     *)
(* bucket, a role or a user, after which the phase goes on.                *)
PhaseOrder ==
  [nodegroups |-> 1, nodegroupwait |-> 2, eks |-> 3, ekswait |-> 4, rds |-> 5,
   vpcs |-> 6, nats |-> 6, natwait |-> 6, subnets |-> 6, igws |-> 6, routes |-> 6,
   rules |-> 6, groups |-> 6, vpc |-> 6, eips |-> 7,
   buckets |-> 8, purge |-> 8, bucket |-> 8,
   roles |-> 9, rolepolicies |-> 9, roleprofiles |-> 9, role |-> 9,
   users |-> 10, user |-> 10, userkeys |-> 10, userdelete |-> 10, stack |-> 11, idle |-> 12]

StepOrder ==
  [nats |-> 1, natwait |-> 2, subnets |-> 3, igws |-> 4, routes |-> 5, rules |-> 6,
   groups |-> 7, vpc |-> 8, vpcs |-> 9,
   purge |-> 1, bucket |-> 2, buckets |-> 3,
   rolepolicies |-> 1, roleprofiles |-> 2, role |-> 3, roles |-> 4,
   user |-> 1, userkeys |-> 2, userdelete |-> 3, users |-> 4,
   nodegroups |-> 0, nodegroupwait |-> 0, eks |-> 0, ekswait |-> 0, rds |-> 0,
   eips |-> 0, stack |-> 0, idle |-> 0]

Advances ==
  \/ PhaseOrder[phase] < PhaseOrder[phase']
  \/ /\ PhaseOrder[phase'] = PhaseOrder[phase]
     /\ \/ todo' \subseteq todo /\ todo' # todo
        \/ todo' = todo /\ StepOrder[phase] < StepOrder[phase']

(* Each step of a sweep takes it on or leaves it where it is               *)
(* (teardown.rs 2241-2317).                                                *)
NoTargetTwice ==
  [][phase # "idle" => Advances \/ UNCHANGED <<phase, todo>>]_vars

LEMMA AdvanceStep ==
  ASSUME TypeOK, [ONext]_ovars, phase # "idle"
  PROVE  Advances \/ UNCHANGED <<phase, todo>>
  <1> USE DEF Advances, PhaseOrder, StepOrder
  <1>1. ASSUME NEW t \in Targets, Unit(t)
        PROVE  Advances
    <2> USE DEF Visit, Each, Enter
    <2>1. CASE CleanupNodegroups(t) \/ WaitNodegroupsDeleted(t) \/ CleanupEksCluster(t)
               \/ WaitEksClusterDeleted(t) \/ CleanupRdsInstance(t)
               \/ ReleaseClusterEips(t) \/ CleanupCfnStack(t)
      BY <2>1 DEF CleanupNodegroups, WaitNodegroupsDeleted, CleanupEksCluster,
         WaitEksClusterDeleted, CleanupRdsInstance, ReleaseClusterEips, CleanupCfnStack
    <2>2. CASE EnterVpc(t) \/ EnterBucket(t) \/ EnterRole(t) \/ EnterUser(t)
      BY <2>2 DEF EnterVpc, EnterBucket, EnterRole, EnterUser
    <2> QED
      BY <1>1, <2>1, <2>2 DEF Unit
  <1>2. CASE InnerStep
    <2> USE DEF Inside
    <2>1. CASE VpcStep
      BY <2>1 DEF VpcStep, DeleteNatGateways, NatListingFails, WaitNatGateways, DeleteSubnets,
         DeleteInternetGateways, DeleteRouteTables, RevokeRules,
         DeleteSecurityGroups, DeleteVpc
    <2>2. CASE PurgeBucket \/ DeleteBucket \/ DeleteLoginProfile \/ DeleteUserKeys \/ DeleteUser
      BY <2>2 DEF PurgeBucket, DeleteBucket, DeleteLoginProfile, DeleteUserKeys, DeleteUser
    <2>3. CASE DetachPolicies \/ DeleteProfiles \/ DeleteRole
      BY <2>3 DEF DetachPolicies, DeleteProfiles, DeleteRole
    <2> QED
      BY <1>2, <2>1, <2>2, <2>3 DEF InnerStep
  <1>3. CASE AccountUnknown
    BY <1>3 DEF AccountUnknown, TypeOK
  <1>4. CASE NextPhase
    BY <1>4 DEF NextPhase, Then
  <1>5. CASE SweepDone
    BY <1>5 DEF SweepDone
  <1>6. CASE Killed
    <2>1. PhaseOrder[phase] < 12
      BY DEF TypeOK, Phases
    <2> QED
      BY <1>6, <2>1 DEF Killed
  <1>7. ~StartSweep
    BY DEF StartSweep
  <1>8. CASE StartReport \/ ReportStep
    BY <1>8, EveryReportStep
  <1>9. CASE (\E r \in Targets \X Kinds : Finished(r) \/ Vanish(r)) \/ UNCHANGED ovars
    BY <1>9 DEF Finished, Gone, Vanish, ovars, vars
  <1> QED
    BY <1>1, <1>2, <1>3, <1>4, <1>5, <1>6, <1>7, <1>8, <1>9
       DEF ONext, Sweeping, SweepKilled, SweepStep

(* A sweep visits no target twice in a phase and no phase twice: under     *)
(* every failure each of its steps ends it, brings it further or takes one *)
(* target from those it has still to visit, whatever AWS finishes          *)
(* meanwhile and whoever asks for a report (teardown.rs 2241-2317).        *)
THEOREM SweepsOnlyAdvance == OSpec => NoTargetTwice
  <1>1. TypeOK /\ [ONext]_ovars
          => [phase # "idle" => Advances \/ UNCHANGED <<phase, todo>>]_vars
    BY AdvanceStep
  <1> QED
    BY Typed, <1>1, PTL DEF OSpec, NoTargetTwice
=============================================================================
