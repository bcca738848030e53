------------------------------ MODULE Orphans ------------------------------
(***************************************************************************)
(* krops-bootstrap orphans: the read-only report of orphans.rs 238-803 and *)
(* 910-948, probe by probe, while what it reads is being deleted. A probe  *)
(* that fails is an error, never an absence; an answer that does not parse *)
(* is neither, and the resource is passed over.                            *)
(*                                                                         *)
(* The report runs before, between or after the sweeps of Sweep. A         *)
(* deletion by anybody else while it runs is Vanish, one that AWS has      *)
(* still to finish is Gone.                                                *)
(*                                                                         *)
(* All resources of a target are as old as its environment: older than     *)
(* ORPHAN_MIN_AGE_HOURS when the report begins (aged), or not.             *)
(***************************************************************************)
EXTENDS Sweep

VARIABLES
  scan,      \* the next probe, or where the report is otherwise
  scanned,   \* the target it is about
  pending,   \* the targets still to be scanned
  aged,      \* the targets older than the minimum age
  listed,    \* nodegroup or VPC that was listed and is to be described
  found,     \* the findings, as <<target, kind>>
  orphaned,  \* those with is_orphan
  errors,    \* some probe failed
  unread,    \* history: the resources whose answer did not parse,
  undated    \* and those it gave no readable creation time of

odd    == <<unread, undated>>
report == <<scan, scanned, pending, aged, listed, found, orphaned, errors, odd>>
ovars  == <<vars, report>>

Probing == { "target", "eks", "nodegroups", "nodegroup", "rds", "vpcs",
             "nat", "s3" }

(* What the report looks for.                                              *)
Scanned == {"eks", "nodegroup", "rds", "vpc"}

OInit ==
  /\ Init
  /\ scan = "none" /\ scanned \in Targets /\ pending = {}
  /\ aged = {} /\ listed = FALSE
  /\ found = {} /\ orphaned = {}
  /\ errors = FALSE
  /\ unread = {} /\ undated = {}

---------------------------------------------------------------------------
(* One probe: the AWS side is read only. What is found goes into the       *)
(* report with its verdict; what fails goes to the errors.                 *)
Keep == UNCHANGED <<phase, todo, at, left, going>>

Goto(from, to) ==
  /\ scan = from /\ scan' = to
  /\ UNCHANGED <<pending, aged>>
  /\ Keep

Answered == UNCHANGED <<faults, errors, odd>>
Failed   == Fails("look") /\ errors' = TRUE /\ UNCHANGED odd

Report(k, orphan) ==
  /\ found' = found \cup {<<scanned, k>>}
  /\ orphaned' = IF orphan THEN orphaned \cup {<<scanned, k>>} ELSE orphaned

NoFinding == UNCHANGED <<found, orphaned>>

(* The answers that are no failure: with a creation time, without one      *)
(* (a database still being created has none), and one that does not parse. *)
Dated(k, orphan) == Answered /\ Report(k, orphan)

Undated(k) ==
  /\ Report(k, TRUE) /\ undated' = undated \cup {<<scanned, k>>}
  /\ UNCHANGED <<faults, errors, unread>>

Unreadable(k) ==
  /\ Fails("answer") /\ NoFinding /\ unread' = unread \cup {<<scanned, k>>}
  /\ UNCHANGED <<errors, undated>>

---------------------------------------------------------------------------
(* Slips.                                                                  *)

\* OnlyUnreadMissed: a failed probe reads as an absence.
DescribeLossily(k) ==
  \/ Has(scanned, k) /\ Dated(k, scanned \in aged)
  \/ ~Has(scanned, k) /\ Answered /\ NoFinding
  \/ Fails("look") /\ UNCHANGED <<errors, odd>> /\ NoFinding

\* OnlyUndatedAccused: a VPC has no creation time of its own, and is not given
\* that of its NAT gateways.
ProbeNatUndated ==
  /\ Goto("nat", "s3")
  /\ IF listed THEN Report("vpc", TRUE) ELSE NoFinding
  /\ Answered
  /\ listed' = FALSE
  /\ UNCHANGED scanned

---------------------------------------------------------------------------
(* A resource that answers, or is confirmed absent. Without a creation     *)
(* time it is an orphan at any age.                                        *)
Describe(k) ==
  \/ /\ Has(scanned, k)
     /\ Dated(k, scanned \in aged) \/ Undated(k) \/ Unreadable(k)
  \/ ~Has(scanned, k) /\ Answered /\ NoFinding
  \/ Failed /\ NoFinding

(* The report fixes its time and then asks for the account.                *)
StartReport ==
  /\ scan = "none" /\ phase = "idle"
  /\ scan' = "target"
  /\ pending' = Targets
  /\ aged' \in SUBSET Targets
  /\ errors' \in BOOLEAN
  /\ IF errors' THEN Fails("look") ELSE UNCHANGED faults
  /\ UNCHANGED <<scanned, listed, found, orphaned, odd>> /\ Keep

NextTarget(t) ==
  /\ scan = "target" /\ t \in pending
  /\ scan' = "eks" /\ scanned' = t /\ pending' = pending \ {t}
  /\ UNCHANGED <<aged, listed, found, orphaned, errors, odd, faults>> /\ Keep

ProbeCluster == Goto("eks", "nodegroups") /\ Describe("eks") /\ UNCHANGED <<scanned, listed>>

(* Nodegroups are listed through their cluster, then described.            *)
ListNodegroups ==
  /\ Goto("nodegroups", "nodegroup")
  /\ \/ Answered /\ listed' = Has(scanned, "nodegroup")
     \/ Failed /\ listed' = FALSE
  /\ NoFinding /\ UNCHANGED scanned

ProbeNodegroup ==
  /\ Goto("nodegroup", "rds")
  /\ IF listed THEN Describe("nodegroup") ELSE Answered /\ NoFinding
  /\ listed' = FALSE
  /\ UNCHANGED scanned

ProbeDatabase == Goto("rds", "vpcs") /\ Describe("rds") /\ UNCHANGED <<scanned, listed>>

ListVpcs ==
  /\ Goto("vpcs", "nat")
  /\ \/ Answered /\ listed' = Has(scanned, "vpc")
     \/ Failed /\ listed' = FALSE
  /\ NoFinding /\ UNCHANGED scanned

(* A listed VPC is as old as its oldest NAT gateway that is pending or     *)
(* available; without one, or when none says how old it is, it is an       *)
(* orphan. It is reported when the probe fails, not when the answer does   *)
(* not parse.                                                              *)
NatAvailable == Has(scanned, "nat") /\ <<scanned, "nat">> \notin going

ProbeNat ==
  /\ Goto("nat", "s3")
  /\ \/ listed /\ Dated("vpc", NatAvailable => scanned \in aged)
     \/ listed /\ NatAvailable /\ Undated("vpc")
     \/ listed /\ Unreadable("vpc")
     \/ listed /\ Failed /\ Report("vpc", TRUE)
     \/ ~listed /\ Answered /\ NoFinding
  /\ listed' = FALSE
  /\ UNCHANGED scanned

(* <cluster>-* and krops-<cluster>-* match no bucket of an environment:    *)
(* those are krops-<account>-<cluster>-data.                               *)
ListBuckets ==
  /\ Goto("s3", "target")
  /\ Answered \/ Failed
  /\ NoFinding /\ UNCHANGED <<scanned, listed>>

EndReport ==
  /\ scan = "target" /\ pending = {}
  /\ scan' = "done"
  /\ UNCHANGED <<scanned, pending, aged, listed, found, orphaned, errors, odd, vars>>

(* The process exits: 0 without errors, whatever was found.                *)
CloseReport ==
  /\ scan = "done" /\ scan' = "closed"
  /\ aged' = {} /\ found' = {} /\ orphaned' = {} /\ errors' = FALSE
  /\ unread' = {} /\ undated' = {}
  /\ UNCHANGED <<scanned, pending, listed, vars>>

ReportStep ==
  \/ ProbeCluster \/ ListNodegroups \/ ProbeNodegroup \/ ProbeDatabase
  \/ ListVpcs \/ ProbeNat \/ ListBuckets \/ EndReport \/ CloseReport
  \/ \E t \in Targets : NextTarget(t)

(* Somebody else deletes a resource the report looks at.                   *)
Vanish(r) ==
  /\ scan \in Probing
  /\ r \in left /\ r[2] \in Scanned \cup {"nat"} /\ Free(r[1], r[2])
  /\ left' = left \ {r} /\ going' = going \ {r}
  /\ UNCHANGED <<phase, todo, at, faults, report>>

Sweeping == scan \in {"none", "closed"} /\ SweepStep /\ UNCHANGED report

SweepKilled == Killed /\ UNCHANGED report

Finished(r) == Gone(r) /\ UNCHANGED report

ONext ==
  \/ StartReport \/ ReportStep \/ Sweeping \/ SweepKilled
  \/ \E r \in Targets \X Kinds : Finished(r) \/ Vanish(r)

OSpec == OInit /\ [][ONext]_ovars

(* The fairness of the sweep; a report that was started goes on, and       *)
(* nobody has to start one.                                                *)
OFairSpec ==
  /\ OSpec
  /\ WF_ovars(ReportStep) /\ WF_ovars(Sweeping)
  /\ \A r \in Targets \X Kinds : WF_ovars(Finished(r))
---------------------------------------------------------------------------
(* What a report without errors still misses: what it looks for and is     *)
(* still there when it ends is in it, and is called an orphan when its     *)
(* environment is old enough, whatever was deleted in between, unless the  *)
(* answer about that very resource did not parse (orphans.rs 43-52 and     *)
(* 262-303; the silent branches are 327, 415, 489 and 582).                *)
OnlyUnreadMissed ==
  scan = "done" /\ ~errors =>
    \A t \in Targets, k \in Scanned :
      Has(t, k) /\ <<t, k>> \notin unread =>
        /\ <<t, k>> \in found
        /\ t \in aged => <<t, k>> \in orphaned

(* Whom a report without errors accuses: of a young environment that still *)
(* has its NAT gateways, only what gave no creation time of its own        *)
(* (orphans.rs 346-356, 435-445, 511-521 and 592-664).                     *)
OnlyUndatedAccused ==
  scan = "done" /\ ~errors =>
    \A t \in Targets \ aged, k \in Scanned :
      Has(t, "nat") /\ <<t, "nat">> \notin going /\ <<t, k>> \in orphaned =>
        <<t, k>> \in undated
=============================================================================
