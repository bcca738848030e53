------------------------------ MODULE EipQuota ------------------------------
(***************************************************************************)
(* The Elastic IP preflight of an aws run (main.rs 519-580, 1099-1236)     *)
(* before the bootstrap of Pivot, and the addresses the providers take for *)
(* the Clusters meanwhile. The counts are separate calls: on a rerun the   *)
(* providers on kind go on allocating between them.                        *)
(*                                                                         *)
(* The regions are checked one after the other, each by itself; this is    *)
(* the check of one region with all the Clusters in it.                    *)
(***************************************************************************)
EXTENDS PivotHandoff

CONSTANTS
  EipsPerCluster,  \* EIPS_PER_CLUSTER
  Limit,           \* the account's quota
  Others           \* how many addresses anything else may hold, more than a
                   \* quota lowered meanwhile allows, too

ASSUME EipAssumption ==
  /\ EipsPerCluster \in Nat \ {0} /\ Limit \in Nat
  /\ Others \subseteq Nat /\ Others # {}
  /\ IsFiniteSet(Clusters)

VARIABLES
  probe,       \* where the preflight of the current run is
  allocated,   \* the count of all addresses it has read
  owned,       \* the sum of the counts per Cluster it has read
  toCount,     \* the Clusters whose count it has still to read
  addresses,   \* what each Cluster holds
  foreign      \* what anything else holds

reading == <<probe, allocated, owned, toCount>>
account == <<addresses, foreign>>
qvars   == <<vars, reading, account>>

(* The addresses of the Clusters, each Cluster's numbered.                 *)
Held == {a \in Clusters \X (1 .. EipsPerCluster) : a[2] <= addresses[a[1]]}

InUse == foreign + Cardinality(Held)

(* Unsigned subtraction that stops at zero.                                *)
Saturating(a, b) == IF a < b THEN 0 ELSE a - b

QInit ==
  /\ Init
  /\ probe = "none" /\ allocated = 0 /\ owned = 0 /\ toCount = {}
  /\ addresses = [c \in Clusters |-> 0]
  /\ foreign \in Others

---------------------------------------------------------------------------
(* Slips.                                                                  *)

\* NeverShort: a plain subtraction, which wraps around for an account that
\* is over its quota (in a word of 20 bits here).
AvailableWrapped == (Limit - Saturating(allocated, owned)) % 2^20

\* RerunFits: what the Clusters own already is counted against them.
AvailableUnowned == Saturating(Limit, allocated)

---------------------------------------------------------------------------
Required == EipsPerCluster * Cardinality(Clusters)

Available == Saturating(Limit, Saturating(allocated, owned))

StartProbe(o) ==
  /\ Start(o)
  /\ probe' = "allocated"
  /\ allocated' = 0 /\ owned' = 0 /\ toCount' = {}
  /\ UNCHANGED account

(* describe-addresses: all of them first,                                  *)
ReadAllocated ==
  /\ pc = "ensure" /\ probe = "allocated"
  /\ allocated' = InUse
  /\ toCount' = Clusters
  /\ probe' = "owned"
  /\ UNCHANGED <<vars, owned, account>>

(* then those each Cluster owns.                                           *)
ReadOwned(c) ==
  /\ pc = "ensure" /\ probe = "owned" /\ c \in toCount
  /\ owned' = owned + addresses[c]
  /\ toCount' = toCount \ {c}
  /\ UNCHANGED <<vars, probe, allocated, account>>

Approve ==
  /\ pc = "ensure" /\ probe = "owned" /\ toCount = {}
  /\ Available >= Required
  /\ probe' = "passed"
  /\ allocated' = 0 /\ owned' = 0      \* out of scope
  /\ UNCHANGED <<vars, toCount, account>>

Refuse ==
  /\ pc = "ensure" /\ probe = "owned" /\ toCount = {}
  /\ Available < Required
  /\ pc' = "failed"
  /\ UNCHANGED <<run, kind, flux, src, tgt, infra, has, registry, reading, account>>

(* The providers allocate one address per availability zone, then the      *)
(* endpoint comes up behind them.                                          *)
Active(c) == src[c] = "live" \/ tgt[c] = "live"
Wanting(c) == Active(c) /\ addresses[c] < EipsPerCluster

Allocate(c) ==
  /\ Wanting(c) /\ InUse < Limit
  /\ addresses' = [addresses EXCEPT ![c] = @ + 1]
  /\ UNCHANGED <<vars, reading, foreign>>

ProvisionBehind(c) ==
  /\ addresses[c] = EipsPerCluster
  /\ Provision(c)
  /\ UNCHANGED <<reading, account>>

(* The run goes on to its first step when the preflight has passed.        *)
Afterwards ==
  /\ \/ probe = "passed" /\ CliStep
     \/ GiveUp \/ Fail
     \/ \E k \in Kustomizations : FluxBegin(k) \/ FluxApply(k)
     \/ \E c \in Clusters : FluxApplyOnTarget(c)
     \/ RegistryStops
  /\ UNCHANGED <<reading, account>>

QNext ==
  \/ ReadAllocated \/ Approve \/ Refuse \/ Afterwards
  \/ \E o \in RunOptions : StartProbe(o)
  \/ \E c \in Clusters : ReadOwned(c) \/ Allocate(c) \/ ProvisionBehind(c)

QSpec == QInit /\ [][QNext]_qvars
---------------------------------------------------------------------------
(* While the other holders keep what they have, a run that passed the      *)
(* preflight, and whatever reruns follow it, never meet the quota          *)
(* (docs/operations.md 448-449, 506-508).                                  *)
NeverShort == \A c \in Clusters : Wanting(c) => InUse < Limit

(* A rerun is not refused for what the first run built, although the       *)
(* providers allocate between the two counts of the preflight              *)
(* (main.rs 569-571).                                                      *)
RerunFits ==
  [][Refuse => \A c \in Clusters : addresses[c] = 0]_qvars
=============================================================================
