--------------------------- MODULE EipQuotaProofs ---------------------------
(***************************************************************************)
(* Theorems about the Elastic IP preflight, for every set of Clusters,     *)
(* every quota and number of addresses per Cluster, and whatever fails and *)
(* is rerun.                                                               *)
(***************************************************************************)
EXTENDS EipQuota, PivotHandoffProofs, FiniteSetTheorems

(* What the Clusters still to be counted hold.                             *)
HeldBy(S) == {a \in Held : a[1] \in S}

(* The quota has room for every Cluster beside the other holders.          *)
Room == foreign + Required <= Limit

(* Nothing has been created yet, on kind or in the account.                *)
Bare ==
  /\ pc \in Ended \cup {"ensure"} /\ probe # "passed"
  /\ kind = "absent" /\ kz = {} /\ applying = {}
  /\ \A c \in Clusters : src[c] = "none" /\ tgt[c] = "none" /\ addresses[c] = 0
  /\ "instance" \notin has["mgmt"] /\ registry = "stopped"

QTypeOK ==
  /\ probe \in {"none", "allocated", "owned", "passed"}
  /\ allocated \in Nat /\ owned \in Nat
  /\ toCount \subseteq Clusters
  /\ addresses \in [Clusters -> 0 .. EipsPerCluster]
  /\ foreign \in Others

\* A run passes the preflight only where there is room, and before one has
\* passed nothing exists.
RoomOrBare == Room \/ Bare

\* What was counted as allocated is the others', or has been counted as the
\* Clusters' own, or will be.
CountInv ==
  /\ probe = "allocated" => owned = 0
  /\ probe = "owned" =>
       /\ allocated <= foreign + owned + Cardinality(HeldBy(toCount))
       /\ (\A c \in Clusters : addresses[c] = 0) => allocated = foreign /\ owned = 0

QInv == QTypeOK /\ RoomOrBare /\ CountInv

---------------------------------------------------------------------------
LEMMA Constants ==
  /\ EipsPerCluster \in Nat /\ EipsPerCluster > 0 /\ Limit \in Nat
  /\ Others \subseteq Nat /\ IsFiniteSet(Clusters)
  BY EipAssumption

LEMMA UpTo ==
  ASSUME NEW n \in Nat
  PROVE  IsFiniteSet(1 .. n) /\ Cardinality(1 .. n) = n
  <1>1. /\ IsFiniteSet(1 .. n)
        /\ Cardinality(1 .. n) = IF 1 > n THEN 0 ELSE n - 1 + 1
    BY FS_Interval
  <1>2. (IF 1 > n THEN 0 ELSE n - 1 + 1) = n
    OBVIOUS
  <1> QED
    BY <1>1, <1>2

(* There is one address for each Cluster and number, at most.              *)
LEMMA RequiredIsAll ==
  /\ IsFiniteSet(Clusters \X (1 .. EipsPerCluster))
  /\ Cardinality(Clusters \X (1 .. EipsPerCluster)) = Required
  /\ Required \in Nat /\ Required > 0
  <1>1. IsFiniteSet(1 .. EipsPerCluster) /\ Cardinality(1 .. EipsPerCluster) = EipsPerCluster
    BY Constants, UpTo
  <1>2. IsFiniteSet(Clusters)
    BY Constants
  <1>3. Cardinality(Clusters) \in Nat
    BY <1>2, FS_CardinalityType
  <1>4. /\ IsFiniteSet(Clusters \X (1 .. EipsPerCluster))
        /\ Cardinality(Clusters \X (1 .. EipsPerCluster))
             = Cardinality(Clusters) * Cardinality(1 .. EipsPerCluster)
    BY <1>1, <1>2, FS_Product
  <1>5. EipsPerCluster \in Nat
    BY Constants
  <1>6. Cardinality(Clusters) > 0
    <2>1. Clusters # {}
      BY MgmtAssumption DEF MgmtAssumption
    <2> QED
      BY <1>2, <1>3, <2>1, FS_EmptySet
  <1>7. /\ Required = Cardinality(Clusters) * EipsPerCluster
        /\ Required \in Nat /\ Required > 0
    BY <1>3, <1>5, <1>6, Constants DEF Required
  <1> QED
    BY <1>1, <1>4, <1>7

LEMMA HeldIsFinite ==
  \A S : /\ IsFiniteSet(Held) /\ Cardinality(Held) \in Nat
         /\ IsFiniteSet(HeldBy(S)) /\ Cardinality(HeldBy(S)) \in Nat
         /\ Cardinality(HeldBy(S)) <= Cardinality(Held)
  <1> TAKE S
  <1>1. IsFiniteSet(Held)
    BY RequiredIsAll, FS_Subset DEF Held
  <1>2. HeldBy(S) \in SUBSET Held
    BY DEF HeldBy
  <1> QED
    BY <1>1, <1>2, FS_Subset, FS_CardinalityType

(* The count of one Cluster.                                               *)
LEMMA HeldByOne ==
  ASSUME QTypeOK, NEW c \in Clusters, NEW S, c \in S
  PROVE  Cardinality(HeldBy(S)) = addresses[c] + Cardinality(HeldBy(S \ {c}))
  <1>1. addresses[c] \in Nat /\ addresses[c] <= EipsPerCluster
    BY Constants DEF QTypeOK
  <1> DEFINE Own == {c} \X (1 .. addresses[c])
  <1>2. IsFiniteSet(Own) /\ Cardinality(Own) = addresses[c]
    <2>1. /\ IsFiniteSet(1 .. addresses[c])
          /\ Cardinality(1 .. addresses[c]) = addresses[c]
      BY <1>1, UpTo
    <2>2. IsFiniteSet({c}) /\ Cardinality({c}) = 1
      BY FS_Singleton
    <2>3. /\ IsFiniteSet(Own)
          /\ Cardinality(Own) = Cardinality({c}) * Cardinality(1 .. addresses[c])
      BY <2>1, <2>2, FS_Product
    <2> QED
      BY <1>1, <2>1, <2>2, <2>3
  <1>3. HeldBy(S) = Own \cup HeldBy(S \ {c}) /\ Own \cap HeldBy(S \ {c}) = {}
    BY <1>1, Constants DEF HeldBy, Held
  <1> HIDE DEF Own
  <1>4. /\ IsFiniteSet(HeldBy(S \ {c})) /\ Cardinality(HeldBy(S \ {c})) \in Nat
    BY HeldIsFinite
  <1>5. Cardinality(Own \cap HeldBy(S \ {c})) = 0
    BY <1>3, FS_EmptySet
  <1>6. Cardinality(Own \cup HeldBy(S \ {c}))
          = Cardinality(Own) + Cardinality(HeldBy(S \ {c}))
              - Cardinality(Own \cap HeldBy(S \ {c}))
    BY <1>2, <1>4, FS_Union
  <1> QED
    BY <1>1, <1>2, <1>3, <1>4, <1>5, <1>6

LEMMA NothingHeld ==
  ASSUME QTypeOK, \A c \in Clusters : addresses[c] = 0
  PROVE  Held = {} /\ Cardinality(Held) = 0 /\ InUse = foreign
  <1>1. Held = {}
    BY Constants DEF Held
  <1> QED
    BY <1>1, FS_EmptySet, Constants DEF InUse, QTypeOK

LEMMA QInitially == QInit => QInv
  <1> SUFFICES ASSUME QInit
               PROVE  QInv
    OBVIOUS
  <1>1. QTypeOK
    BY Constants DEF QInit, QTypeOK
  <1>2. Bare
    BY DEF QInit, Init, Bare, Ended, Sites
  <1> QED
    BY <1>1, <1>2 DEF QInv, RoomOrBare, CountInv, QInit

---------------------------------------------------------------------------
(* The addresses only grow.                                                *)
Grows == \A c \in Clusters : addresses[c] <= addresses[c]'

LEMMA HeldGrows ==
  ASSUME QTypeOK, QTypeOK', Grows, NEW S
  PROVE  Cardinality(HeldBy(S)) <= Cardinality({a \in Held' : a[1] \in S})
  <1>1. HeldBy(S) \subseteq {a \in Held' : a[1] \in S}
    BY Constants DEF HeldBy, Held, Grows, QTypeOK
  <1>2. IsFiniteSet({a \in Held' : a[1] \in S})
    BY RequiredIsAll, FS_Subset DEF Held
  <1> QED
    BY <1>1, <1>2, FS_Subset

LEMMA QTypeStep ==
  ASSUME QTypeOK, [QNext]_qvars
  PROVE  QTypeOK' /\ Grows /\ UNCHANGED foreign
  <1> USE Constants DEF QTypeOK, Grows, account, reading
  <1>1. CASE ReadAllocated
    <2>1. InUse \in Nat
      BY HeldIsFinite DEF InUse
    <2> QED
      BY <1>1, <2>1 DEF ReadAllocated
  <1>2. CASE Approve \/ Refuse \/ Afterwards
    BY <1>2 DEF Approve, Refuse, Afterwards
  <1>3. ASSUME NEW o \in RunOptions, StartProbe(o)
        PROVE  QTypeOK' /\ Grows /\ UNCHANGED foreign
    BY <1>3 DEF StartProbe
  <1>4. ASSUME NEW c \in Clusters, ReadOwned(c) \/ ProvisionBehind(c)
        PROVE  QTypeOK' /\ Grows /\ UNCHANGED foreign
    BY <1>4 DEF ReadOwned, ProvisionBehind
  <1>5. ASSUME NEW c \in Clusters, Allocate(c)
        PROVE  QTypeOK' /\ Grows /\ UNCHANGED foreign
    BY <1>5 DEF Allocate, Wanting
  <1>6. CASE UNCHANGED qvars
    BY <1>6 DEF qvars
  <1> QED
    BY <1>1, <1>2, <1>3, <1>4, <1>5, <1>6 DEF QNext

(* Before a run has passed the preflight, nothing around it moves.         *)
LEMMA BareStays ==
  ASSUME QTypeOK, Bare, [QNext]_qvars, ~Approve
  PROVE  Bare' /\ UNCHANGED addresses
  <1> USE DEF Bare, account, reading
  <1>1. CASE ReadAllocated \/ Refuse
    BY <1>1 DEF ReadAllocated, Refuse, vars, run, flux, Ended
  <1>2. CASE Afterwards
    <2>1. ~GiveUp
      BY DEF GiveUp, Satisfied, Ended, Running
    <2>2. \A k \in Kustomizations : ~FluxBegin(k) /\ ~FluxApply(k)
      BY DEF FluxBegin, FluxApply, Live
    <2>3. ~RegistryStops /\ \A c \in Clusters : ~FluxApplyOnTarget(c)
      BY DEF RegistryStops, FluxApplyOnTarget
    <2>4. Fail /\ UNCHANGED <<reading, account>>
      BY <1>2, <2>1, <2>2, <2>3 DEF Afterwards
    <2> QED
      BY <2>4 DEF Fail, World, flux, Ended
  <1>3. ASSUME NEW o \in RunOptions, StartProbe(o)
        PROVE  Bare' /\ UNCHANGED addresses
    BY <1>3 DEF StartProbe, Start, World, flux
  <1>4. ASSUME NEW c \in Clusters, ReadOwned(c)
        PROVE  Bare' /\ UNCHANGED addresses
    BY <1>4 DEF ReadOwned, vars, run, flux
  <1>5. \A c \in Clusters : ~Allocate(c) /\ ~ProvisionBehind(c)
    BY DEF Allocate, Wanting, Active, ProvisionBehind, Provision
  <1>6. CASE UNCHANGED qvars
    BY <1>6 DEF qvars, vars, run, flux
  <1> QED
    BY <1>1, <1>2, <1>3, <1>4, <1>5, <1>6 DEF QNext

(* When the count is complete, the room it finds is there, and where there *)
(* is room it finds it.                                                    *)
LEMMA CountIsFair ==
  ASSUME QInv, probe = "owned", toCount = {}
  PROVE  /\ Room => Available >= Required
         /\ Bare /\ Available >= Required => Room
  <1>1. /\ allocated \in Nat /\ owned \in Nat /\ foreign \in Nat
        /\ Limit \in Nat /\ Required \in Nat /\ Required > 0
    BY Constants, RequiredIsAll DEF QInv, QTypeOK
  <1>2. Cardinality(HeldBy(toCount)) = 0
    <2>1. HeldBy(toCount) = {}
      BY DEF HeldBy
    <2> QED
      BY <2>1, FS_EmptySet
  <1>3. allocated <= foreign + owned
    BY <1>1, <1>2 DEF QInv, CountInv
  <1>4. Bare => allocated = foreign /\ owned = 0
    BY DEF QInv, CountInv, Bare
  <1> QED
    BY <1>1, <1>3, <1>4 DEF Room, Available, Saturating

LEMMA CountStep ==
  ASSUME QInv, [QNext]_qvars, QTypeOK', Grows, UNCHANGED foreign
  PROVE  CountInv'
  <1> USE DEF account, reading
  <1>0. \A S : /\ Cardinality(HeldBy(S)) \in Nat
               /\ Cardinality({a \in Held' : a[1] \in S}) \in Nat
               /\ Cardinality(HeldBy(S)) <= Cardinality({a \in Held' : a[1] \in S})
    <2> TAKE S
    <2>1. IsFiniteSet({a \in Held' : a[1] \in S})
      BY RequiredIsAll, FS_Subset DEF Held
    <2> QED
      BY <2>1, HeldIsFinite, HeldGrows, FS_CardinalityType DEF QInv
  <1>1. foreign \in Nat /\ allocated \in Nat /\ owned \in Nat
    BY Constants DEF QInv, QTypeOK
  <1>2. \A c \in Clusters : addresses'[c] = 0 => addresses[c] = 0
    BY Constants DEF Grows, QInv, QTypeOK
  <1>3. CASE UNCHANGED reading
    <2>1. probe = "owned" =>
            allocated' <= foreign' + owned' + Cardinality({a \in Held' : a[1] \in toCount})
      BY <1>0, <1>1, <1>3 DEF QInv, CountInv
    <2> QED
      BY <1>2, <1>3, <2>1 DEF QInv, CountInv, HeldBy
  <1>4. CASE ReadAllocated
    <2>1. /\ UNCHANGED <<addresses, owned>> /\ toCount' = Clusters
          /\ allocated' = InUse /\ owned = 0
      BY <1>4 DEF ReadAllocated, QInv, CountInv
    <2>2. HeldBy(toCount)' = Held
      BY <2>1 DEF HeldBy, Held
    <2>3. (\A c \in Clusters : addresses[c] = 0) => InUse = foreign
      BY NothingHeld DEF QInv
    <2>4. InUse \in Nat /\ InUse = foreign + Cardinality(Held) /\ Cardinality(Held) \in Nat
      BY <1>1, HeldIsFinite DEF InUse
    <2>5. probe' = "owned"
      BY <1>4 DEF ReadAllocated
    <2> QED
      BY <1>1, <2>1, <2>2, <2>3, <2>4, <2>5 DEF CountInv
  <1>5. ASSUME NEW c \in Clusters, ReadOwned(c)
        PROVE  CountInv'
    <2>1. /\ UNCHANGED <<addresses, allocated, probe>> /\ probe = "owned" /\ c \in toCount
          /\ owned' = owned + addresses[c] /\ toCount' = toCount \ {c}
      BY <1>5 DEF ReadOwned
    <2>2. HeldBy(toCount)' = HeldBy(toCount \ {c})
      BY <2>1 DEF HeldBy, Held
    <2>3. Cardinality(HeldBy(toCount)) = addresses[c] + Cardinality(HeldBy(toCount \ {c}))
      BY <2>1, HeldByOne DEF QInv
    <2>4. addresses[c] \in Nat /\ Cardinality(HeldBy(toCount \ {c})) \in Nat
      <3>1. addresses[c] \in 0 .. EipsPerCluster
        BY DEF QInv, QTypeOK
      <3>2. addresses[c] \in Nat
        BY <3>1, Constants
      <3> QED
        BY <1>0, <3>2
    <2> QED
      BY <1>1, <2>1, <2>2, <2>3, <2>4 DEF QInv, CountInv
  <1>6. CASE Approve \/ \E o \in RunOptions : StartProbe(o)
    BY <1>6 DEF Approve, StartProbe, CountInv
  <1> QED
    BY <1>3, <1>4, <1>5, <1>6
       DEF QNext, qvars, Refuse, Afterwards, Allocate, ProvisionBehind

LEMMA QStep == QInv /\ [QNext]_qvars => QInv'
  <1> SUFFICES ASSUME QInv, [QNext]_qvars
               PROVE  QInv'
    OBVIOUS
  <1>1. QTypeOK' /\ Grows /\ UNCHANGED foreign
    BY QTypeStep DEF QInv
  <1>2. CountInv'
    BY <1>1, CountStep
  <1>3. Room => Room'
    BY <1>1 DEF Room, Required
  <1>4. Bare /\ Approve => Room
    BY CountIsFair DEF Approve
  <1> QED
    BY <1>1, <1>2, <1>3, <1>4, BareStays DEF QInv, RoomOrBare

LEMMA QInvariance == QSpec => []QInv
  BY QInitially, QStep, PTL DEF QSpec

(* While the other holders keep what they have, a run that passed the      *)
(* preflight, and whatever reruns follow it, never meet the quota          *)
(* (docs/operations.md 448-449, 506-508).                                  *)
THEOREM QuotaSuffices == QSpec => []NeverShort
  <1>1. QInv => NeverShort
    <2> SUFFICES ASSUME QInv, NEW c \in Clusters, Wanting(c)
                 PROVE  InUse < Limit
      BY DEF NeverShort
    <2>1. Room
      BY DEF QInv, RoomOrBare, Bare, Wanting, Active
    <2>2. <<c, EipsPerCluster>> \in (Clusters \X (1 .. EipsPerCluster)) \ Held
      BY Constants DEF Held, Wanting, QInv, QTypeOK
    <2>3. Held \in SUBSET (Clusters \X (1 .. EipsPerCluster))
      BY DEF Held
    <2>4. Cardinality(Held) <= Required /\ Cardinality(Held) # Required
      BY <2>2, <2>3, RequiredIsAll, FS_Subset
    <2>5. Cardinality(Held) \in Nat /\ Required \in Nat /\ foreign \in Nat /\ Limit \in Nat
      BY Constants, RequiredIsAll, HeldIsFinite DEF QInv, QTypeOK
    <2> QED
      BY <2>1, <2>4, <2>5 DEF Room, InUse
  <1> QED
    BY QInvariance, <1>1, PTL

(* A rerun is not refused for what the first run built, although the       *)
(* providers allocate between the counts of the preflight                  *)
(* (main.rs 569-571).                                                      *)
THEOREM RerunsFit == QSpec => RerunFits
  <1>1. QInv => [Refuse => \A c \in Clusters : addresses[c] = 0]_qvars
    <2>1. ASSUME QInv, Refuse
          PROVE  Bare
      <3>1. Available \in Nat /\ Required \in Nat
        BY <2>1, Constants, RequiredIsAll DEF QInv, QTypeOK, Available, Saturating
      <3> QED
        BY <2>1, <3>1, CountIsFair DEF Refuse, QInv, RoomOrBare
    <2> QED
      BY <2>1 DEF Bare
  <1> QED
    BY QInvariance, <1>1, PTL DEF RerunFits

---------------------------------------------------------------------------
(* A refusal is one more way to end a run.                                 *)
LEMMA PivotOrRefused == [QNext]_qvars => [Next]_vars \/ EndsIdle
  <1> SUFFICES ASSUME [QNext]_qvars PROVE [Next]_vars \/ EndsIdle
    OBVIOUS
  <1>1. CASE ReadAllocated \/ Approve \/ UNCHANGED qvars
    BY <1>1 DEF ReadAllocated, Approve, qvars
  <1>2. CASE Refuse
    BY <1>2 DEF Refuse, EndsIdle, World
  <1>3. CASE Afterwards
    BY <1>3 DEF Afterwards, Next, Environment
  <1>4. CASE \E o \in RunOptions : StartProbe(o)
    BY <1>4 DEF StartProbe, Next
  <1>5. CASE \E c \in Clusters : ReadOwned(c) \/ Allocate(c) \/ ProvisionBehind(c)
    BY <1>5 DEF ReadOwned, Allocate, ProvisionBehind, Next, Environment
  <1> QED
    BY <1>1, <1>2, <1>3, <1>4, <1>5 DEF QNext

Unpausing == Carried /\ NonePausedLeft

LEMMA UnpausingStep ==
  ASSUME Calm, "unpause" \notin Hazards, Unpausing, [QNext]_qvars
  PROVE  Unpausing' /\ [Promise!Next]_(Promise!vars)
  <1>1. CASE [Next]_vars
    <2>1. Carried'
      BY <1>1, CarriedStep DEF Unpausing
    <2>2. NonePausedLeft'
      BY <1>1, NonePausedStep DEF Unpausing, Carried
    <2>3. [Promise!Next]_(Promise!vars)
      BY <1>1, <2>1, PromiseStep DEF Unpausing, Carried
    <2> QED
      BY <2>1, <2>2, <2>3 DEF Unpausing
  <1>2. CASE EndsIdle
    BY <1>2, EndsIdleStep DEF Unpausing
  <1> QED
    BY <1>1, <1>2, PivotOrRefused

(* With the preflight before it, and the providers at work while a rerun   *)
(* counts, the run still implements Handoff, and Flux starts on the        *)
(* management cluster with every moved Cluster unpaused                    *)
(* (main.rs 519-580, 2746-3009).                                           *)
THEOREM HandoffAfterPreflight ==
  Calm /\ "unpause" \notin Hazards
    => (QSpec => []UnpausedBeforeFlux /\ ImplementsHandoff)
  <1> SUFFICES ASSUME Calm, "unpause" \notin Hazards
               PROVE  QSpec => []UnpausedBeforeFlux /\ ImplementsHandoff
    OBVIOUS
  <1>1. QInit => Unpausing /\ Promise!Init
    BY CarriedInit, PromiseInit DEF QInit, Unpausing
  <1>2. Unpausing /\ [QNext]_qvars => Unpausing' /\ [Promise!Next]_(Promise!vars)
    BY UnpausingStep
  <1>3. Unpausing => UnpausedBeforeFlux
    BY DEF Unpausing, NonePausedLeft, UnpausedBeforeFlux, Paused
  <1> QED
    BY <1>1, <1>2, <1>3, PTL DEF QSpec, ImplementsHandoff, Promise!Spec
=============================================================================
