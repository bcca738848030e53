--------------------------- MODULE RunTagsProofs ---------------------------
(***************************************************************************)
(* Theorems about the run tags, on those about the run they are part of.   *)
(***************************************************************************)
EXTENDS RunTags, PivotHandoffProofs, WellFoundedInduction

(* Every step is one of Pivot, or leaves its state alone.                  *)
LEMMA PivotSteps == [TNext]_tvars => [Next]_vars
  BY DEF TNext, EnsureInSource, SeedTarget, LoseKind, Untagged, StartTagged,
         RenderOnKind, RenderOnTarget, Rerender, tvars, Next, CliStep, Bootstrap,
         Finish, Environment

LEMMA CarriedInvariance == Calm => (TSpec => []Carried)
  <1> SUFFICES ASSUME Calm PROVE TSpec => []Carried
    OBVIOUS
  <1>1. TInit => Init
    BY DEF TInit
  <1>2. Carried /\ [Next]_vars => Carried'
    BY CarriedStep
  <1> QED
    BY <1>1, <1>2, CarriedInit, PivotSteps, PTL DEF TSpec

(* A run with its tags is a run of Pivot: what the objects do on their way *)
(* does not depend on what the run tags become, and the properties of the  *)
(* pivot hold beside them, whatever fails and is rerun                     *)
(* (main.rs 2746-2985, run_tags.rs 215-342).                               *)
THEOREM TaggedRuns ==
  TSpec => /\ Spec
           /\ Calm => [](OneOwner /\ SeededBeforeFlux /\ TravelInv)
           /\ Calm /\ WithoutRecreate => []NothingOrphaned
           /\ Calm => QuietDuringMove /\ KindGoesLast
  <1>1. TSpec => Spec
    <2>1. TInit => Init
      BY DEF TInit
    <2> QED
      BY <2>1, PivotSteps, PTL DEF TSpec, Spec
  <1>2. Calm => (TSpec => [](OneOwner /\ SeededBeforeFlux /\ TravelInv))
    <2> SUFFICES ASSUME Calm
                 PROVE  TSpec => [](OneOwner /\ SeededBeforeFlux /\ TravelInv)
      OBVIOUS
    <2> QED
      BY CarriedInvariance, CarriedMeans, PTL
  <1>3. Calm => (Spec => QuietDuringMove /\ KindGoesLast)
    BY MoveIsQuiet, KindLast
  <1> QED
    BY <1>1, <1>2, <1>3, NoOrphans

TagTypes ==
  /\ exported \in Exports
  /\ today \in FirstDay .. LastDay
  /\ tags \in [Sites -> Resolved \cup {NoTags}]
  /\ stamp \in [Clusters -> Resolved \cup {NoTags}]

LEMMA ResolvedInTime ==
  ASSUME NEW day \in FirstDay .. LastDay
  PROVE  Resolve(day) \in Resolved
  BY DEF Resolve, Resolved

LEMMA TagTypesInit == TInit => TagTypes
  BY RunTagsAssumption DEF RunTagsAssumption, TInit, TagTypes

LEMMA TagTypesStep == TagTypes /\ [TNext]_tvars => TagTypes'
  <1> SUFFICES ASSUME TagTypes, [TNext]_tvars
               PROVE  TagTypes'
    OBVIOUS
  <1> USE DEF TagTypes, Sites
  <1>1. CASE EnsureInSource
    <2>1. CASE UNCHANGED <<today, tags>>
      BY <1>1, <2>1 DEF EnsureInSource
    <2>2. ASSUME NEW day \in today .. LastDay,
                 today' = day, tags' = [tags EXCEPT !["kind"] = Resolve(day)]
          PROVE  TagTypes'
      <3>1. day \in FirstDay .. LastDay
        BY RunTagsAssumption DEF RunTagsAssumption
      <3>2. Resolve(day) \in Resolved
        BY <3>1, ResolvedInTime
      <3> QED
        BY <1>1, <2>2, <3>1, <3>2 DEF EnsureInSource
    <2> QED
      BY <1>1, <2>1, <2>2 DEF EnsureInSource
  <1>2. CASE SeedTarget
    BY <1>2 DEF SeedTarget
  <1>3. CASE LoseKind
    BY <1>3 DEF LoseKind
  <1>4. CASE Untagged \/ UNCHANGED tvars
    BY <1>4 DEF Untagged, tvars, tagging
  <1>5. ASSUME NEW o \in RunOptions, StartTagged(o)
        PROVE  TagTypes'
    BY <1>5 DEF StartTagged
  <1>6. ASSUME NEW k \in Kustomizations, RenderOnKind(k)
        PROVE  TagTypes'
    BY <1>6 DEF RenderOnKind
  <1>7. ASSUME NEW c \in Clusters, RenderOnTarget(c)
        PROVE  TagTypes'
    BY <1>7 DEF RenderOnTarget
  <1>8. ASSUME NEW c \in Clusters, Rerender(c)
        PROVE  TagTypes'
    BY <1>8 DEF Rerender
  <1> QED
    BY <1>1, <1>2, <1>3, <1>4, <1>5, <1>6, <1>7, <1>8 DEF TNext

---------------------------------------------------------------------------
(* NothingUntagged is inductive with what the seeding step leaves behind:  *)
(* where the tags are installed there are tags.                            *)
TagsThere ==
  /\ TagTypes
  /\ \A s \in Sites : "tags" \in has[s] => tags[s] # NoTags
  /\ NothingUntagged

(* The steps without an effect on the tags install none and create no      *)
(* Cluster but from its copy on kind.                                      *)
LEMMA UntaggedAddsNothing ==
  ASSUME Carried, Untagged
  PROVE  /\ \A s \in Sites : "tags" \in has'[s] => "tags" \in has[s]
         /\ \A c \in Clusters : src'[c] # "none" \/ tgt'[c] # "none"
                               => src[c] # "none" \/ tgt[c] # "none"
  <1> USE DEF Carried, Inv, TypeOK, Sites, World, run, flux, Step
  <1>1. CASE UNCHANGED <<src, tgt, has>>
    BY <1>1
  <1>2. CASE InstallFluxOperator \/ DropSopsKey \/ ApplySecrets \/ InstallFluxInstance
    BY <1>2 DEF InstallFluxOperator, DropSopsKey, ApplySecrets, InstallFluxInstance,
                Install
  <1>3. CASE Prepare
    BY <1>3
    DEF Prepare, CheckContext, WaitForDefinition, WaitForKubeconfig,
        ExportKubeconfig, WaitForNodes, InstallCapiOperator,
        ApplyPivotManifests, WaitForProviders, InstallOnTarget
  <1>4. CASE Move
    <2>1. ASSUME NEW c \in Clusters, MoveCreate(c)
          PROVE  src[c] # "none"
      BY <2>1 DEF MoveCreate, Travel, CopiedSoFar, Present, Missing
    <2>2. ASSUME NEW c \in Clusters, Unpause(c)
          PROVE  tgt[c] # "none"
      BY <2>2 DEF Unpause, Travel, UnpausesMoved, Present, Missing
    <2> QED
      BY <1>4, <2>1, <2>2
      DEF Move, ListKustomizations, SuspendKustomization, MovePause, MoveCreate,
          MoveCreated, MoveDelete, MoveDeleted, ListMoved, Unpause, Unpaused,
          ApplyFallbacks
  <1>5. CASE \/ GiveUp \/ Fail \/ ReuseKind \/ CreateKind \/ StartRegistry
             \/ WatchReconciliation \/ PublishArtifact \/ GuardDeletion
             \/ (\E k \in Kustomizations : FluxBegin(k))
             \/ (\E c \in Clusters : Provision(c)) \/ RegistryStops
    BY <1>1, <1>5
    DEF GiveUp, Fail, ReuseKind, CreateKind, StartRegistry, WatchReconciliation,
        PublishArtifact, GuardDeletion, FluxBegin, Provision, RegistryStops
  <1> QED
    BY <1>2, <1>3, <1>4, <1>5 DEF Untagged

LEMMA TagsThereStep ==
  Calm /\ Carried /\ TagsThere /\ [TNext]_tvars => TagsThere'
  <1> SUFFICES ASSUME Calm, Carried, TagsThere, [TNext]_tvars
               PROVE  TagsThere'
    OBVIOUS
  <1> USE DEF TagsThere, NothingUntagged, TagTypes, Sites, World, run, flux
  <1>1. TagTypes'
    BY TagTypesStep
  <1>2. \A s \in Sites : "instance" \in has[s] => tags[s] # NoTags
    BY DEF Carried, Seeds, SeededBeforeFlux
  <1>3. \A k \in Kustomizations : kind = "up" /\ (Live(k) \/ k \in applying)
                                 => tags["kind"] # NoTags
    BY <1>2 DEF Carried, Inv, Live
  <1>4. CASE EnsureInSource
    <2>1. tags'["kind"] # NoTags /\ tags'["mgmt"] = tags["mgmt"]
      <3>1. ASSUME NEW day \in today .. LastDay PROVE Resolve(day) # NoTags
        BY RunTagsAssumption, NoTagsAssumption, ResolvedInTime
        DEF RunTagsAssumption, NoTagsAssumption
      <3> QED
        BY <1>4, <3>1 DEF EnsureInSource
    <2>2. /\ UNCHANGED <<src, tgt, stamp>>
          /\ has'["mgmt"] = has["mgmt"]
      BY <1>4 DEF EnsureInSource, EnsureRunTags, Install, Carried, Inv, TypeOK
    <2> QED
      BY <1>1, <2>1, <2>2
  <1>5. CASE SeedTarget
    <2>1. tags["kind"] # NoTags
      BY <1>5 DEF SeedTarget, EnsureRunTags
    <2>2. UNCHANGED <<src, tgt, stamp>> /\ has'["kind"] = has["kind"]
      BY <1>5 DEF SeedTarget, EnsureRunTags, Install, Carried, Inv, TypeOK
    <2> QED
      BY <1>1, <1>5, <2>1, <2>2 DEF SeedTarget
  <1>6. CASE LoseKind
    BY <1>1, <1>6 DEF LoseKind, DropKind, DeleteKind, EraseKind, Carried, Inv, TypeOK
  <1>7. CASE Untagged
    BY <1>1, <1>7, UntaggedAddsNothing DEF Untagged, tagging
  <1>8. ASSUME NEW o \in RunOptions, StartTagged(o)
        PROVE  TagsThere'
    BY <1>1, <1>8 DEF StartTagged, Start
  <1>9. ASSUME NEW k \in Kustomizations, RenderOnKind(k)
        PROVE  TagsThere'
    BY <1>1, <1>3, <1>9 DEF RenderOnKind, FluxApply
  <1>10. ASSUME NEW c \in Clusters, RenderOnTarget(c)
         PROVE  TagsThere'
    BY <1>1, <1>2, <1>10 DEF RenderOnTarget, FluxApplyOnTarget, Carried, Inv, TypeOK
  <1>11. ASSUME NEW c \in Clusters, Rerender(c)
         PROVE  TagsThere'
    BY <1>1, <1>2, <1>11 DEF Rerender, Live, vars
  <1>12. CASE UNCHANGED tvars
    BY <1>1, <1>12 DEF tvars, vars, tagging
  <1> QED
    BY <1>4, <1>5, <1>6, <1>7, <1>8, <1>9, <1>10, <1>11, <1>12 DEF TNext

(* No Cluster object is ever rendered without run tags, on either cluster, *)
(* at any point of any run (run_tags.rs 8-11; docs/operations.md 606-611). *)
THEOREM AllTagged == Calm => (TSpec => []NothingUntagged)
  <1> SUFFICES ASSUME Calm PROVE TSpec => []NothingUntagged
    OBVIOUS
  <1>1. TInit => TagsThere
    BY TagTypesInit DEF TInit, Init, TagsThere, NothingUntagged, Sites
  <1>2. Carried /\ TagsThere /\ [TNext]_tvars => TagsThere'
    BY TagsThereStep
  <1>3. TagsThere => NothingUntagged
    BY DEF TagsThere
  <1> QED
    BY CarriedInvariance, <1>1, <1>2, <1>3, PTL DEF TSpec

---------------------------------------------------------------------------
(* One identity: with KROPS_RUN_ID set, tags are resolved only where there *)
(* are none, and the invariant says that there are none anywhere then.     *)

\* Nothing carries tags.
Untouched == Worn = {}

\* The target has tags once the inventory has moved.
SeededLate == tags["mgmt"] # NoTags => MgmtOwns

\* A kind cluster without tags is a new one, or it is gone for good.
Blank == tags["kind"] = NoTags => Untouched \/ (kind = "absent" /\ MgmtOwns)

SameTags == TagTypes /\ OneIdentity /\ SeededLate /\ Blank

LEMMA OwnsStays ==
  ASSUME Inv, [Next]_vars, MgmtOwns
  PROVE  MgmtOwns'
  <1> SUFFICES ASSUME "instance" \in has["mgmt"]
               PROVE  "instance" \in has'["mgmt"]
    BY TargetGrows DEF Inv, MgmtOwns
  <1> USE DEF World, run, flux, Sites, Inv, TypeOK
  <1>1. CASE UNCHANGED has
    BY <1>1
  <1>2. CASE Bootstrap
    BY <1>1, <1>2
    DEF Bootstrap, ReuseKind, DropKind, EraseKind, CreateKind, StartRegistry,
        InstallFluxOperator, EnsureRunTags, DropSopsKey, ApplySecrets,
        InstallFluxInstance, WatchReconciliation, Install
  <1>3. CASE Prepare
    BY <1>3
    DEF Prepare, CheckContext, WaitForDefinition, WaitForKubeconfig,
        ExportKubeconfig, WaitForNodes, InstallCapiOperator,
        ApplyPivotManifests, WaitForProviders, InstallOnTarget
  <1>4. CASE Move \/ Finish
    BY <1>1, <1>4
    DEF Move, ListKustomizations, SuspendKustomization, MovePause, MoveCreate,
        MoveCreated, MoveDelete, MoveDeleted, ListMoved, Unpause, Unpaused,
        ApplyFallbacks, Finish, PublishArtifact, GuardDeletion, DeleteKind, EraseKind
  <1>5. CASE Environment
    BY <1>5 DEF Environment, FluxBegin, FluxApply, FluxApplyOnTarget, Provision,
       RegistryStops
  <1>6. CASE GiveUp \/ Fail \/ (\E o \in RunOptions : Start(o)) \/ UNCHANGED vars
    BY <1>6 DEF GiveUp, Fail, Start, vars
  <1> QED
    BY <1>2, <1>3, <1>4, <1>5, <1>6 DEF Next, CliStep

(* Only EnsureInSource brings in tags nothing carries yet.                 *)
LEMMA WornStep ==
  ASSUME TagTypes, [TNext]_tvars, ~EnsureInSource
  PROVE  Worn' \subseteq Worn
  <1> USE DEF TagTypes, Sites, Worn
  <1>1. CASE SeedTarget
    BY <1>1 DEF SeedTarget
  <1>2. CASE LoseKind
    BY <1>2 DEF LoseKind
  <1>3. CASE Untagged \/ UNCHANGED tvars
    BY <1>3 DEF Untagged, tvars, tagging
  <1>4. ASSUME NEW o \in RunOptions, StartTagged(o)
        PROVE  Worn' \subseteq Worn
    BY <1>4 DEF StartTagged
  <1>5. ASSUME NEW k \in Kustomizations, RenderOnKind(k)
        PROVE  Worn' \subseteq Worn
    BY <1>5 DEF RenderOnKind
  <1>6. ASSUME NEW c \in Clusters, RenderOnTarget(c) \/ Rerender(c)
        PROVE  Worn' \subseteq Worn
    BY <1>6 DEF RenderOnTarget, Rerender
  <1> QED
    BY <1>1, <1>2, <1>3, <1>4, <1>5, <1>6 DEF TNext

(* What else happens to the tags of the two clusters.                      *)
LEMMA TagsStep ==
  ASSUME TagTypes, [TNext]_tvars
  PROVE  /\ tags' = tags \/ EnsureInSource \/ SeedTarget \/ LoseKind
         /\ kind = "absent" /\ kind' # kind => CreateKind
  BY DEF TNext, StartTagged, RenderOnKind, RenderOnTarget, Rerender, Untagged,
         tvars, tagging, vars, EnsureInSource, SeedTarget, LoseKind, Start,
         FluxApply, FluxApplyOnTarget, GiveUp, Fail, ReuseKind, StartRegistry,
         InstallFluxOperator, EnsureRunTags, Install, DropSopsKey, ApplySecrets,
         InstallFluxInstance, WatchReconciliation, PublishArtifact, GuardDeletion,
         FluxBegin, Provision, RegistryStops, DropKind, DeleteKind, EraseKind,
         Prepare, CheckContext, WaitForDefinition, WaitForKubeconfig,
         ExportKubeconfig, WaitForNodes, InstallCapiOperator, ApplyPivotManifests,
         WaitForProviders, InstallOnTarget, Move, ListKustomizations,
         SuspendKustomization, MovePause, MoveCreate, MoveCreated, MoveDelete,
         MoveDeleted, ListMoved, Unpause, Unpaused, ApplyFallbacks, World, run, flux

LEMMA SameTagsStep ==
  ASSUME Exports = {TRUE}, WithoutRecreate, Carried, Carried', Owned, SameTags,
         [TNext]_tvars
  PROVE  SameTags'
  <1> USE DEF Sites
  <1>1. TagTypes /\ TagTypes'
    BY TagTypesStep DEF SameTags
  <1>2. MgmtOwns => MgmtOwns'
    BY OwnsStays, PivotSteps DEF Carried
  <1>5. CASE EnsureInSource
    <2>1. pc = "tags" /\ UNCHANGED <<stamp, kind>>
      BY <1>5 DEF EnsureInSource, EnsureRunTags, Install, World
    <2>2. kind = "up"
      BY <2>1 DEF Carried, Inv, TypeOK, NoRebuild, Running
    <2>3. CASE UNCHANGED tags
      BY <1>1, <1>2, <2>1, <2>3 DEF SameTags, SeededLate, Blank, OneIdentity,
         Untouched, Worn
    <2>4. ASSUME NEW day \in today .. LastDay, tags["kind"] = NoTags,
                 tags' = [tags EXCEPT !["kind"] = Resolve(day)]
          PROVE  SameTags'
      <3>1. Worn = {}
        BY <2>2, <2>4 DEF SameTags, Blank, Untouched
      <3>2. tags'["mgmt"] = NoTags /\ \A c \in Clusters : stamp'[c] = NoTags
        BY <1>1, <2>1, <2>4, <3>1 DEF TagTypes, Worn
      <3>3. tags'["kind"] = Resolve(day) /\ Resolve(day) # NoTags
        <4>1. day \in FirstDay .. LastDay
          BY <1>1, RunTagsAssumption DEF TagTypes, RunTagsAssumption
        <4> QED
          BY <1>1, <2>4, <4>1, ResolvedInTime, NoTagsAssumption
          DEF TagTypes, NoTagsAssumption
      <3>4. Worn' \subseteq {Resolve(day)}
        BY <3>2, <3>3 DEF Worn
      <3> QED
        BY <1>1, <3>2, <3>3, <3>4 DEF SameTags, SeededLate, Blank, OneIdentity
    <2> QED
      BY <1>1, <1>5, <2>3, <2>4 DEF EnsureInSource, TagTypes
  <1>6. CASE ~EnsureInSource
    <2>1. Worn' \subseteq Worn
      BY <1>1, <1>6, WornStep
    <2>2. OneIdentity'
      BY <2>1 DEF SameTags, OneIdentity
    <2>3. Untouched => Untouched'
      BY <2>1 DEF Untouched, Worn
    <2>4. SeededLate'
      <3>1. CASE SeedTarget
        BY <1>2, <3>1
        DEF SeedTarget, EnsureRunTags, Carried, Travel, AllLeft, AfterMove,
            AfterUnpause, Seeding, MgmtOwns, SeededLate
      <3>2. CASE tags'["mgmt"] = tags["mgmt"]
        BY <1>2, <3>2 DEF SameTags, SeededLate
      <3> QED
        BY <1>1, <1>6, <3>1, <3>2, TagsStep DEF LoseKind, TagTypes
    <2>5. Blank'
      <3>1. ~DropKind
        BY DEF DropKind, Owned, WithoutRecreate
      <3>2. CASE DeleteKind
        BY <1>2, <3>2
        DEF DeleteKind, EraseKind, Step, Carried, Travel, AllLeft, AfterMove,
            AfterUnpause, MgmtOwns, Blank
      <3>3. CASE CreateKind /\ tags' = tags
        BY <2>3, <3>3 DEF CreateKind, Carried, Inv, NoRebuild, SameTags, Blank, Step
      <3>4. CASE tags'["kind"] = tags["kind"] /\ (kind = "absent" => kind' = kind)
        BY <1>2, <2>3, <3>4 DEF SameTags, Blank
      <3>5. CreateKind => tags' = tags
        BY <1>1, <1>6, TagsStep
        DEF CreateKind, SeedTarget, LoseKind, EnsureRunTags, DropKind, DeleteKind, Step
      <3> QED
        BY <1>1, <1>6, <3>1, <3>2, <3>3, <3>4, <3>5, TagsStep
        DEF SeedTarget, LoseKind, TagTypes
    <2> QED
      BY <1>1, <2>2, <2>4, <2>5 DEF SameTags
  <1> QED
    BY <1>5, <1>6

(* An environment whose runs all have KROPS_RUN_ID set carries one run id  *)
(* and one expiry, wherever its objects are and whatever failed. With      *)
(* --recreate it would not: what was built keeps the old tags, and the     *)
(* ConfigMap that says them goes with kind (run_tags.rs 7-8; main.rs       *)
(* 1317-1322; docs/operations.md 629-633).                                 *)
THEOREM SameIdentity ==
  Calm /\ WithoutRecreate /\ Exports = {TRUE} => (TSpec => []OneIdentity)
  <1> SUFFICES ASSUME Calm, WithoutRecreate, Exports = {TRUE}
               PROVE  TSpec => []OneIdentity
    OBVIOUS
  <1>1. TInit => SameTags /\ Owned
    <2> SUFFICES ASSUME TInit PROVE SameTags /\ Owned
      OBVIOUS
    <2>1. Worn = {}
      BY DEF TInit, Worn, Sites
    <2>2. Owned
      BY DEF TInit, Init, Owned, NothingOrphaned
    <2> QED
      BY <2>1, <2>2, TagTypesInit
      DEF TInit, Sites, SameTags, OneIdentity, SeededLate, Blank, Untouched
  <1>2. Carried /\ Carried' /\ Owned /\ SameTags /\ [TNext]_tvars => SameTags'
    BY SameTagsStep
  <1>3. Carried /\ Owned /\ [TNext]_tvars => Owned'
    BY OwnedStep, PivotSteps DEF Carried
  <1>4. SameTags => OneIdentity
    BY DEF SameTags
  <1> QED
    BY CarriedInvariance, <1>1, <1>2, <1>3, <1>4, PTL DEF TSpec

---------------------------------------------------------------------------
(* The dates. The conversions are functions defined recursively, and what  *)
(* they compute follows by induction: a year or a month at a time they add *)
(* up to the days before it, which have closed forms.                      *)

(* Induction on a set of numbers; the induction theorems of the library    *)
(* take an operator.                                                       *)
LEMMA Inductive ==
  ASSUME NEW S, 0 \in S, \A n \in Nat : n \in S => n + 1 \in S
  PROVE  Nat \subseteq S
  <1> SUFFICES ASSUME Nat \ S # {} PROVE FALSE
    OBVIOUS
  <1> DEFINE Below == OpToRel(<, Nat)
  <1>1. IsWellFoundedOn(Below, Nat)
    BY NatLessThanWellFounded
  <1>2. \A a, b \in Nat : a < b => <<a, b>> \in Below
    BY DEF OpToRel
  <1> HIDE DEF Below
  <1>3. PICK x \in Nat \ S : \A y \in Nat \ S : ~(<<y, x>> \in Below)
    BY <1>1, WFMin
  <1>4. x # 0 /\ x - 1 \in Nat
    <2>1. x \in Nat /\ x \notin S
      OBVIOUS
    <2> QED
      BY <2>1
  <1>5. <<x - 1, x>> \in Below
    BY <1>2, <1>4
  <1>6. x - 1 \in S
    BY <1>3, <1>4, <1>5
  <1>7. x - 1 + 1 \in S /\ x - 1 + 1 = x
    BY <1>4, <1>6
  <1> QED
    BY <1>7

(* The days before the first of January of a year, from the year 0 on, and *)
(* those before the first of a month in its year.                          *)
Jan1(y) == 365 * y + (y - 1) \div 4 - (y - 1) \div 100 + (y - 1) \div 400

First(y, m) ==
  IF m <= 2 THEN 31 * (m - 1)
  ELSE 59 + (153 * (m - 3) + 2) \div 5 + (IF Leap(y) THEN 1 ELSE 0)

LEMMA YearTypes == \A y \in Nat : Jan1(y) \in Int /\ DaysInYear(y) \in {365, 366}
  BY DEF Jan1, DaysInYear

LEMMA YearsAdd == \A y \in Nat : Jan1(y + 1) = Jan1(y) + DaysInYear(y)
  BY DEF Jan1, DaysInYear, Leap

LEMMA YearsFollow == \A y, z \in Nat : y < z => Jan1(y + 1) <= Jan1(z)
  BY DEF Jan1

LEMMA CyclesAdd ==
  \A y, n \in Nat : Jan1(y + 400 * n) = Jan1(y) + DaysPer400Years * n
  BY DEF Jan1, DaysPer400Years

LEMMA FirstType == \A y \in Nat, m \in 1 .. 13 : First(y, m) \in Nat
  BY DEF First

LEMMA MonthTypes == \A y \in Nat, m \in 1 .. 12 : DaysInMonth(y, m) \in 28 .. 31
  BY DEF DaysInMonth

LEMMA MonthsAdd ==
  \A y \in Nat, m \in 1 .. 12 : First(y, m + 1) = First(y, m) + DaysInMonth(y, m)
  BY DEF First, DaysInMonth

LEMMA MonthsFollow ==
  \A y \in Nat, m, n \in 1 .. 13 : m < n => First(y, m + 1) <= First(y, n)
  BY DEF First

LEMMA YearOfMonths == \A y \in Nat : First(y, 1) = 0 /\ First(y, 13) = DaysInYear(y)
  BY DEF First, DaysInYear

(* What the recursive definitions say of themselves, which holds as there  *)
(* are functions that satisfy them.                                        *)
LEMMA YearLoopDef ==
  \A at \in Nat \X Nat :
    YearLoop[at] = IF at[2] < DaysInYear(at[1]) THEN at
                   ELSE YearLoop[<<at[1] + 1, at[2] - DaysInYear(at[1])>>]
  <1> DEFINE Pass(f, at) == IF at[2] < DaysInYear(at[1]) THEN at
                            ELSE f[<<at[1] + 1, at[2] - DaysInYear(at[1])>>]
             Body(f) == [at \in Nat \X Nat |-> Pass(f, at)]
             Year(n) == CHOOSE y \in Nat : Jan1(y) <= n /\ n < Jan1(y + 1)
             Out(n)  == <<Year(n), n - Jan1(Year(n))>>
             Value(at) == Out(Jan1(at[1]) + at[2])
             closed  == [at \in Nat \X Nat |-> Value(at)]
  <1>1. closed = Body(closed)
    <2> HIDE DEF Pass, Value
    <2> SUFFICES ASSUME NEW at \in Nat \X Nat PROVE closed[at] = Body(closed)[at]
      OBVIOUS
    <2> USE DEF Pass, Value
    <2> DEFINE y == at[1]
               d == at[2]
    <2>1. y \in Nat /\ d \in Nat /\ at = <<y, d>>
      OBVIOUS
    <2>2. closed[at] = Out(Jan1(y) + d)
      OBVIOUS
    <2> HIDE DEF y, d
    <2>3. CASE d < DaysInYear(y)
      <3>1. Jan1(y) <= Jan1(y) + d /\ Jan1(y) + d < Jan1(y + 1)
        BY <2>1, <2>3, YearTypes, YearsAdd
      <3>2. \A z \in Nat : Jan1(z) <= Jan1(y) + d /\ Jan1(y) + d < Jan1(z + 1)
                           => z = y
        BY <2>1, <3>1, YearTypes, YearsFollow
      <3>3. Year(Jan1(y) + d) = y
        BY <2>1, <3>1, <3>2
      <3>5. Out(Jan1(y) + d) = <<y, d>>
        <4> DEFINE n == Jan1(y) + d
        <4>1. Year(n) = y /\ n - Jan1(y) = d
          BY <2>1, <3>3, YearTypes
        <4> HIDE DEF n, Year
        <4>2. Out(n) = <<y, d>>
          BY <4>1
        <4> QED
          BY <4>2 DEF n
      <3> QED
        BY <2>1, <2>2, <2>3, <3>5 DEF y, d
    <2>4. CASE ~(d < DaysInYear(y))
      <3>1. <<y + 1, d - DaysInYear(y)>> \in Nat \X Nat
        BY <2>1, <2>4, YearTypes
      <3>2. Jan1(y + 1) + (d - DaysInYear(y)) = Jan1(y) + d
        BY <2>1, YearTypes, YearsAdd
      <3> HIDE DEF Out
      <3>3. closed[<<y + 1, d - DaysInYear(y)>>] = Out(Jan1(y) + d)
        BY <3>1, <3>2
      <3> QED
        BY <2>1, <2>2, <2>4, <3>3 DEF y, d
    <2> QED
      BY <2>3, <2>4
  <1>2. YearLoop = CHOOSE f : f = Body(f)
    BY DEF YearLoop
  <1>3. YearLoop = Body(YearLoop)
    <2> HIDE DEF Body, closed
    <2> QED
      BY <1>1, <1>2
  <1> QED
    BY <1>3

LEMMA MonthLoopDef ==
  \A at \in Nat \X (1 .. 13) \X Nat :
    MonthLoop[at] =
      IF at[2] = 13 \/ at[3] < DaysInMonth(at[1], at[2]) THEN at
      ELSE MonthLoop[<<at[1], at[2] + 1, at[3] - DaysInMonth(at[1], at[2])>>]
  <1> DEFINE Pass(f, at) ==
               IF at[2] = 13 \/ at[3] < DaysInMonth(at[1], at[2]) THEN at
               ELSE f[<<at[1], at[2] + 1, at[3] - DaysInMonth(at[1], at[2])>>]
             Body(f) == [at \in Nat \X (1 .. 13) \X Nat |-> Pass(f, at)]
             Month(y, n) == CHOOSE m \in 1 .. 13 :
                              First(y, m) <= n /\ (m = 13 \/ n < First(y, m + 1))
             Out(y, n) == <<y, Month(y, n), n - First(y, Month(y, n))>>
             Value(at) == Out(at[1], First(at[1], at[2]) + at[3])
             closed == [at \in Nat \X (1 .. 13) \X Nat |-> Value(at)]
  <1>1. closed = Body(closed)
    <2> HIDE DEF Pass, Value
    <2> SUFFICES ASSUME NEW at \in Nat \X (1 .. 13) \X Nat
                 PROVE  closed[at] = Body(closed)[at]
      OBVIOUS
    <2> USE DEF Pass, Value
    <2> DEFINE y == at[1]
               m == at[2]
               d == at[3]
    <2>1. y \in Nat /\ m \in 1 .. 13 /\ d \in Nat /\ at = <<y, m, d>>
      OBVIOUS
    <2>2. closed[at] = Out(y, First(y, m) + d)
      OBVIOUS
    <2> HIDE DEF y, m, d, Body, closed
    <2>5. m = 13 \/ m \in 1 .. 12
      BY <2>1
    <2>6. m # 13 => First(y, m + 1) = First(y, m) + DaysInMonth(y, m)
      BY <2>1, <2>5, MonthsAdd
    <2>7. First(y, m) \in Nat
      BY <2>1, FirstType
    <2>8. m # 13 => DaysInMonth(y, m) \in Nat
      BY <2>1, <2>5, MonthTypes
    <2>3. CASE m = 13 \/ d < DaysInMonth(y, m)
      <3>1. /\ First(y, m) <= First(y, m) + d
            /\ m = 13 \/ First(y, m) + d < First(y, m + 1)
        BY <2>1, <2>3, <2>6, <2>7, <2>8
      <3>2. \A n \in 1 .. 13 :
              /\ First(y, n) <= First(y, m) + d
              /\ n = 13 \/ First(y, m) + d < First(y, n + 1)
              => n = m
        <4> SUFFICES ASSUME NEW n \in 1 .. 13, n # m,
                            First(y, n) <= First(y, m) + d,
                            n = 13 \/ First(y, m) + d < First(y, n + 1)
                     PROVE  FALSE
          OBVIOUS
        <4>1. First(y, n) \in Nat
          BY <2>1, FirstType
        <4>2. CASE m < n
          <5>1. First(y, m + 1) <= First(y, n) /\ m # 13
            BY <2>1, <4>2, MonthsFollow
          <5>2. m + 1 \in 1 .. 13
            BY <2>5, <5>1
          <5>3. First(y, m + 1) \in Nat
            BY <2>1, <5>2, FirstType
          <5> QED
            BY <2>1, <2>7, <3>1, <4>1, <5>1, <5>3
        <4>3. CASE n < m
          <5>1. First(y, n + 1) <= First(y, m) /\ n # 13
            BY <2>1, <4>3, MonthsFollow
          <5>2. n + 1 \in 1 .. 13
            BY <5>1
          <5>3. First(y, n + 1) \in Nat
            BY <2>1, <5>2, FirstType
          <5> QED
            BY <2>1, <2>7, <5>1, <5>3
        <4> QED
          BY <2>1, <4>2, <4>3
      <3>3. Month(y, First(y, m) + d) = m
        BY <2>1, <3>1, <3>2
      <3>5. Out(y, First(y, m) + d) = <<y, m, d>>
        <4> DEFINE n == First(y, m) + d
        <4>1. Month(y, n) = m /\ n - First(y, m) = d
          BY <2>1, <2>7, <3>3
        <4> HIDE DEF n, Month
        <4>2. Out(y, n) = <<y, m, d>>
          BY <4>1
        <4> QED
          BY <4>2 DEF n
      <3> QED
        BY <2>1, <2>2, <2>3, <3>5 DEF y, m, d, Body
    <2>4. CASE ~(m = 13 \/ d < DaysInMonth(y, m))
      <3>1. <<y, m + 1, d - DaysInMonth(y, m)>> \in Nat \X (1 .. 13) \X Nat
        BY <2>1, <2>4, <2>5, MonthTypes
      <3>2. First(y, m + 1) + (d - DaysInMonth(y, m)) = First(y, m) + d
        BY <2>1, <2>4, <2>6, <2>7, <2>8
      <3> HIDE DEF Out
      <3>3. closed[<<y, m + 1, d - DaysInMonth(y, m)>>] = Out(y, First(y, m) + d)
        BY <3>1, <3>2 DEF closed
      <3> QED
        BY <2>1, <2>2, <2>4, <3>3 DEF y, m, d, Body
    <2> QED
      BY <2>3, <2>4
  <1>2. MonthLoop = CHOOSE f : f = Body(f)
    BY DEF MonthLoop
  <1>3. MonthLoop = Body(MonthLoop)
    <2> HIDE DEF Body, closed
    <2> QED
      BY <1>1, <1>2
  <1> QED
    BY <1>3

LEMMA DaysBeforeYearDef ==
  \A y \in Nat :
    DaysBeforeYear[y] =
      IF y <= 1970 THEN 0 ELSE DaysBeforeYear[y - 1] + DaysInYear(y - 1)
  <1> DEFINE Body(f) == [y \in Nat |->
                           IF y <= 1970 THEN 0 ELSE f[y - 1] + DaysInYear(y - 1)]
             closed  == [y \in Nat |->
                           IF y <= 1970 THEN 0 ELSE Jan1(y) - Jan1(1970)]
  <1>1. closed = Body(closed)
    <2> SUFFICES ASSUME NEW y \in Nat PROVE closed[y] = Body(closed)[y]
      OBVIOUS
    <2>1. 1970 < y => y - 1 \in Nat /\ Jan1(y) = Jan1(y - 1) + DaysInYear(y - 1)
      BY YearsAdd
    <2>2. 1970 < y => closed[y - 1] = Jan1(y - 1) - Jan1(1970)
      BY YearTypes
    <2> QED
      BY <2>1, <2>2, YearTypes
  <1>2. DaysBeforeYear = CHOOSE f : f = Body(f)
    BY DEF DaysBeforeYear
  <1>3. DaysBeforeYear = Body(DaysBeforeYear)
    <2> HIDE DEF Body, closed
    <2> QED
      BY <1>1, <1>2
  <1> QED
    BY <1>3

LEMMA DaysBeforeMonthDef ==
  \A y \in Nat, m \in 1 .. 12 :
    DaysBeforeMonth[<<y, m>>] =
      IF m = 1 THEN 0 ELSE DaysBeforeMonth[<<y, m - 1>>] + DaysInMonth(y, m - 1)
  <1> DEFINE Body(f) ==
        [at \in Nat \X (1 .. 12) |->
           IF at[2] = 1 THEN 0
           ELSE f[<<at[1], at[2] - 1>>] + DaysInMonth(at[1], at[2] - 1)]
             closed == [at \in Nat \X (1 .. 12) |-> First(at[1], at[2])]
  <1>1. closed = Body(closed)
    <2> SUFFICES ASSUME NEW at \in Nat \X (1 .. 12)
                 PROVE  closed[at] = Body(closed)[at]
      OBVIOUS
    <2> DEFINE y == at[1]
               m == at[2]
    <2>1. y \in Nat /\ m \in 1 .. 12 /\ at = <<y, m>>
      OBVIOUS
    <2> HIDE DEF y, m
    <2>2. CASE m = 1
      BY <2>1, <2>2, YearOfMonths DEF y, m
    <2>3. CASE m # 1
      <3>1. m - 1 \in 1 .. 12 /\ m - 1 + 1 = m
        BY <2>1, <2>3
      <3>2. First(y, m) = First(y, m - 1) + DaysInMonth(y, m - 1)
        BY <2>1, <3>1, MonthsAdd
      <3>3. closed[<<y, m - 1>>] = First(y, m - 1)
        BY <2>1, <3>1
      <3> QED
        BY <2>1, <2>3, <3>2, <3>3 DEF y, m
    <2> QED
      BY <2>2, <2>3
  <1>2. DaysBeforeMonth = CHOOSE f : f = Body(f)
    BY DEF DaysBeforeMonth
  <1>3. DaysBeforeMonth = Body(DaysBeforeMonth)
    <2> HIDE DEF Body, closed
    <2> QED
      BY <1>1, <1>2
  <1> QED
    <2> SUFFICES ASSUME NEW y \in Nat, NEW m \in 1 .. 12
                 PROVE DaysBeforeMonth[<<y, m>>] = Body(DaysBeforeMonth)[<<y, m>>]
      OBVIOUS
    <2> QED
      BY <1>3

(* What they compute: the parser's sums,                                   *)
LEMMA DaysBeforeYearIs ==
  \A y \in Nat : 1970 <= y => DaysBeforeYear[y] = Jan1(y) - Jan1(1970)
  <1> DEFINE S == {n \in Nat : DaysBeforeYear[1970 + n] = Jan1(1970 + n) - Jan1(1970)}
  <1>1. 0 \in S
    BY DaysBeforeYearDef, YearTypes
  <1>2. ASSUME NEW n \in Nat, n \in S PROVE n + 1 \in S
    <2>1. DaysBeforeYear[1970 + n] = Jan1(1970 + n) - Jan1(1970)
      BY <1>2
    <2>2. /\ 1970 + (n + 1) \in Nat /\ ~(1970 + (n + 1) <= 1970)
          /\ 1970 + (n + 1) - 1 = 1970 + n /\ 1970 + n + 1 = 1970 + (n + 1)
          /\ 1970 + n \in Nat
      OBVIOUS
    <2>3. Jan1(1970 + (n + 1)) = Jan1(1970 + n) + DaysInYear(1970 + n)
      BY <2>2, YearsAdd
    <2>4. DaysBeforeYear[1970 + (n + 1)] = DaysBeforeYear[1970 + n] + DaysInYear(1970 + n)
      BY <2>2, DaysBeforeYearDef
    <2> QED
      BY <2>1, <2>2, <2>3, <2>4, YearTypes
  <1>3. Nat \subseteq S
    <2> HIDE DEF S
    <2> QED
      BY <1>1, <1>2, Inductive
  <1> SUFFICES ASSUME NEW y \in Nat, 1970 <= y
               PROVE  DaysBeforeYear[y] = Jan1(y) - Jan1(1970)
    OBVIOUS
  <1>4. y - 1970 \in Nat /\ 1970 + (y - 1970) = y
    OBVIOUS
  <1>5. y - 1970 \in S
    BY <1>3, <1>4
  <1> QED
    BY <1>4, <1>5

LEMMA DaysBeforeMonthIs ==
  \A y \in Nat, m \in 1 .. 12 : DaysBeforeMonth[<<y, m>>] = First(y, m)
  <1> SUFFICES ASSUME NEW y \in Nat
               PROVE  \A m \in 1 .. 12 : DaysBeforeMonth[<<y, m>>] = First(y, m)
    OBVIOUS
  <1> DEFINE S == {n \in Nat : n < 12 => DaysBeforeMonth[<<y, n + 1>>] = First(y, n + 1)}
  <1>1. 0 \in S
    <2>1. DaysBeforeMonth[<<y, 1>>] = 0
      <3>1. \A m \in 1 .. 12 : m = 1 => DaysBeforeMonth[<<y, m>>] = 0
        BY DaysBeforeMonthDef
      <3> QED
        BY <3>1
    <2> QED
      BY <2>1, YearOfMonths
  <1>2. ASSUME NEW n \in Nat, n \in S PROVE n + 1 \in S
    <2> SUFFICES ASSUME n + 1 < 12
                 PROVE  DaysBeforeMonth[<<y, n + 1 + 1>>] = First(y, n + 1 + 1)
      OBVIOUS
    <2>1. DaysBeforeMonth[<<y, n + 1>>] = First(y, n + 1)
      BY <1>2
    <2>2. /\ n + 1 \in 1 .. 12 /\ n + 1 + 1 \in 1 .. 12 /\ n + 1 + 1 # 1
          /\ n + 1 + 1 - 1 = n + 1
      OBVIOUS
    <2>3. DaysBeforeMonth[<<y, n + 1 + 1>>]
            = DaysBeforeMonth[<<y, n + 1>>] + DaysInMonth(y, n + 1)
      <3> DEFINE k == n + 1 + 1
      <3>1. k \in 1 .. 12 /\ k # 1 /\ k - 1 = n + 1
        BY <2>2
      <3> HIDE DEF k
      <3>2. DaysBeforeMonth[<<y, k>>] = DaysBeforeMonth[<<y, k - 1>>] + DaysInMonth(y, k - 1)
        BY <3>1, DaysBeforeMonthDef
      <3> QED
        BY <3>1, <3>2 DEF k
    <2> QED
      BY <2>1, <2>2, <2>3, MonthsAdd
  <1>3. Nat \subseteq S
    <2> HIDE DEF S
    <2> QED
      BY <1>1, <1>2, Inductive
  <1> SUFFICES ASSUME NEW m \in 1 .. 12
               PROVE  DaysBeforeMonth[<<y, m>>] = First(y, m)
    OBVIOUS
  <1>4. m - 1 \in Nat /\ m - 1 < 12 /\ m - 1 + 1 = m
    OBVIOUS
  <1>5. m - 1 \in S
    BY <1>3, <1>4
  <1> QED
    BY <1>4, <1>5

(* the loops' last year and month,                                         *)
LEMMA YearLoopIs ==
  ASSUME NEW y \in Nat, NEW d \in Nat, d < DaysInYear(y),
         NEW s \in Nat, s <= y
  PROVE  YearLoop[<<s, Jan1(y) - Jan1(s) + d>>] = <<y, d>>
  <1> DEFINE Left(x) == Jan1(y) - Jan1(x) + d
             S == {n \in Nat : n <= y => YearLoop[<<y - n, Left(y - n)>>] = <<y, d>>}
  <1>1. 0 \in S
    <2>1. Left(y) = d /\ y - 0 = y
      BY YearTypes
    <2>2. YearLoop[<<y, d>>] = <<y, d>>
      BY YearLoopDef
    <2> QED
      BY <2>1, <2>2
  <1>2. ASSUME NEW n \in Nat, n \in S PROVE n + 1 \in S
    <2> SUFFICES ASSUME n + 1 <= y
                 PROVE  YearLoop[<<y - (n + 1), Left(y - (n + 1))>>] = <<y, d>>
      OBVIOUS
    <2> DEFINE x == y - (n + 1)
    <2>1. x \in Nat /\ x + 1 = y - n /\ x < y
      OBVIOUS
    <2>2. YearLoop[<<x + 1, Left(x + 1)>>] = <<y, d>>
      BY <1>2, <2>1
    <2> HIDE DEF x
    <2>3. Jan1(x) \in Int /\ Jan1(y) \in Int /\ DaysInYear(x) \in Nat
      BY <2>1, YearTypes
    <2>4. Jan1(x + 1) = Jan1(x) + DaysInYear(x) /\ Jan1(x + 1) <= Jan1(y)
      BY <2>1, YearsAdd, YearsFollow
    <2>5. /\ Left(x) \in Nat /\ ~(Left(x) < DaysInYear(x))
          /\ Left(x) - DaysInYear(x) = Left(x + 1)
      BY <2>3, <2>4
    <2> HIDE DEF Left
    <2>6. YearLoop[<<x, Left(x)>>] = YearLoop[<<x + 1, Left(x) - DaysInYear(x)>>]
      BY <2>1, <2>5, YearLoopDef
    <2> QED
      BY <2>2, <2>5, <2>6 DEF x
  <1>3. y - s \in Nat /\ y - s <= y /\ y - (y - s) = s
    OBVIOUS
  <1>4. y - s \in S
    <2> HIDE DEF S
    <2>1. Nat \subseteq S
      BY <1>1, <1>2, Inductive
    <2> QED
      BY <2>1, <1>3
  <1> QED
    BY <1>3, <1>4

LEMMA MonthLoopIs ==
  ASSUME NEW y \in Nat, NEW m \in 1 .. 12, NEW d \in Nat, d < DaysInMonth(y, m)
  PROVE  MonthLoop[<<y, 1, First(y, m) + d>>] = <<y, m, d>>
  <1> DEFINE Left(x) == First(y, m) - First(y, x) + d
             S == {n \in Nat : n < m => MonthLoop[<<y, m - n, Left(m - n)>>] = <<y, m, d>>}
  <1>0. m \in 1 .. 13 /\ First(y, m) \in Nat
    <2>1. m \in 1 .. 13
      OBVIOUS
    <2> QED
      BY <2>1, FirstType
  <1>1. 0 \in S
    <2>1. Left(m) = d /\ m - 0 = m
      BY <1>0
    <2>2. MonthLoop[<<y, m, d>>] = <<y, m, d>>
      <3> DEFINE at == <<y, m, d>>
      <3>1. /\ at \in Nat \X (1 .. 13) \X Nat
            /\ at[1] = y /\ at[2] = m /\ at[3] = d
        BY <1>0
      <3> HIDE DEF at
      <3>2. MonthLoop[at] = at
        BY <3>1, MonthLoopDef
      <3> QED
        BY <3>2 DEF at
    <2> QED
      BY <2>1, <2>2
  <1>2. ASSUME NEW n \in Nat, n \in S PROVE n + 1 \in S
    <2> SUFFICES ASSUME n + 1 < m
                 PROVE  MonthLoop[<<y, m - (n + 1), Left(m - (n + 1))>>] = <<y, m, d>>
      OBVIOUS
    <2> DEFINE x == m - (n + 1)
    <2>1. x \in 1 .. 12 /\ x \in 1 .. 13 /\ x + 1 = m - n /\ x < m /\ x # 13
      OBVIOUS
    <2>2. MonthLoop[<<y, x + 1, Left(x + 1)>>] = <<y, m, d>>
      BY <1>2, <2>1
    <2> HIDE DEF x
    <2>3. First(y, x) \in Nat
      BY <2>1, FirstType
    <2>4. DaysInMonth(y, x) \in Nat
      BY <2>1, MonthTypes
    <2>5. First(y, x + 1) = First(y, x) + DaysInMonth(y, x)
      BY <2>1, MonthsAdd
    <2>6. First(y, x + 1) <= First(y, m)
      BY <2>1, MonthsFollow
    <2>7. /\ Left(x) \in Nat /\ ~(Left(x) < DaysInMonth(y, x))
          /\ Left(x) - DaysInMonth(y, x) = Left(x + 1)
      BY <1>0, <2>3, <2>4, <2>5, <2>6
    <2> HIDE DEF Left
    <2>8. MonthLoop[<<y, x, Left(x)>>]
            = MonthLoop[<<y, x + 1, Left(x) - DaysInMonth(y, x)>>]
      <3> DEFINE at == <<y, x, Left(x)>>
      <3>1. at \in Nat \X (1 .. 13) \X Nat
        BY <2>1, <2>7
      <3>2. at[1] = y /\ at[2] = x /\ at[3] = Left(x)
        OBVIOUS
      <3> HIDE DEF at
      <3>3. MonthLoop[at]
              = MonthLoop[<<at[1], at[2] + 1, at[3] - DaysInMonth(at[1], at[2])>>]
        BY <2>1, <2>7, <3>1, <3>2, MonthLoopDef
      <3> QED
        BY <3>2, <3>3 DEF at
    <2> QED
      BY <2>2, <2>7, <2>8 DEF x
  <1>3. m - 1 \in Nat /\ m - 1 < m /\ m - (m - 1) = 1
    OBVIOUS
  <1>4. m - 1 \in S
    <2> HIDE DEF S
    <2>1. Nat \subseteq S
      BY <1>1, <1>2, Inductive
    <2> QED
      BY <2>1, <1>3
  <1>5. Left(1) = First(y, m) + d
    BY <1>0, YearOfMonths
  <1> HIDE DEF Left
  <1> QED
    BY <1>3, <1>4, <1>5

(* and the reference.                                                      *)
LEMMA DayNumberIs ==
  ASSUME NEW y \in Nat, 1970 <= y, NEW m \in 1 .. 12, NEW d \in Nat
  PROVE  DayNumber(<<y, m, d>>) = Jan1(y) - Jan1(1970) + First(y, m) + d - 1
  BY DEF DayNumber, Jan1, First, Leap

(* The two formatters and the parser agree with the Gregorian calendar on  *)
(* every date from 1970 on                                                 *)
(* (run_tags.rs 165-225, orphans.rs 93-206 and 828-896).                   *)
THEOREM EveryDate == \A date \in Dates : Exact(date)
  <1> SUFFICES ASSUME NEW date \in Dates PROVE Exact(date)
    OBVIOUS
  <1> DEFINE y == date[1]
             m == date[2]
             e == date[3] - 1
             day == DayNumber(date)
  <1>1. /\ y \in Nat /\ 1970 <= y /\ m \in 1 .. 12 /\ e \in Nat
        /\ e < DaysInMonth(y, m) /\ date = <<y, m, e + 1>>
    BY MonthTypes DEF Dates
  <1> HIDE DEF y, m, e
  <1>2. y \in Nat /\ m \in 1 .. 12 /\ m \in 1 .. 13 /\ m + 1 \in 1 .. 13
    BY <1>1
  <1>3. First(y, m) \in Nat /\ DaysInMonth(y, m) \in Nat /\ DaysInYear(y) \in Nat
    <2>1. First(y, m) \in Nat
      BY <1>2, FirstType
    <2>2. DaysInMonth(y, m) \in Nat
      BY <1>2, MonthTypes
    <2> QED
      BY <1>2, <2>1, <2>2, YearTypes
  <1>4. First(y, m) + e < DaysInYear(y)
    <2>1. First(y, m + 1) = First(y, m) + DaysInMonth(y, m)
      BY <1>1, MonthsAdd
    <2>2. First(y, m + 1) <= First(y, 13)
      BY <1>1, <1>2, MonthsFollow
    <2> QED
      BY <1>1, <1>3, <2>1, <2>2, YearOfMonths
  <1> DEFINE n == First(y, m) + e
  <1>5. n \in Nat
    BY <1>1, <1>3
  <1>6. day = Jan1(y) - Jan1(1970) + n
    <2>1. day = Jan1(y) - Jan1(1970) + First(y, m) + (e + 1) - 1
      BY <1>1, DayNumberIs
    <2> QED
      BY <1>1, <1>3, <2>1, YearTypes
  <1>7. DateAfter(<<y, n>>) = date
    <2>1. MonthLoop[<<y, 1, n>>] = <<y, m, e>>
      <3>1. y \in Nat /\ m \in 1 .. 12 /\ e \in Nat /\ e < DaysInMonth(y, m)
        BY <1>1
      <3> QED
        BY <3>1, MonthLoopIs
    <2> HIDE DEF n
    <2> QED
      BY <1>1, <2>1 DEF DateAfter
  <1>8. Iso8601(date) = day
    <2>1. DaysBeforeYear[y] = Jan1(y) - Jan1(1970)
      BY <1>1, DaysBeforeYearIs
    <2>2. DaysBeforeMonth[<<y, m>>] = First(y, m)
      BY <1>2, DaysBeforeMonthIs
    <2>3. date[1] = y /\ date[2] = m /\ date[3] = e + 1
      BY <1>1
    <2>4. Iso8601(date) = Jan1(y) - Jan1(1970) + First(y, m) + (e + 1) - 1
      BY <2>1, <2>2, <2>3 DEF Iso8601
    <2> HIDE DEF day
    <2> QED
      BY <1>1, <1>3, <1>6, <2>4, YearTypes
  <1> HIDE DEF day, n
  <1>9. Rfc3339(day) = date
    <2>1. YearLoop[<<1970, Jan1(y) - Jan1(1970) + n>>] = <<y, n>>
      BY <1>1, <1>4, <1>5, YearLoopIs DEF n
    <2> QED
      BY <1>6, <1>7, <2>1 DEF Rfc3339
  <1>10. ReportDate(day) = date
    <2> DEFINE c == day \div DaysPer400Years
               s == 1970 + 400 * c
    <2>1. /\ Jan1(y) \in Int /\ Jan1(1970) \in Int
          /\ Jan1(y + 1) = Jan1(y) + DaysInYear(y)
      BY <1>1, YearTypes, YearsAdd
    <2>2. Jan1(1970) <= Jan1(y)
      BY <1>1 DEF Jan1
    <2>3. day \in Nat
      BY <1>5, <1>6, <2>1, <2>2
    <2>4. /\ c \in Nat /\ s \in Nat
          /\ day % DaysPer400Years = day - DaysPer400Years * c
          /\ DaysPer400Years * c <= day
      BY <2>3 DEF DaysPer400Years
    <2> HIDE DEF c
    <2>5. Jan1(s) = Jan1(1970) + DaysPer400Years * c
      BY <2>4, CyclesAdd
    <2>6. DaysPer400Years * c \in Int
      BY <2>4 DEF DaysPer400Years
    <2> HIDE DEF s
    <2>7. s <= y
      <3>1. Jan1(s) < Jan1(y + 1)
        BY <1>3, <1>4, <1>5, <1>6, <2>1, <2>4, <2>5, <2>6 DEF n
      <3>2. y < s => Jan1(y + 1) <= Jan1(s)
        BY <1>1, <2>4, YearsFollow
      <3>3. Jan1(s) \in Int /\ Jan1(y + 1) \in Int
        BY <1>1, <2>4, YearTypes
      <3> QED
        BY <1>1, <2>4, <3>1, <3>2, <3>3
    <2>8. day % DaysPer400Years = Jan1(y) - Jan1(s) + n
      BY <1>5, <1>6, <2>1, <2>3, <2>4, <2>5, <2>6
    <2>9. YearLoop[<<s, Jan1(y) - Jan1(s) + n>>] = <<y, n>>
      BY <1>1, <1>4, <1>5, <2>4, <2>7, YearLoopIs DEF n
    <2> QED
      BY <1>7, <2>8, <2>9 DEF ReportDate, c, s
  <1> QED
    BY <1>8, <1>9, <1>10 DEF Exact, day

(* Conversely every day since the epoch is a date, the one the two         *)
(* formatters write and the parser reads back: no expiry is malformed, and *)
(* no two days have the same (run_tags.rs 155-225, orphans.rs 93-206 and   *)
(* 828-896).                                                               *)
THEOREM EveryDay ==
  \A day \in Nat :
    /\ Rfc3339(day) \in Dates /\ DayNumber(Rfc3339(day)) = day
    /\ Iso8601(Rfc3339(day)) = day
    /\ ReportDate(day) = Rfc3339(day)
  <1> DEFINE S == {n \in Nat : \E date \in Dates : DayNumber(date) = n}
  <1>1. 0 \in S
    <2>1. <<1970, 1, 1>> \in Dates
      BY DEF Dates, DaysInMonth
    <2>2. DayNumber(<<1970, 1, 1>>) = 0
      BY DEF DayNumber
    <2> QED
      BY <2>1, <2>2
  <1>2. ASSUME NEW n \in Nat, n \in S PROVE n + 1 \in S
    <2>1. PICK date \in Dates : DayNumber(date) = n
      BY <1>2
    <2> DEFINE y == date[1]
               m == date[2]
               d == date[3]
    <2>2. /\ y \in Nat /\ 1970 <= y /\ m \in 1 .. 12 /\ d \in Nat /\ 1 <= d
          /\ d <= DaysInMonth(y, m) /\ date = <<y, m, d>>
      BY MonthTypes DEF Dates
    <2> HIDE DEF y, m, d
    <2>3. n = Jan1(y) - Jan1(1970) + First(y, m) + d - 1
      BY <2>1, <2>2, DayNumberIs
    <2>4. y \in Nat /\ m \in 1 .. 12 /\ m \in 1 .. 13 /\ d \in Nat
      BY <2>2
    <2>5. Jan1(y) \in Int /\ Jan1(1970) \in Int
      BY <2>4, YearTypes
    <2>6. First(y, m) \in Nat
      BY <2>4, FirstType
    <2>7. DaysInMonth(y, m) \in 28 .. 31
      BY <2>4, MonthTypes
    <2>8. CASE d < DaysInMonth(y, m)
      <3>1. <<y, m, d + 1>> \in Dates
        BY <2>2, <2>7, <2>8 DEF Dates
      <3>2. d + 1 \in Nat
        BY <2>4
      <3>3. DayNumber(<<y, m, d + 1>>) = Jan1(y) - Jan1(1970) + First(y, m) + (d + 1) - 1
        BY <2>2, <2>4, <3>2, DayNumberIs
      <3>4. DayNumber(<<y, m, d + 1>>) = n + 1
        BY <2>3, <2>4, <2>5, <2>6, <3>3
      <3> QED
        BY <3>1, <3>4
    <2>9. CASE d = DaysInMonth(y, m) /\ m < 12
      <3>1. m + 1 \in 1 .. 12
        BY <2>4, <2>9
      <3>2. DaysInMonth(y, m + 1) \in 28 .. 31
        BY <2>4, <3>1, MonthTypes
      <3>3. <<y, m + 1, 1>> \in Dates
        BY <2>2, <3>1, <3>2 DEF Dates
      <3>4. DayNumber(<<y, m + 1, 1>>) = Jan1(y) - Jan1(1970) + First(y, m + 1) + 1 - 1
        BY <2>2, <2>4, <3>1, DayNumberIs
      <3>5. First(y, m + 1) = First(y, m) + DaysInMonth(y, m)
        BY <2>4, MonthsAdd
      <3>6. DayNumber(<<y, m + 1, 1>>) = n + 1
        BY <2>3, <2>4, <2>5, <2>6, <2>7, <2>9, <3>4, <3>5
      <3> QED
        BY <3>3, <3>6
    <2>10. CASE d = DaysInMonth(y, m) /\ m = 12
      <3>1. y + 1 \in Nat /\ 1970 <= y + 1 /\ 12 + 1 = 13
        BY <2>2
      <3>2. <<y + 1, 1, 1>> \in Dates
        BY <3>1 DEF Dates, DaysInMonth
      <3>3. DayNumber(<<y + 1, 1, 1>>) = Jan1(y + 1) - Jan1(1970) + First(y + 1, 1) + 1 - 1
        BY <3>1, DayNumberIs
      <3>4. First(y + 1, 1) = 0 /\ First(y, 13) = DaysInYear(y)
        BY <2>4, <3>1, YearOfMonths
      <3>5. First(y, 13) = First(y, 12) + DaysInMonth(y, 12)
        BY <2>4, <3>1, MonthsAdd
      <3>6. Jan1(y + 1) = Jan1(y) + DaysInYear(y)
        BY <2>4, YearsAdd
      <3>7. DayNumber(<<y + 1, 1, 1>>) = n + 1
        BY <2>3, <2>4, <2>5, <2>6, <2>7, <2>10, <3>3, <3>4, <3>5, <3>6
      <3> QED
        BY <3>2, <3>7
    <2> QED
      BY <2>2, <2>7, <2>8, <2>9, <2>10
  <1>3. Nat \subseteq S
    <2> HIDE DEF S
    <2> QED
      BY <1>1, <1>2, Inductive
  <1> SUFFICES ASSUME NEW day \in Nat
               PROVE  /\ Rfc3339(day) \in Dates /\ DayNumber(Rfc3339(day)) = day
                      /\ Iso8601(Rfc3339(day)) = day
                      /\ ReportDate(day) = Rfc3339(day)
    OBVIOUS
  <1>4. PICK date \in Dates : DayNumber(date) = day
    BY <1>3
  <1>5. Iso8601(date) = day /\ Rfc3339(day) = date /\ ReportDate(day) = date
    BY <1>4, EveryDate DEF Exact
  <1> QED
    BY <1>4, <1>5

(* What makes TagsDated inductive: the day each pair of tags was resolved. *)
MadeOn(x, day) ==
  x.runId \in {EnvRunId, Rfc3339(day)} /\ x.expires = Rfc3339(day + Ttl)

Dated == TagTypes /\ \A x \in Worn : \E day \in FirstDay .. today : MadeOn(x, day)

LEMMA DatedStep == Dated /\ [TNext]_tvars => Dated'
  <1> SUFFICES ASSUME Dated, [TNext]_tvars
               PROVE  Dated'
    OBVIOUS
  <1>1. TagTypes /\ TagTypes'
    BY TagTypesStep DEF Dated
  <1>2. /\ FirstDay \in Nat /\ today \in Nat /\ today' \in Nat
        /\ FirstDay <= today /\ FirstDay <= today'
    BY <1>1, RunTagsAssumption DEF TagTypes, RunTagsAssumption
  <1>3. CASE ~EnsureInSource
    <2>1. Worn' \subseteq Worn
      BY <1>1, <1>3, WornStep
    <2>2. today' = today
      BY <1>3 DEF TNext, SeedTarget, LoseKind, Untagged, StartTagged, RenderOnKind,
         RenderOnTarget, Rerender, tvars, tagging
    <2> QED
      BY <1>1, <2>1, <2>2 DEF Dated
  <1>4. CASE EnsureInSource
    <2>1. CASE UNCHANGED <<today, tags>>
      BY <1>1, <1>4, <2>1 DEF EnsureInSource, Dated, Worn
    <2>2. ASSUME NEW day \in today .. LastDay,
                 today' = day, tags' = [tags EXCEPT !["kind"] = Resolve(day)]
          PROVE  Dated'
      <3>1. stamp' = stamp
        BY <1>4 DEF EnsureInSource
      <3>2. Worn' \subseteq Worn \cup {Resolve(day)}
        BY <1>1, <2>2, <3>1 DEF Worn, TagTypes, Sites
      <3>3. MadeOn(Resolve(day), day)
        BY DEF MadeOn, Resolve
      <3>4. day \in FirstDay .. today' /\ today <= today'
        BY <1>2, <2>2
      <3>5. \A x \in Worn : \E d \in FirstDay .. today' : MadeOn(x, d)
        BY <1>2, <3>4 DEF Dated
      <3> QED
        BY <1>1, <3>2, <3>3, <3>4, <3>5 DEF Dated, MadeOn
    <2> QED
      BY <1>4, <2>1, <2>2 DEF EnsureInSource
  <1> QED
    BY <1>3, <1>4

(* Every expiry in a ConfigMap or on anything built is the Gregorian date  *)
(* of the day the TTL after its run, and the orphan report reads that day  *)
(* from it, whatever the day of the first run, the number of days that     *)
(* pass and the TTL (run_tags.rs 70-106 and 165-225, orphans.rs 93-206).   *)
THEOREM RightDates == TSpec => []TagsDated
  <1>1. TInit => Dated
    BY TagTypesInit DEF TInit, Dated, Worn, Sites
  <1>2. Dated => TagsDated
    <2> SUFFICES ASSUME Dated, NEW x \in Worn
                 PROVE  /\ DayNumber(x.expires) = Iso8601(x.expires)
                        /\ ReportDate(Iso8601(x.expires)) = x.expires
                        /\ Iso8601(x.expires) - Ttl \in FirstDay .. today
                        /\ x.runId # EnvRunId
                             => Iso8601(x.runId) = Iso8601(x.expires) - Ttl
      BY DEF TagsDated
    <2>1. PICK day \in FirstDay .. today : MadeOn(x, day)
      BY DEF Dated
    <2>2. day \in Nat /\ Ttl \in Nat /\ today \in Nat
      BY RunTagsAssumption DEF RunTagsAssumption, Dated, TagTypes
    <2>3. day + Ttl \in Nat /\ day + Ttl - Ttl = day
      BY <2>2
    <2>4. /\ Iso8601(x.expires) = day + Ttl
          /\ DayNumber(x.expires) = day + Ttl
          /\ ReportDate(day + Ttl) = x.expires
      BY <2>1, <2>3, EveryDay DEF MadeOn
    <2>5. x.runId # EnvRunId => Iso8601(x.runId) = day
      BY <2>1, <2>2, EveryDay DEF MadeOn
    <2>6. Iso8601(x.expires) - Ttl = day
      BY <2>2, <2>4
    <2> QED
      BY <2>1, <2>4, <2>5, <2>6
  <1> QED
    BY <1>1, <1>2, DatedStep, PTL DEF TSpec
=============================================================================
