---------------------------- MODULE ClientProofs ----------------------------
(***************************************************************************)
(* Theorems about the machine krops-bootstrap runs on, for every set of    *)
(* Clusters, Kustomizations, options and hazards.                          *)
(***************************************************************************)
EXTENDS Client, PivotHandoffProofs, FiniteSetTheorems

---------------------------------------------------------------------------
(* The inductive invariant: a run that has its kind cluster can reach it   *)
(* until the run ends, and except between the wait for the hand-over and   *)
(* Phase 0's check the current context is kind's.                          *)

ClientTypeOK ==
  /\ toolbox \in BOOLEAN
  /\ entry \in [BOOLEAN -> Entries] /\ entry[FALSE] # "internal"
  /\ context \in [BOOLEAN -> Contexts]

Underway  == Running \ {"ensure"}
Committed == Underway \ {"watch", "context"}

Reachable ==
  /\ kind = "up"
  /\ entry[toolbox] = Endpoint(toolbox)
  /\ toolbox => attached

CInv ==
  /\ ClientTypeOK
  /\ pc \in Underway => Reachable
  /\ pc \in Committed => OnKind

---------------------------------------------------------------------------
LEMMA CInvInit == CInit => CInv
  BY DEF CInit, Init, CInv, ClientTypeOK, Underway, Committed, Running, Entries,
         Contexts

(* A step of the CLI between its check of kind and the deletion of kind    *)
(* leaves kind alone, and starts from a step that is committed already.    *)
LEMMA ElsewhereSteps ==
  ASSUME Elsewhere
  PROVE  /\ kind' = kind /\ UNCHANGED client
         /\ pc' \in Underway => pc \in Underway
         /\ pc' \in Committed => pc \in Committed
  <1> USE DEF Underway, Committed, Running, Ended, World, Step, Install,
              InstallOnTarget, flux, run
  <1>1. UNCHANGED client
    BY DEF Elsewhere
  <1>2. CASE GiveUp \/ Fail
    BY <1>1, <1>2 DEF GiveUp, Fail
  <1>3. CASE StartRegistry \/ InstallFluxOperator \/ EnsureRunTags \/ DropSopsKey
    BY <1>1, <1>3 DEF StartRegistry, InstallFluxOperator, EnsureRunTags, DropSopsKey
  <1>4. CASE ApplySecrets \/ InstallFluxInstance
    BY <1>1, <1>4 DEF ApplySecrets, InstallFluxInstance
  <1>5. CASE WaitForDefinition \/ WaitForKubeconfig \/ ExportKubeconfig \/ WaitForNodes
    BY <1>1, <1>5 DEF WaitForDefinition, WaitForKubeconfig, ExportKubeconfig,
                      WaitForNodes
  <1>6. CASE InstallCapiOperator \/ ApplyPivotManifests \/ WaitForProviders
    BY <1>1, <1>6 DEF InstallCapiOperator, ApplyPivotManifests, WaitForProviders
  <1>7. CASE Move
    <2>1. CASE ListKustomizations \/ MovePause \/ MoveCreated \/ MoveDeleted
      BY <1>1, <2>1 DEF ListKustomizations, MovePause, MoveCreated, MoveDeleted
    <2>2. CASE \E k \in Kustomizations : SuspendKustomization(k)
      BY <1>1, <2>2 DEF SuspendKustomization
    <2>3. CASE \E c \in Clusters : MoveCreate(c) \/ MoveDelete(c)
      BY <1>1, <2>3 DEF MoveCreate, MoveDelete
    <2>4. CASE \E c \in Clusters : Unpause(c)
      BY <1>1, <2>4 DEF Unpause
    <2>5. CASE ListMoved \/ Unpaused \/ ApplyFallbacks
      BY <1>1, <2>5 DEF ListMoved, Unpaused, ApplyFallbacks
    <2> QED
      BY <1>7, <2>1, <2>2, <2>3, <2>4, <2>5 DEF Move
  <1>8. CASE PublishArtifact \/ GuardDeletion
    BY <1>1, <1>8 DEF PublishArtifact, GuardDeletion
  <1>9. CASE Environment
    <2>1. pc' = pc /\ kind' = kind
      BY <1>9 DEF Environment, FluxBegin, FluxApply, FluxApplyOnTarget,
                  Provision, RegistryStops
    <2> QED
      BY <1>1, <2>1
  <1> QED
    BY <1>2, <1>3, <1>4, <1>5, <1>6, <1>7, <1>8, <1>9 DEF Elsewhere

LEMMA CInvStep == CInv /\ [CNext]_cvars => CInv'
  <1> SUFFICES ASSUME CInv, [CNext]_cvars PROVE CInv'
    OBVIOUS
  <1> USE DEF CInv, ClientTypeOK, Reachable, OnKind, Endpoint, Underway,
              Committed, Running, Entries, Contexts
  <1>1. CASE ReuseReachable
    <2>1. pc' = "registry" /\ kind = "up" /\ kind' = kind /\ toolbox' = toolbox
          /\ attached' = toolbox
      BY <1>1 DEF ReuseReachable, ReuseKind, JoinKindNetwork, Step, World
    <2>2. /\ entry' \in [BOOLEAN -> Entries] /\ entry'[FALSE] # "internal"
          /\ entry'[toolbox] = Endpoint(toolbox)
      <3>1. CASE toolbox
        BY <1>1, <3>1 DEF ReuseReachable, SelectKind
      <3>2. CASE ~toolbox
        BY <1>1, <3>2 DEF ReuseReachable, SelectKind, Unusable
      <3> QED
        BY <3>1, <3>2
    <2>3. context' \in [BOOLEAN -> Contexts] /\ context'[toolbox] = "kind"
      BY <1>1 DEF ReuseReachable, SelectKind
    <2> QED
      BY <2>1, <2>2, <2>3
  <1>2. CASE DemandRecreate \/ SelectFails
    <2>1. pc' = "failed" /\ toolbox' = toolbox
      BY <1>2 DEF DemandRecreate, SelectFails, Ends, Fail
    <2>2. /\ entry' \in [BOOLEAN -> Entries] /\ entry'[FALSE] # "internal"
          /\ context' \in [BOOLEAN -> Contexts]
      BY <1>2 DEF DemandRecreate, SelectFails, ExportFails, SelectKind
    <2> QED
      BY <2>1, <2>2
  <1>3. CASE CreateReachable
    BY <1>3 DEF CreateReachable, CreateKind, JoinKindNetwork, Step
  <1>4. CASE InterruptCreate
    <2>1. pc' = "failed" /\ toolbox' = toolbox
      BY <1>4 DEF InterruptCreate
    <2>2. /\ entry' \in [BOOLEAN -> Entries] /\ entry'[FALSE] # "internal"
          /\ context' \in [BOOLEAN -> Contexts]
      <3>1. CASE UNCHANGED <<entry, context>>
        BY <3>1
      <3>2. CASE /\ \E e \in {"host", Endpoint(toolbox)} :
                      entry' = [entry EXCEPT ![toolbox] = e]
                 /\ context' = [context EXCEPT ![toolbox] = "kind"]
        BY <3>2
      <3> QED
        BY <1>4, <3>1, <3>2 DEF InterruptCreate
    <2> QED
      BY <2>1, <2>2
  <1>5. CASE LoseKind
    <2>1. pc' \notin Underway
      BY <1>5 DEF LoseKind, DropKind, DeleteKind, Step
    <2>2. ClientTypeOK'
      BY <1>5 DEF LoseKind
    <2> QED
      BY <2>1, <2>2
  <1>6. CASE CheckedOnKind
    BY <1>6 DEF CheckedOnKind, WatchReconciliation, CheckContext, Step, World,
                client
  <1>7. CASE WrongContext
    BY <1>7 DEF WrongContext, client
  <1>8. CASE Elsewhere
    <2>1. /\ kind' = kind /\ UNCHANGED client
          /\ pc' \in Underway => pc \in Underway
          /\ pc' \in Committed => pc \in Committed
      BY ONLY <1>8, ElsewhereSteps
    <2>2. /\ toolbox' = toolbox /\ attached' = attached
          /\ entry' = entry /\ context' = context
      BY <2>1 DEF client
    <2> QED
      BY <2>1, <2>2
  <1>9. CASE \E o \in RunOptions, t \in BOOLEAN : StartIn(o, t)
    BY <1>9 DEF StartIn, Start
  <1>10. CASE \E x \in {"kind", "other"} : Switch(x)
    <2>1. /\ pc' = pc /\ kind' = kind
          /\ UNCHANGED <<toolbox, attached, entry>>
      BY <1>10 DEF Switch, vars
    <2>2. pc \notin Committed
      BY <1>10 DEF Switch, Ended
    <2>3. context' \in [BOOLEAN -> Contexts]
      BY <1>10 DEF Switch
    <2> QED
      BY <2>1, <2>2, <2>3
  <1>11. CASE \E t \in BOOLEAN : Prune(t)
    <2> PICK t \in BOOLEAN : Prune(t)
      BY <1>11
    <2>1. pc' = pc /\ pc \in Ended /\ toolbox' = toolbox
      BY DEF Prune, vars
    <2>2. pc' \notin Underway
      BY <2>1 DEF Ended
    <2>3. /\ entry' \in [BOOLEAN -> Entries] /\ context' \in [BOOLEAN -> Contexts]
          /\ toolbox' \in BOOLEAN
      BY <2>1 DEF Prune
    <2>4. entry'[FALSE] # "internal"
      <3>1. CASE t
        BY <3>1 DEF Prune
      <3>2. CASE ~t
        BY <3>2 DEF Prune
      <3> QED
        BY <3>1, <3>2
    <2> QED
      BY <2>1, <2>2, <2>3, <2>4
  <1>12. CASE UNCHANGED cvars \/ NodesChange
    <2>1. UNCHANGED <<pc, kind, toolbox, attached, entry, context>>
      BY <1>12 DEF cvars, vars, client, NodesChange
    <2> QED
      BY <2>1
  <1> QED
    BY <1>1, <1>2, <1>3, <1>4, <1>5, <1>6, <1>7, <1>8, <1>9, <1>10, <1>11,
       <1>12 DEF CNext

(* Calls without --kubeconfig reach the kind cluster of the run, wherever  *)
(* runs are started and whatever becomes of their files between them, when *)
(* contexts are switched only before Phase 0's check (main.rs 1239-1358,   *)
(* 2157-2178).                                                             *)
THEOREM ReachesKind == CSpec => []AmbientReachesKind
  <1>1. CInv => AmbientReachesKind
    BY DEF CInv, AmbientReachesKind, Ambient, Underway, Committed, Running, Reachable
  <1> QED
    BY <1>1, CInvInit, CInvStep, PTL DEF CSpec

---------------------------------------------------------------------------
(* What the machine adds to the runs of Pivot are further ways to end one. *)
LEMMA FurtherEnds ==
  [CNext]_cvars => [Next]_vars \/ (DemandRecreate /\ Ends) \/ SelectFails
                     \/ InterruptCreate \/ WrongContext
  BY DEF CNext, ReuseReachable, DemandRecreate, CreateReachable, LoseKind, CheckedOnKind,
         Elsewhere, StartIn, Switch, Prune, NodesChange, cvars, Next, CliStep, Bootstrap,
         Prepare, Finish

LEMMA CTypeStep == TypeOK /\ [CNext]_cvars => TypeOK'
  <1> SUFFICES ASSUME TypeOK,
                      Ends \/ SelectFails \/ InterruptCreate \/ WrongContext
               PROVE  TypeOK'
    BY FurtherEnds, TypeStep
  <1>1. CASE Ends \/ SelectFails \/ WrongContext
    BY <1>1 DEF Ends, SelectFails, WrongContext, TypeOK, Ended, World, run, flux
  <1>2. CASE InterruptCreate
    BY <1>2, InstanceAssumption DEF InterruptCreate, TypeOK, Ended, flux, InstanceAssumption
  <1> QED
    BY <1>1, <1>2

(* On the host a record goes stale only when a run elsewhere deletes the   *)
(* cluster it names: not where all runs use the same file.                 *)
OnePlaceInv ==
  /\ TypeOK /\ CInv
  /\ places \subseteq BOOLEAN /\ toolbox \in places
  /\ places = {FALSE} => entry[FALSE] # "stale"

LEMMA OnePlaceStep == OnePlaceInv /\ [CNext]_cvars => OnePlaceInv'
  <1> SUFFICES ASSUME OnePlaceInv, [CNext]_cvars
               PROVE  /\ places' \subseteq BOOLEAN /\ toolbox' \in places'
                      /\ places' = {FALSE} => entry'[FALSE] # "stale"
    BY CInvStep, CTypeStep DEF OnePlaceInv
  <1> USE DEF OnePlaceInv, CInv, ClientTypeOK, Endpoint
  <1>1. CASE ReuseReachable \/ CreateReachable
    BY <1>1 DEF ReuseReachable, CreateReachable, SelectKind
  <1>2. CASE SelectFails \/ WrongContext \/ CheckedOnKind \/ Elsewhere \/ NodesChange
    BY <1>2 DEF SelectFails, WrongContext, CheckedOnKind, Elsewhere, NodesChange, client
  <1>3. CASE InterruptCreate
    BY <1>3 DEF InterruptCreate
  <1>4. CASE LoseKind
    BY <1>4 DEF LoseKind
  <1>5. CASE \E o \in RunOptions, t \in BOOLEAN : StartIn(o, t)
    BY <1>5 DEF StartIn
  <1>6. CASE \E x \in {"kind", "other"} : Switch(x)
    BY <1>6 DEF Switch
  <1>7. CASE \E t \in BOOLEAN : Prune(t)
    BY <1>7 DEF Prune
  <1>8. CASE UNCHANGED cvars
    BY <1>8 DEF cvars, client
  <1>9. CASE DemandRecreate
    BY <1>9 DEF DemandRecreate, ExportFails, SelectKind
  <1> QED
    BY <1>1, <1>2, <1>3, <1>4, <1>5, <1>6, <1>7, <1>8, <1>9 DEF CNext

(* Where all runs are started in one place, a rerun over a healthy kind    *)
(* cluster recovers what it needs of its access to it: when it ends by     *)
(* asking for --recreate one of its own calls has failed                   *)
(* (main.rs 1285-1314).                                                    *)
THEOREM RecreateOnlyForCause == CSpec => RecreateForCause
  <1> DEFINE Caused == Cardinality(places) = 1 /\ health = "ready" /\ DemandRecreate
                         => faults' # faults
  <1>1. CInit => OnePlaceInv
    BY CInvInit, TypeInit DEF CInit, OnePlaceInv
  <1>2. ASSUME OnePlaceInv, Cardinality(places) = 1, health = "ready",
               DemandRecreate, faults' = faults
        PROVE  FALSE
    <2>0. Unusable
      <3>1. ~Fail
        BY <1>2, InstanceAssumption DEF Fail, OnePlaceInv, TypeOK, InstanceAssumption
      <3> QED
        BY <1>2, <3>1 DEF DemandRecreate
    <2>1. ~toolbox /\ entry[FALSE] = "stale"
      BY <1>2, <2>0 DEF Unusable, OnePlaceInv, CInv, ClientTypeOK
    <2>2. places = {FALSE}
      <3>1. IsFiniteSet(places)
        <4>1. IsFiniteSet({TRUE} \cup {FALSE})
          BY FS_Singleton, FS_AddElement
        <4>2. places \subseteq {TRUE} \cup {FALSE}
          BY <1>2 DEF OnePlaceInv
        <4> QED
          BY <4>1, <4>2, FS_Subset
      <3>2. \E t : places = {t}
        BY <1>2, <3>1, FS_Singleton
      <3> QED
        BY <1>2, <2>1, <3>2 DEF OnePlaceInv, CInv, ClientTypeOK
    <2> QED
      BY <1>2, <2>1, <2>2 DEF OnePlaceInv
  <1>3. OnePlaceInv /\ [CNext]_cvars => [Caused]_cvars
    BY <1>2
  <1> QED
    BY <1>1, OnePlaceStep, <1>3, PTL DEF CSpec, RecreateForCause

---------------------------------------------------------------------------
(* A run killed right after kind create cluster ends like one that created *)
(* it and failed at its next step.                                         *)
LEMMA InterruptedStep ==
  ASSUME Carried, InterruptCreate
  PROVE  /\ Carried'
         /\ NonePausedLeft => NonePausedLeft'
         /\ [Promise!Next]_(Promise!vars)
  <1> USE DEF InterruptCreate, flux
  <1>1. ~MgmtOwns
    BY DEF Carried, Inv, NoRebuild
  <1>2. Inv'
    BY <1>1, InstanceAssumption
    DEF InstanceAssumption, Carried, Inv, TypeOK, Ended, EmptyWithoutKind,
        RootDeclaresAll, AllDeclared, NoneForgotten, StaysQuiet, QuietOnceShared,
        StartsOnKind, NoRebuild, Preparing, Seeding, Quiesced, NoneLive, MgmtOwns,
        Present, Missing, Running
  <1>3. Travel'
    BY DEF Carried, Travel, SourceHeld, CopiedSoFar, PurgedSoFar, UnpausesMoved,
           AllLeft, AfterMove, AfterUnpause, Preparing, Seeding, Present, Missing
  <1>4. Seeds'
    BY DEF Carried, Seeds, SeededBeforeFlux, TagsFirst, SecretsFirst, SeededOnce,
           Preparing, Moving, AfterUnpause, Seeding
  <1>5. NonePausedLeft => NonePausedLeft'
    BY DEF NonePausedLeft, Paused, AfterUnpause, Seeding
  <1>6. [Promise!Next]_(Promise!vars)
    <2>1. Host = "none" /\ Host' = "kind"
      BY <1>1 DEF Host
    <2>2. \A c \in Clusters : OwnerOf(c)' = OwnerOf(c)
      BY DEF OwnerOf
    <2> QED
      BY <2>1, <2>2 DEF Promise!Next, Promise!Raise
  <1> QED
    BY <1>2, <1>3, <1>4, <1>5, <1>6 DEF Carried

LEMMA PivotSteps ==
  [CNext]_cvars => [Next]_vars \/ EndsIdle \/ InterruptCreate
  <1>1. (DemandRecreate /\ Ends) \/ SelectFails \/ WrongContext => EndsIdle
    BY DEF Ends, SelectFails, WrongContext, EndsIdle
  <1> QED
    BY <1>1, FurtherEnds

LEMMA CCarriedStep == Calm /\ Carried /\ [CNext]_cvars => Carried'
  BY PivotSteps, CarriedStep, EndsIdleStep, InterruptedStep

LEMMA CCarriedInvariance == Calm => (CSpec => []Carried)
  <1> SUFFICES ASSUME Calm PROVE CSpec => []Carried
    OBVIOUS
  <1>1. CInit => Carried
    BY CarriedInit DEF CInit
  <1>2. Carried /\ [CNext]_cvars => Carried'
    BY CCarriedStep
  <1> QED
    BY <1>1, <1>2, PTL DEF CSpec

LEMMA CPromiseStep ==
  ASSUME Calm, "unpause" \notin Hazards, Carried, NonePausedLeft, [CNext]_cvars
  PROVE  NonePausedLeft' /\ [Promise!Next]_(Promise!vars)
  <1>1. CASE [Next]_vars
    <2>1. Carried'
      BY <1>1, CarriedStep
    <2>2. NonePausedLeft'
      BY <1>1, NonePausedStep DEF Carried
    <2>3. [Promise!Next]_(Promise!vars)
      BY <1>1, <2>1, PromiseStep DEF Carried
    <2> QED
      BY <2>2, <2>3
  <1>2. CASE EndsIdle
    BY <1>2, EndsIdleStep
  <1>3. CASE InterruptCreate
    BY <1>3, InterruptedStep
  <1> QED
    BY <1>1, <1>2, <1>3, PivotSteps

(* In the toolbox or on the host, with whatever becomes of the kubeconfig  *)
(* files, and with runs killed between the creation of kind and its record *)
(* there, the run implements Handoff (main.rs 1239-1358, 2746-3009).       *)
THEOREM HandoffAnywhere ==
  Calm /\ "unpause" \notin Hazards => (CSpec => ImplementsHandoff)
  <1> SUFFICES ASSUME Calm, "unpause" \notin Hazards
               PROVE  CSpec => ImplementsHandoff
    OBVIOUS
  <1>1. CInit => NonePausedLeft /\ Promise!Init
    BY CarriedInit, PromiseInit DEF CInit
  <1>2. Carried /\ NonePausedLeft /\ [CNext]_cvars
          => NonePausedLeft' /\ [Promise!Next]_(Promise!vars)
    BY CPromiseStep
  <1> QED
    BY CCarriedInvariance, <1>1, <1>2, PTL DEF CSpec, ImplementsHandoff, Promise!Spec

(* The same runs keep the pivot's safety properties: one owner, the seeded *)
(* Flux, the order of the move, its quiet, and kind last                   *)
(* (main.rs 1239-1358, 2746-3009).                                         *)
THEOREM SafeAnywhere ==
  Calm => (CSpec => /\ [](OneOwner /\ SeededBeforeFlux /\ TravelInv)
                    /\ QuietDuringMove /\ KindGoesLast)
  <1> SUFFICES ASSUME Calm
               PROVE  CSpec => /\ [](OneOwner /\ SeededBeforeFlux /\ TravelInv)
                               /\ QuietDuringMove /\ KindGoesLast
    OBVIOUS
  <1> DEFINE Quiet == Moving => \A c \in Clusters : src[c] = "none" => src'[c] = "none"
             Late  == kind = "up" /\ kind' = "absent" /\ pc # "ensure"
                        => /\ src = [c \in Clusters |-> "none"]
                           /\ "instance" \in has["mgmt"]
  <1>1. ASSUME Carried, [CNext]_cvars
        PROVE  Quiet /\ Late
    <2>1. CASE [Next]_vars
      BY <1>1, <2>1, NoneCreated, LateDeletion DEF Carried
    <2>2. CASE EndsIdle \/ InterruptCreate
      BY <2>2 DEF EndsIdle, InterruptCreate, World
    <2> QED
      BY <1>1, <2>1, <2>2, PivotSteps
  <1>2. Carried /\ [CNext]_cvars => [Quiet]_vars /\ [Late]_vars
    BY <1>1
  <1> QED
    BY CCarriedInvariance, CarriedMeans, <1>2, PTL DEF CSpec, QuietDuringMove, KindGoesLast

(* Nothing is orphaned by them either, unless an operator asks for         *)
(* --recreate (main.rs 2771-2796, 2942-3009).                              *)
THEOREM NoOrphansAnywhere ==
  Calm /\ WithoutRecreate => (CSpec => []NothingOrphaned)
  <1> SUFFICES ASSUME Calm, WithoutRecreate
               PROVE  CSpec => []NothingOrphaned
    OBVIOUS
  <1>1. CInit => Owned
    BY DEF CInit, Init, Owned, NothingOrphaned
  <1>2. ASSUME Carried, Owned, [CNext]_cvars
        PROVE  Owned'
    <2>1. CASE [Next]_vars
      BY <1>2, <2>1, OwnedStep DEF Carried
    <2>2. CASE EndsIdle \/ InterruptCreate
      BY <1>2, <2>2 DEF EndsIdle, InterruptCreate, Owned, NothingOrphaned, World, run
    <2> QED
      BY <1>2, <2>1, <2>2, PivotSteps
  <1>3. Carried /\ Owned /\ [CNext]_cvars => Owned'
    BY <1>2
  <1>4. Owned => NothingOrphaned
    BY DEF Owned
  <1> QED
    BY CCarriedInvariance, <1>1, <1>3, <1>4, PTL DEF CSpec
=============================================================================
