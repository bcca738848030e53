---------------------------- MODULE PivotProofs ----------------------------
(***************************************************************************)
(* Theorems about the bootstrap run, for every set of Clusters and         *)
(* Kustomizations, every profile and any number of failures.               *)
(***************************************************************************)
EXTENDS PivotInvariant, TLAPS

(* Every reachable state is well typed: the types of the run's data, of    *)
(* the two clusters' objects and of the infrastructure (main.rs 2142-3325).*)
LEMMA TypeInit == Init => TypeOK
  <1> SUFFICES ASSUME Init PROVE TypeOK
    OBVIOUS
  <1>1. opts \in Options
    BY InstanceAssumption DEF Init, InstanceAssumption
  <1>2. faults \in 0..MaxFaults
    BY InstanceAssumption DEF Init, InstanceAssumption
  <1>3. /\ src \in [Clusters -> {"none", "live", "paused"}]
        /\ tgt \in [Clusters -> {"none", "live", "paused"}]
        /\ infra \in [Clusters -> {"none", "endpoint", "ready"}]
        /\ has \in [Sites -> SUBSET Items]
    BY DEF Init
  <1> QED
    BY <1>1, <1>2, <1>3 DEF Init, TypeOK, Ended, Sites

LEMMA TypeStep == TypeOK /\ [Next]_vars => TypeOK'
  <1> SUFFICES ASSUME TypeOK, [Next]_vars
               PROVE  TypeOK'
    OBVIOUS
  <1> USE InstanceAssumption, RootAssumption
      DEF InstanceAssumption, RootAssumption, TypeOK, Ended, Running, Sites, Items,
          World, run, flux, Step
  <1>1. CASE Bootstrap
    <2>1. CASE ReuseKind
      BY <2>1 DEF ReuseKind
    <2>2. CASE DropKind
      BY <2>2 DEF DropKind, EraseKind
    <2>3. CASE CreateKind
      BY <2>3 DEF CreateKind
    <2>4. CASE StartRegistry
      BY <2>4 DEF StartRegistry, Local
    <2>5. CASE InstallFluxOperator
      BY <2>5 DEF InstallFluxOperator, Install
    <2>6. CASE EnsureRunTags
      BY <2>6 DEF EnsureRunTags, Install, Local
    <2>7. CASE DropSopsKey
      BY <2>7 DEF DropSopsKey
    <2>8. CASE ApplySecrets
      BY <2>8 DEF ApplySecrets, Install
    <2>9. CASE InstallFluxInstance
      BY <2>9 DEF InstallFluxInstance
    <2>10. CASE WatchReconciliation
      BY <2>10 DEF WatchReconciliation
    <2> QED
      BY <1>1, <2>1, <2>2, <2>3, <2>4, <2>5, <2>6, <2>7, <2>8, <2>9, <2>10 DEF Bootstrap
  <1>2. CASE Prepare
    <2>1. CASE CheckContext
      BY <2>1 DEF CheckContext
    <2>2. CASE WaitForDefinition
      BY MgmtAssumption, <2>2 DEF MgmtAssumption, WaitForDefinition, Satisfied
    <2>3. CASE WaitForKubeconfig
      BY <2>3 DEF WaitForKubeconfig
    <2>4. CASE ExportKubeconfig
      BY <2>4 DEF ExportKubeconfig
    <2>5. CASE WaitForNodes
      BY <2>5 DEF WaitForNodes
    <2>6. CASE InstallCapiOperator
      BY <2>6 DEF InstallCapiOperator, InstallOnTarget
    <2>7. CASE ApplyPivotManifests
      BY <2>7 DEF ApplyPivotManifests, InstallOnTarget
    <2>8. CASE WaitForProviders
      BY <2>8 DEF WaitForProviders, InstallOnTarget
    <2> QED
      BY <1>2, <2>1, <2>2, <2>3, <2>4, <2>5, <2>6, <2>7, <2>8 DEF Prepare
  <1>3. CASE Move
    <2>1. CASE ListKustomizations
      BY <2>1 DEF ListKustomizations
    <2>2. ASSUME NEW k \in Kustomizations, SuspendKustomization(k)
         PROVE  TypeOK'
      BY <2>2 DEF SuspendKustomization
    <2>3. CASE MovePause
      BY <2>3 DEF MovePause, Present, Missing
    <2>4. CASE MoveCreated
      BY <2>4 DEF MoveCreated
    <2>5. CASE MoveDeleted
      BY <2>5 DEF MoveDeleted
    <2>6. ASSUME NEW c \in Clusters, MoveCreate(c)
         PROVE  TypeOK'
      BY <2>6 DEF MoveCreate
    <2>7. ASSUME NEW c \in Clusters, MoveDelete(c)
         PROVE  TypeOK'
      BY <2>7 DEF MoveDelete
    <2>8. CASE ListMoved
      BY <2>8 DEF ListMoved, Present, Missing
    <2>9. ASSUME NEW c \in Clusters, Unpause(c)
         PROVE  TypeOK'
      BY <2>9 DEF Unpause
    <2>10. CASE Unpaused
      BY <2>10 DEF Unpaused
    <2>11. CASE ApplyFallbacks
      BY <2>11 DEF ApplyFallbacks
    <2> QED
      BY <1>3, <2>1, <2>2, <2>3, <2>4, <2>5, <2>6, <2>7, <2>8, <2>9, <2>10, <2>11 DEF Move
  <1>4. CASE Finish
    <2>1. CASE PublishArtifact
      BY <2>1 DEF PublishArtifact
    <2>2. CASE GuardDeletion
      BY <2>2 DEF GuardDeletion
    <2>3. CASE DeleteKind
      BY <2>3 DEF DeleteKind, EraseKind
    <2> QED
      BY <1>4, <2>1, <2>2, <2>3 DEF Finish
  <1>5. CASE Environment
    <2>1. ASSUME NEW k \in Kustomizations, FluxBegin(k)
         PROVE  TypeOK'
      BY <2>1 DEF FluxBegin, Live
    <2>2. ASSUME NEW k \in Kustomizations, FluxApply(k)
         PROVE  TypeOK'
      BY <2>2 DEF FluxApply, Live, Missing
    <2>3. ASSUME NEW c \in Clusters, FluxApplyOnTarget(c)
         PROVE  TypeOK'
      BY <2>3 DEF FluxApplyOnTarget
    <2>4. ASSUME NEW c \in Clusters, Provision(c)
         PROVE  TypeOK'
      BY <2>4 DEF Provision
    <2>5. CASE RegistryStops
      BY <2>5 DEF RegistryStops
    <2> HIDE DEF TypeOK
    <2> QED
      BY <1>5, <2>1, <2>2, <2>3, <2>4, <2>5 DEF Environment

  <1>6. CASE GiveUp
    BY <1>6 DEF GiveUp
  <1>7. CASE Fail
    BY <1>7 DEF Fail
  <1>8. ASSUME NEW o \in RunOptions, Start(o)
        PROVE  TypeOK'
    BY <1>8 DEF Start
  <1>9. CASE UNCHANGED vars
    BY <1>9 DEF vars
  <1> QED
    BY <1>1, <1>2, <1>3, <1>4, <1>5, <1>6, <1>7, <1>8, <1>9 DEF Next, CliStep

THEOREM Typed == Spec => []TypeOK
  BY TypeInit, TypeStep, PTL DEF Spec

LEMMA InvInit == Init => Inv
  BY TypeInit
  DEF Init, Inv, EmptyWithoutKind, AllDeclared, NoneForgotten, StaysQuiet,
      RootDeclaresAll, StartsOnKind, QuietOnceShared, NoRebuild, Preparing, Quiesced,
      Seeding, Present,
      Missing, MgmtOwns, NoneLive, Sites, Running

LEMMA InvStep == Calm /\ Inv /\ [Next]_vars => Inv'
  <1> SUFFICES ASSUME Calm, Inv, [Next]_vars, TypeOK'
               PROVE  Inv'
    BY TypeStep DEF Inv
  <1> USE RootAssumption, RootHoldsNoCluster
      DEF RootAssumption, RootHoldsNoCluster, Calm, Inv, EmptyWithoutKind,
          AllDeclared, NoneForgotten, StaysQuiet, QuietOnceShared, NoRebuild,
          RootDeclaresAll, StartsOnKind, Preparing, Quiesced, Seeding, Present,
          Missing, MgmtOwns, NoneLive,
          TypeOK, Ended, Running, Sites, World, run, flux, Step
  <1>1. CASE Bootstrap
    <2>1. CASE ReuseKind
      BY <2>1 DEF ReuseKind
    <2>2. CASE DropKind
      BY <2>2 DEF DropKind, EraseKind, Missing
    <2>3. CASE CreateKind
      BY <2>3 DEF CreateKind
    <2>4. CASE StartRegistry
      BY <2>4 DEF StartRegistry, Local
    <2>5. CASE InstallFluxOperator
      BY <2>5 DEF InstallFluxOperator, Install
    <2>6. CASE EnsureRunTags
      BY <2>6 DEF EnsureRunTags, Install, Local
    <2>7. CASE DropSopsKey
      BY <2>7 DEF DropSopsKey
    <2>8. CASE ApplySecrets
      BY <2>8 DEF ApplySecrets, Install
    <2>9. CASE InstallFluxInstance
      BY <2>9 DEF InstallFluxInstance
    <2>10. CASE WatchReconciliation
      BY <2>10 DEF WatchReconciliation
    <2> QED
      BY <1>1, <2>1, <2>2, <2>3, <2>4, <2>5, <2>6, <2>7, <2>8, <2>9, <2>10 DEF Bootstrap
  <1>2. CASE Prepare
    <2>1. CASE CheckContext
      BY <2>1 DEF CheckContext
    <2>2. CASE WaitForDefinition
      BY MgmtAssumption, <2>2 DEF MgmtAssumption, WaitForDefinition, Satisfied
    <2>3. CASE WaitForKubeconfig
      BY <2>3 DEF WaitForKubeconfig
    <2>4. CASE ExportKubeconfig
      BY <2>4 DEF ExportKubeconfig
    <2>5. CASE WaitForNodes
      BY <2>5 DEF WaitForNodes
    <2>6. CASE InstallCapiOperator
      BY <2>6 DEF InstallCapiOperator, InstallOnTarget
    <2>7. CASE ApplyPivotManifests
      BY <2>7 DEF ApplyPivotManifests, InstallOnTarget
    <2>8. CASE WaitForProviders
      BY <2>8 DEF WaitForProviders, InstallOnTarget
    <2> QED
      BY <1>2, <2>1, <2>2, <2>3, <2>4, <2>5, <2>6, <2>7, <2>8 DEF Prepare
  <1>3. CASE Move
    <2>1. CASE ListKustomizations
      BY <2>1 DEF ListKustomizations
    <2>2. ASSUME NEW k \in Kustomizations, SuspendKustomization(k)
         PROVE  Inv'
      BY <2>2 DEF SuspendKustomization
    <2>3. CASE MovePause
      BY <2>3 DEF MovePause, Present, Missing
    <2>4. CASE MoveCreated
      BY <2>4 DEF MoveCreated
    <2>5. CASE MoveDeleted
      BY <2>5 DEF MoveDeleted
    <2>6. ASSUME NEW c \in Clusters, MoveCreate(c)
         PROVE  Inv'
      BY <2>6 DEF MoveCreate
    <2>7. ASSUME NEW c \in Clusters, MoveDelete(c)
         PROVE  Inv'
      BY <2>7 DEF MoveDelete
    <2>8. CASE ListMoved
      BY <2>8 DEF ListMoved, Present, Missing
    <2>9. ASSUME NEW c \in Clusters, Unpause(c)
         PROVE  Inv'
      BY <2>9 DEF Unpause
    <2>10. CASE Unpaused
      BY <2>10 DEF Unpaused
    <2>11. CASE ApplyFallbacks
      BY <2>11 DEF ApplyFallbacks
    <2> QED
      BY <1>3, <2>1, <2>2, <2>3, <2>4, <2>5, <2>6, <2>7, <2>8, <2>9, <2>10, <2>11 DEF Move
  <1>4. CASE Finish
    <2>1. CASE PublishArtifact
      BY <2>1 DEF PublishArtifact
    <2>2. CASE GuardDeletion
      BY <2>2 DEF GuardDeletion
    <2>3. CASE DeleteKind
      BY <2>3 DEF DeleteKind, EraseKind
    <2> QED
      BY <1>4, <2>1, <2>2, <2>3 DEF Finish
  <1>5. CASE Environment
    <2>1. ASSUME NEW k \in Kustomizations, FluxBegin(k)
         PROVE  Inv'
      BY <2>1 DEF FluxBegin, Live
    <2>2. ASSUME NEW k \in Kustomizations, FluxApply(k)
         PROVE  Inv'
      BY <2>2 DEF FluxApply, Live, Missing
    <2>3. ASSUME NEW c \in Clusters, FluxApplyOnTarget(c)
         PROVE  Inv'
      BY <2>3 DEF FluxApplyOnTarget
    <2>4. ASSUME NEW c \in Clusters, Provision(c)
         PROVE  Inv'
      BY <2>4 DEF Provision
    <2>5. CASE RegistryStops
      BY <2>5 DEF RegistryStops
    <2> QED
      BY <1>5, <2>1, <2>2, <2>3, <2>4, <2>5 DEF Environment

  <1>6. CASE GiveUp
    BY <1>6 DEF GiveUp
  <1>7. CASE Fail
    BY <1>7 DEF Fail
  <1>8. ASSUME NEW o \in RunOptions, Start(o)
        PROVE  Inv'
    BY <1>8 DEF Start
  <1>9. CASE UNCHANGED vars
    BY <1>9 DEF vars
  <1> QED
    BY <1>1, <1>2, <1>3, <1>4, <1>5, <1>6, <1>7, <1>8, <1>9 DEF Next, CliStep

LEMMA Invariance == Calm => (Spec => []Inv)
  <1> SUFFICES ASSUME Calm PROVE Spec => []Inv
    OBVIOUS
  <1>1. Inv /\ [Next]_vars => Inv'
    BY InvStep
  <1> QED
    BY InvInit, <1>1, PTL DEF Spec

(* No Cluster with a copy on the management cluster is reconciled on kind, *)
(* through any interleaving of the run, its failures and reruns with Flux  *)
(* and the providers, unless a Kustomization escapes the suspension        *)
(* (main.rs 2746-2796).                                                    *)
THEOREM NeverTwoOwners == Calm => (Spec => []OneOwner)
  <1> SUFFICES ASSUME Calm PROVE Spec => []OneOwner
    OBVIOUS
  <1>1. Inv => OneOwner
    BY DEF Inv, OneOwner, QuietOnceShared, MgmtOwns, NoneLive, Present, Missing
  <1> QED
    BY Invariance, <1>1, PTL

(* The step that could create a Cluster on kind needs a Kustomization that *)
(* is not suspended, and during the move there is none.                    *)
LEMMA NoneCreated ==
  ASSUME Inv, [Next]_vars, Moving, NEW c \in Clusters, src[c] = "none"
  PROVE  src'[c] = "none"
  <1> USE DEF Moving, Step, World, run, flux
  <1>1. \A k \in Kustomizations : ~FluxApply(k)
    BY DEF Inv, StaysQuiet, Quiesced, FluxApply, Live
  <1>2. CASE UNCHANGED src
    BY <1>2
  <1>3. CASE MovePause
    BY <1>3 DEF MovePause
  <1>4. ASSUME NEW d \in Clusters, MoveDelete(d)
        PROVE  src'[c] = "none"
    BY <1>4 DEF MoveDelete, Inv, TypeOK
  <1>5. ~DropKind /\ ~DeleteKind
    BY DEF DropKind, DeleteKind
  <1>6. CASE Bootstrap
    BY <1>2, <1>5, <1>6
    DEF Bootstrap, ReuseKind, CreateKind, StartRegistry, InstallFluxOperator,
        EnsureRunTags, DropSopsKey, ApplySecrets, InstallFluxInstance,
        WatchReconciliation, Install
  <1>7. CASE Prepare
    BY <1>2, <1>7
    DEF Prepare, CheckContext, WaitForDefinition, WaitForKubeconfig,
        ExportKubeconfig, WaitForNodes, InstallCapiOperator,
        ApplyPivotManifests, WaitForProviders, InstallOnTarget
  <1>8. CASE Move
    BY <1>2, <1>3, <1>4, <1>8
    DEF Move, ListKustomizations, SuspendKustomization, MoveCreate,
        MoveCreated, MoveDeleted, ListMoved, Unpause, Unpaused, ApplyFallbacks
  <1>9. CASE Finish
    BY <1>2, <1>5, <1>9 DEF Finish, PublishArtifact, GuardDeletion
  <1>10. CASE Environment
    BY <1>1, <1>2, <1>10
    DEF Environment, FluxBegin, FluxApplyOnTarget, Provision, RegistryStops
  <1>11. CASE GiveUp \/ Fail \/ (\E o \in RunOptions : Start(o)) \/ UNCHANGED vars
    BY <1>2, <1>11 DEF GiveUp, Fail, Start, vars
  <1> QED
    BY <1>6, <1>7, <1>8, <1>9, <1>10, <1>11 DEF Next, CliStep

(* Flux in kind creates no Cluster while the move is under way             *)
(* (main.rs 2747-2768).                                                    *)
THEOREM MoveIsQuiet == Calm => (Spec => QuietDuringMove)
  <1> SUFFICES ASSUME Calm PROVE Spec => QuietDuringMove
    OBVIOUS
  <1>1. Inv /\ [Next]_vars
          => [Moving => \A c \in Clusters : src[c] = "none" => src'[c] = "none"]_vars
    BY NoneCreated
  <1> QED
    BY Invariance, <1>1, PTL DEF Spec, QuietDuringMove

---------------------------------------------------------------------------
(* How far a run has come: the steps in their order, the seeding steps     *)
(* once on kind and once on the target.                                    *)
Order ==
  [ensure |-> 1, registry |-> 2, operator |-> 3, tags |-> 4, dropkey |-> 5,
   applykey |-> 6, instance |-> 7, watch |-> 8, context |-> 9, definition |-> 10,
   kubeconfig |-> 11, export |-> 12, nodes |-> 13, capi |-> 14, manifests |-> 15,
   providers |-> 16, list |-> 17, suspend |-> 18, copy |-> 19, purge |-> 20,
   moved |-> 21, unpause |-> 22, relist |-> 23, push |-> 24, guard |-> 25,
   kinddelete |-> 26]

Place == IF pc \in Ended THEN 60 ELSE Order[pc] + IF site = "mgmt" THEN 30 ELSE 0

\* The run comes to a later step, or has less to do at this one.
Advances ==
  \/ Place < Place'
  \/ /\ UNCHANGED <<pc, site>>
     /\ \/ kind = "up" /\ kind' = "absent"
        \/ toSuspend' \subseteq toSuspend /\ toSuspend' # toSuspend
        \/ toMove' \subseteq toMove /\ toMove' # toMove

\* What the run has still to do is its own: the controllers do not touch it.
WaitsInPlace == UNCHANGED <<pc, site, toSuspend, toMove, kind>>

(* Each step of a run takes it on or leaves it where it is                 *)
(* (main.rs 2142-3325).                                                    *)
NoWayBack == [][(pc \in Running) => Advances \/ WaitsInPlace]_vars

\* Only the seeding and the end of a run work on the target.
SeedsTargetLast ==
  site = "mgmt" => pc \in {"operator", "tags", "dropkey", "applykey", "instance",
                           "guard", "kinddelete"} \cup Ended

LEMMA SeedsTargetLastStep ==
  SeedsTargetLast /\ [Next]_vars => SeedsTargetLast'
  <1> SUFFICES ASSUME SeedsTargetLast, [Next]_vars PROVE SeedsTargetLast'
    OBVIOUS
  <1> USE DEF SeedsTargetLast, Ended, Running, World, run, flux, Step, Install,
              InstallOnTarget
  <1>1. CASE Bootstrap
    BY <1>1 DEF Bootstrap, ReuseKind, DropKind, CreateKind, StartRegistry,
       InstallFluxOperator, EnsureRunTags, DropSopsKey, ApplySecrets,
       InstallFluxInstance, WatchReconciliation
  <1>2. CASE Prepare
    BY <1>2 DEF Prepare, CheckContext, WaitForDefinition, WaitForKubeconfig,
       ExportKubeconfig, WaitForNodes, InstallCapiOperator, ApplyPivotManifests,
       WaitForProviders
  <1>3. CASE Move
    BY <1>3 DEF Move, ListKustomizations, SuspendKustomization, MovePause, MoveCreate,
       MoveCreated, MoveDelete, MoveDeleted, ListMoved, Unpause, Unpaused,
       ApplyFallbacks
  <1>4. CASE Finish
    BY <1>4 DEF Finish, PublishArtifact, GuardDeletion, DeleteKind
  <1>5. CASE Environment
    BY <1>5 DEF Environment, FluxBegin, FluxApply, FluxApplyOnTarget, Provision,
       RegistryStops
  <1>6. CASE GiveUp \/ Fail \/ (\E o \in RunOptions : Start(o)) \/ UNCHANGED vars
    BY <1>6 DEF GiveUp, Fail, Start, vars
  <1> QED
    BY <1>1, <1>2, <1>3, <1>4, <1>5, <1>6 DEF Next, CliStep

LEMMA AdvanceStep ==
  ASSUME TypeOK, SeedsTargetLast, [Next]_vars, pc \in Running
  PROVE  Advances \/ WaitsInPlace
  <1> USE DEF Advances, WaitsInPlace, Place, Order, Ended, World, run, flux, Step,
              Install, InstallOnTarget
  <1>1. site \in {"kind", "mgmt"}
    BY DEF TypeOK, Sites
  <1>2. CASE Bootstrap
    <2>1. CASE ReuseKind \/ CreateKind \/ StartRegistry \/ InstallFluxOperator
      BY <1>1, <2>1 DEF ReuseKind, CreateKind, StartRegistry, InstallFluxOperator
    <2>2. CASE DropKind
      BY <2>2 DEF DropKind, EraseKind
    <2>3. CASE EnsureRunTags \/ DropSopsKey \/ ApplySecrets
      BY <1>1, <2>3 DEF EnsureRunTags, DropSopsKey, ApplySecrets
    <2>4. CASE InstallFluxInstance
      BY <1>1, <2>4 DEF InstallFluxInstance
    <2>5. CASE WatchReconciliation
      BY <1>1, <2>5 DEF WatchReconciliation
    <2> QED
      BY <1>2, <2>1, <2>2, <2>3, <2>4, <2>5 DEF Bootstrap
  <1>3. CASE Prepare
    <2>1. CASE CheckContext \/ WaitForDefinition \/ WaitForKubeconfig
               \/ ExportKubeconfig \/ WaitForNodes
      BY <1>1, <2>1 DEF CheckContext, WaitForDefinition, WaitForKubeconfig,
         ExportKubeconfig, WaitForNodes
    <2>2. CASE InstallCapiOperator \/ ApplyPivotManifests \/ WaitForProviders
      BY <1>1, <2>2 DEF InstallCapiOperator, ApplyPivotManifests, WaitForProviders
    <2> QED
      BY <1>3, <2>1, <2>2 DEF Prepare
  <1>4. CASE Move
    <2>1. CASE ListKustomizations \/ MovePause \/ MoveCreated \/ MoveDeleted
      BY <1>1, <2>1 DEF ListKustomizations, MovePause, MoveCreated, MoveDeleted
    <2>2. CASE ListMoved \/ Unpaused \/ ApplyFallbacks
      BY <1>1, <2>2 DEF ListMoved, Unpaused, ApplyFallbacks
    <2>3. ASSUME NEW k \in Kustomizations, SuspendKustomization(k)
          PROVE  Advances
      BY <2>3 DEF SuspendKustomization
    <2>4. ASSUME NEW c \in Clusters, MoveCreate(c) \/ MoveDelete(c) \/ Unpause(c)
          PROVE  Advances
      BY <2>4 DEF MoveCreate, MoveDelete, Unpause
    <2> QED
      BY <1>4, <2>1, <2>2, <2>3, <2>4 DEF Move
  <1>5. CASE Finish
    <2>1. CASE PublishArtifact
      <3>1. site = "kind"
        BY <1>1, <2>1 DEF PublishArtifact, SeedsTargetLast
      <3> QED
        BY <2>1, <3>1 DEF PublishArtifact
    <2>2. CASE GuardDeletion \/ DeleteKind
      BY <1>1, <2>2 DEF GuardDeletion, DeleteKind
    <2> QED
      BY <1>5, <2>1, <2>2 DEF Finish
  <1>6. CASE Environment
    BY <1>6 DEF Environment, FluxBegin, FluxApply, FluxApplyOnTarget, Provision,
       RegistryStops
  <1>7. CASE GiveUp \/ Fail
    BY <1>1, <1>7 DEF GiveUp, Fail, Running
  <1>8. CASE UNCHANGED vars
    BY <1>8 DEF vars
  <1>9. ~ \E o \in RunOptions : Start(o)
    BY DEF Start, Running
  <1> QED
    BY <1>2, <1>3, <1>4, <1>5, <1>6, <1>7, <1>8, <1>9 DEF Next, CliStep

(* A run never returns to an earlier step or takes up again what it has    *)
(* done: under every hazard, each of its steps ends it, brings it to a     *)
(* later step, or takes one element from the loop it is in. So it comes to *)
(* an end for any number of Clusters, if each wait does                    *)
(* (main.rs 2142-3325).                                                    *)
THEOREM RunsOnlyAdvance == Spec => NoWayBack
  <1>1. Init => TypeOK /\ SeedsTargetLast
    BY TypeInit DEF Init, SeedsTargetLast
  <1>2. TypeOK /\ SeedsTargetLast /\ [Next]_vars => TypeOK' /\ SeedsTargetLast'
    BY TypeStep, SeedsTargetLastStep
  <1>3. TypeOK /\ SeedsTargetLast /\ [Next]_vars
          => [(pc \in Running) => Advances \/ WaitsInPlace]_vars
    BY AdvanceStep
  <1> QED
    BY <1>1, <1>2, <1>3, PTL DEF Spec, NoWayBack
=============================================================================
