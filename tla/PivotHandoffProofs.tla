------------------------- MODULE PivotHandoffProofs -------------------------
(***************************************************************************)
(* Theorems about where the objects go: the order of the deletions, who    *)
(* owns the infrastructure, and the refinement of Handoff.                 *)
(***************************************************************************)
EXTENDS PivotProofs

Travel ==
  SourceHeld /\ CopiedSoFar /\ PurgedSoFar /\ UnpausesMoved /\ AllLeft

LEMMA TravelInit == Init => Travel
  BY DEF Init, Travel, SourceHeld, CopiedSoFar, PurgedSoFar, UnpausesMoved,
         AllLeft,
         AfterMove, AfterUnpause, Preparing, Seeding, Sites

LEMMA TravelStep == Inv /\ Inv' /\ Calm /\ Travel /\ [Next]_vars => Travel'
  <1> SUFFICES ASSUME Inv, Inv', Calm, Travel, [Next]_vars
               PROVE  Travel'
    OBVIOUS
  <1> USE MgmtAssumption
      DEF MgmtAssumption, Travel, SourceHeld, CopiedSoFar, PurgedSoFar, UnpausesMoved,
         AllLeft,
          AfterMove, AfterUnpause, Preparing, Seeding, Quiesced, Present,
          Missing, Inv, TypeOK, StartsOnKind, NoRebuild, StaysQuiet, QuietOnceShared,
          MgmtOwns, NoneLive, Ended, Running, Sites, World, run, flux, Step
  <1>1. CASE Bootstrap
    <2>1. CASE ReuseKind
      BY <2>1 DEF ReuseKind
    <2>2. CASE DropKind
      BY <2>2 DEF DropKind, EraseKind
    <2>3. CASE CreateKind
      BY <2>3 DEF CreateKind
    <2>4. CASE StartRegistry
      BY <2>4 DEF StartRegistry, Local
    <2>5. CASE InstallFluxOperator
      BY <2>5 DEF InstallFluxOperator, Install
    <2>6. CASE EnsureRunTags
      BY <2>6 DEF EnsureRunTags, Install, Local
    <2>7. CASE DropSopsKey
      BY <2>7 DEF DropSopsKey
    <2>8. CASE ApplySecrets
      BY <2>8 DEF ApplySecrets, Install
    <2>9. CASE InstallFluxInstance
      BY <2>9 DEF InstallFluxInstance
    <2>10. CASE WatchReconciliation
      BY <2>10 DEF WatchReconciliation
    <2> QED
      BY <1>1, <2>1, <2>2, <2>3, <2>4, <2>5, <2>6, <2>7, <2>8, <2>9, <2>10 DEF Bootstrap
  <1>2. CASE Prepare
    <2>1. CASE CheckContext
      BY <2>1 DEF CheckContext
    <2>2. CASE WaitForDefinition
      BY <2>2 DEF WaitForDefinition, Satisfied
    <2>3. CASE WaitForKubeconfig
      BY <2>3 DEF WaitForKubeconfig
    <2>4. CASE ExportKubeconfig
      BY <2>4 DEF ExportKubeconfig
    <2>5. CASE WaitForNodes
      BY <2>5 DEF WaitForNodes
    <2>6. CASE InstallCapiOperator
      BY <2>6 DEF InstallCapiOperator, InstallOnTarget
    <2>7. CASE ApplyPivotManifests
      BY <2>7 DEF ApplyPivotManifests, InstallOnTarget
    <2>8. CASE WaitForProviders
      BY <2>8 DEF WaitForProviders, InstallOnTarget
    <2> QED
      BY <1>2, <2>1, <2>2, <2>3, <2>4, <2>5, <2>6, <2>7, <2>8 DEF Prepare
  <1>3. CASE Move
    <2>1. CASE ListKustomizations
      BY <2>1 DEF ListKustomizations
    <2>2. ASSUME NEW k \in Kustomizations, SuspendKustomization(k)
         PROVE  Travel'
      BY <2>2 DEF SuspendKustomization
    <2>3. CASE MovePause
      BY <2>3 DEF MovePause
    <2>4. CASE MoveCreated
      BY <2>4 DEF MoveCreated
    <2>5. CASE MoveDeleted
      BY <2>5 DEF MoveDeleted
    <2>6. ASSUME NEW c \in Clusters, MoveCreate(c)
         PROVE  Travel'
      BY <2>6 DEF MoveCreate
    <2>7. ASSUME NEW c \in Clusters, MoveDelete(c)
         PROVE  Travel'
      BY <2>7 DEF MoveDelete
    <2>8. CASE ListMoved
      BY <2>8 DEF ListMoved
    <2>9. ASSUME NEW c \in Clusters, Unpause(c)
         PROVE  Travel'
      BY <2>9 DEF Unpause
    <2>10. CASE Unpaused
      BY <2>10 DEF Unpaused
    <2>11. CASE ApplyFallbacks
      BY <2>11 DEF ApplyFallbacks
    <2> QED
      BY <1>3, <2>1, <2>2, <2>3, <2>4, <2>5, <2>6, <2>7, <2>8, <2>9, <2>10, <2>11 DEF Move
  <1>4. CASE Finish
    <2>1. CASE PublishArtifact
      BY <2>1 DEF PublishArtifact
    <2>2. CASE GuardDeletion
      BY <2>2 DEF GuardDeletion
    <2>3. CASE DeleteKind
      BY <2>3 DEF DeleteKind, EraseKind
    <2> QED
      BY <1>4, <2>1, <2>2, <2>3 DEF Finish
  <1>5. CASE Environment
    <2>1. ASSUME NEW k \in Kustomizations, FluxBegin(k)
         PROVE  Travel'
      BY <2>1 DEF FluxBegin, Live
    <2>2. ASSUME NEW k \in Kustomizations, FluxApply(k)
         PROVE  Travel'
      BY <2>2 DEF FluxApply, Live
    <2>3. ASSUME NEW c \in Clusters, FluxApplyOnTarget(c)
         PROVE  Travel'
      BY <2>3 DEF FluxApplyOnTarget
    <2>4. ASSUME NEW c \in Clusters, Provision(c)
         PROVE  Travel'
      BY <2>4 DEF Provision
    <2>5. CASE RegistryStops
      BY <2>5 DEF RegistryStops
    <2> QED
      BY <1>5, <2>1, <2>2, <2>3, <2>4, <2>5 DEF Environment
  <1>6. CASE GiveUp
    BY <1>6 DEF GiveUp
  <1>7. CASE Fail
    BY <1>7 DEF Fail
  <1>8. ASSUME NEW o \in RunOptions, Start(o)
        PROVE  Travel'
    BY <1>8 DEF Start
  <1>9. CASE UNCHANGED vars
    BY <1>9 DEF vars
  <1> QED
    BY <1>1, <1>2, <1>3, <1>4, <1>5, <1>6, <1>7, <1>8, <1>9 DEF Next, CliStep

LEMMA TravelInvariance == Calm => (Spec => [](Inv /\ Travel))
  <1> SUFFICES ASSUME Calm PROVE Spec => [](Inv /\ Travel)
    OBVIOUS
  <1>1. Inv /\ Inv' /\ Travel /\ [Next]_vars => Travel'
    BY TravelStep
  <1> QED
    BY TravelInit, Invariance, <1>1, PTL DEF Spec

---------------------------------------------------------------------------
LEMMA NonePausedStep ==
  "unpause" \notin Hazards /\ Inv /\ Travel /\ NonePausedLeft /\ [Next]_vars
    => NonePausedLeft'
  <1> SUFFICES ASSUME "unpause" \notin Hazards, Inv, Travel, NonePausedLeft,
                      [Next]_vars
               PROVE  NonePausedLeft'
    OBVIOUS
  <1> USE MgmtAssumption
      DEF MgmtAssumption, NonePausedLeft, Paused, Travel, SourceHeld, AllLeft, StartsOnKind,
          AfterMove, AfterUnpause, Preparing, Seeding, Present,
          Missing, Inv, TypeOK, Ended, Running, Sites, World, run, flux, Step
  <1>1. CASE Bootstrap
    <2>1. CASE ReuseKind
      BY <2>1 DEF ReuseKind
    <2>2. CASE DropKind
      BY <2>2 DEF DropKind, EraseKind
    <2>3. CASE CreateKind
      BY <2>3 DEF CreateKind
    <2>4. CASE StartRegistry
      BY <2>4 DEF StartRegistry, Local
    <2>5. CASE InstallFluxOperator
      BY <2>5 DEF InstallFluxOperator, Install
    <2>6. CASE EnsureRunTags
      BY <2>6 DEF EnsureRunTags, Install, Local
    <2>7. CASE DropSopsKey
      BY <2>7 DEF DropSopsKey
    <2>8. CASE ApplySecrets
      BY <2>8 DEF ApplySecrets, Install
    <2>9. CASE InstallFluxInstance
      BY <2>9 DEF InstallFluxInstance
    <2>10. CASE WatchReconciliation
      BY <2>10 DEF WatchReconciliation
    <2> QED
      BY <1>1, <2>1, <2>2, <2>3, <2>4, <2>5, <2>6, <2>7, <2>8, <2>9, <2>10 DEF Bootstrap
  <1>2. CASE Prepare
    <2>1. CASE CheckContext
      BY <2>1 DEF CheckContext
    <2>2. CASE WaitForDefinition
      BY <2>2 DEF WaitForDefinition, Satisfied
    <2>3. CASE WaitForKubeconfig
      BY <2>3 DEF WaitForKubeconfig
    <2>4. CASE ExportKubeconfig
      BY <2>4 DEF ExportKubeconfig
    <2>5. CASE WaitForNodes
      BY <2>5 DEF WaitForNodes
    <2>6. CASE InstallCapiOperator
      BY <2>6 DEF InstallCapiOperator, InstallOnTarget
    <2>7. CASE ApplyPivotManifests
      BY <2>7 DEF ApplyPivotManifests, InstallOnTarget
    <2>8. CASE WaitForProviders
      BY <2>8 DEF WaitForProviders, InstallOnTarget
    <2> QED
      BY <1>2, <2>1, <2>2, <2>3, <2>4, <2>5, <2>6, <2>7, <2>8 DEF Prepare
  <1>3. CASE Move
    <2>1. CASE ListKustomizations
      BY <2>1 DEF ListKustomizations
    <2>2. ASSUME NEW k \in Kustomizations, SuspendKustomization(k)
         PROVE  NonePausedLeft'
      BY <2>2 DEF SuspendKustomization
    <2>3. CASE MovePause
      BY <2>3 DEF MovePause
    <2>4. CASE MoveCreated
      BY <2>4 DEF MoveCreated
    <2>5. CASE MoveDeleted
      BY <2>5 DEF MoveDeleted
    <2>6. ASSUME NEW c \in Clusters, MoveCreate(c)
         PROVE  NonePausedLeft'
      BY <2>6 DEF MoveCreate
    <2>7. ASSUME NEW c \in Clusters, MoveDelete(c)
         PROVE  NonePausedLeft'
      BY <2>7 DEF MoveDelete
    <2>8. CASE ListMoved
      BY <2>8 DEF ListMoved
    <2>9. ASSUME NEW c \in Clusters, Unpause(c)
         PROVE  NonePausedLeft'
      BY <2>9 DEF Unpause
    <2>10. CASE Unpaused
      BY <2>10 DEF Unpaused
    <2>11. CASE ApplyFallbacks
      BY <2>11 DEF ApplyFallbacks
    <2> QED
      BY <1>3, <2>1, <2>2, <2>3, <2>4, <2>5, <2>6, <2>7, <2>8, <2>9, <2>10, <2>11 DEF Move
  <1>4. CASE Finish
    <2>1. CASE PublishArtifact
      BY <2>1 DEF PublishArtifact
    <2>2. CASE GuardDeletion
      BY <2>2 DEF GuardDeletion
    <2>3. CASE DeleteKind
      BY <2>3 DEF DeleteKind, EraseKind
    <2> QED
      BY <1>4, <2>1, <2>2, <2>3 DEF Finish
  <1>5. CASE Environment
    <2>1. ASSUME NEW k \in Kustomizations, FluxBegin(k)
         PROVE  NonePausedLeft'
      BY <2>1 DEF FluxBegin, Live
    <2>2. ASSUME NEW k \in Kustomizations, FluxApply(k)
         PROVE  NonePausedLeft'
      BY <2>2 DEF FluxApply, Live
    <2>3. ASSUME NEW c \in Clusters, FluxApplyOnTarget(c)
         PROVE  NonePausedLeft'
      BY <2>3 DEF FluxApplyOnTarget
    <2>4. ASSUME NEW c \in Clusters, Provision(c)
         PROVE  NonePausedLeft'
      BY <2>4 DEF Provision
    <2>5. CASE RegistryStops
      BY <2>5 DEF RegistryStops
    <2> QED
      BY <1>5, <2>1, <2>2, <2>3, <2>4, <2>5 DEF Environment
  <1>6. CASE GiveUp
    BY <1>6 DEF GiveUp
  <1>7. CASE Fail
    BY <1>7 DEF Fail
  <1>8. ASSUME NEW o \in RunOptions, Start(o)
        PROVE  NonePausedLeft'
    BY <1>8 DEF Start
  <1>9. CASE UNCHANGED vars
    BY <1>9 DEF vars
  <1> QED
    BY <1>1, <1>2, <1>3, <1>4, <1>5, <1>6, <1>7, <1>8, <1>9 DEF Next, CliStep

(* When Flux starts on the management cluster every moved Cluster has been *)
(* unpaused, whatever else failed before, provided the unpause patches and *)
(* their listing do not fail (main.rs 2798-2832).                          *)
THEOREM UnpausedFirst ==
  Calm /\ "unpause" \notin Hazards => (Spec => []UnpausedBeforeFlux)
  <1> SUFFICES ASSUME Calm, "unpause" \notin Hazards
               PROVE  Spec => []UnpausedBeforeFlux
    OBVIOUS
  <1>1. Init => NonePausedLeft
    BY DEF Init, NonePausedLeft, Paused, AfterUnpause, Seeding, Sites
  <1>2. Inv /\ Travel /\ NonePausedLeft /\ [Next]_vars => NonePausedLeft'
    BY NonePausedStep
  <1>3. NonePausedLeft => UnpausedBeforeFlux
    BY DEF NonePausedLeft, UnpausedBeforeFlux, Paused
  <1> QED
    BY TravelInvariance, <1>1, <1>2, <1>3, PTL DEF Spec

---------------------------------------------------------------------------
WithoutRecreate == \A o \in RunOptions : ~o.recreate

Owned == NothingOrphaned /\ opts \in RunOptions

LEMMA OwnedStep ==
  WithoutRecreate /\ Inv /\ Travel /\ Owned /\ [Next]_vars => Owned'
  <1> SUFFICES ASSUME WithoutRecreate, Inv, Travel, Owned, [Next]_vars
               PROVE  Owned'
    OBVIOUS
  <1> USE DEF WithoutRecreate, Owned, NothingOrphaned, Travel, PurgedSoFar, AllLeft,
          AfterMove, AfterUnpause, Preparing, Seeding, Present,
          Missing, Inv, TypeOK, Ended, Running, Sites, World, run, flux, Step
  <1>1. CASE Bootstrap
    <2>1. CASE ReuseKind
      BY <2>1 DEF ReuseKind
    <2>2. CASE DropKind
      BY <2>2 DEF DropKind, EraseKind
    <2>3. CASE CreateKind
      BY <2>3 DEF CreateKind
    <2>4. CASE StartRegistry
      BY <2>4 DEF StartRegistry, Local
    <2>5. CASE InstallFluxOperator
      BY <2>5 DEF InstallFluxOperator, Install
    <2>6. CASE EnsureRunTags
      BY <2>6 DEF EnsureRunTags, Install, Local
    <2>7. CASE DropSopsKey
      BY <2>7 DEF DropSopsKey
    <2>8. CASE ApplySecrets
      BY <2>8 DEF ApplySecrets, Install
    <2>9. CASE InstallFluxInstance
      BY <2>9 DEF InstallFluxInstance
    <2>10. CASE WatchReconciliation
      BY <2>10 DEF WatchReconciliation
    <2> QED
      BY <1>1, <2>1, <2>2, <2>3, <2>4, <2>5, <2>6, <2>7, <2>8, <2>9, <2>10 DEF Bootstrap
  <1>2. CASE Prepare
    <2>1. CASE CheckContext
      BY <2>1 DEF CheckContext
    <2>2. CASE WaitForDefinition
      BY <2>2 DEF WaitForDefinition, Satisfied
    <2>3. CASE WaitForKubeconfig
      BY <2>3 DEF WaitForKubeconfig
    <2>4. CASE ExportKubeconfig
      BY <2>4 DEF ExportKubeconfig
    <2>5. CASE WaitForNodes
      BY <2>5 DEF WaitForNodes
    <2>6. CASE InstallCapiOperator
      BY <2>6 DEF InstallCapiOperator, InstallOnTarget
    <2>7. CASE ApplyPivotManifests
      BY <2>7 DEF ApplyPivotManifests, InstallOnTarget
    <2>8. CASE WaitForProviders
      BY <2>8 DEF WaitForProviders, InstallOnTarget
    <2> QED
      BY <1>2, <2>1, <2>2, <2>3, <2>4, <2>5, <2>6, <2>7, <2>8 DEF Prepare
  <1>3. CASE Move
    <2>1. CASE ListKustomizations
      BY <2>1 DEF ListKustomizations
    <2>2. ASSUME NEW k \in Kustomizations, SuspendKustomization(k)
         PROVE  Owned'
      BY <2>2 DEF SuspendKustomization
    <2>3. CASE MovePause
      BY <2>3 DEF MovePause
    <2>4. CASE MoveCreated
      BY <2>4 DEF MoveCreated
    <2>5. CASE MoveDeleted
      BY <2>5 DEF MoveDeleted
    <2>6. ASSUME NEW c \in Clusters, MoveCreate(c)
         PROVE  Owned'
      BY <2>6 DEF MoveCreate
    <2>7. ASSUME NEW c \in Clusters, MoveDelete(c)
         PROVE  Owned'
      BY <2>7 DEF MoveDelete
    <2>8. CASE ListMoved
      BY <2>8 DEF ListMoved
    <2>9. ASSUME NEW c \in Clusters, Unpause(c)
         PROVE  Owned'
      BY <2>9 DEF Unpause
    <2>10. CASE Unpaused
      BY <2>10 DEF Unpaused
    <2>11. CASE ApplyFallbacks
      BY <2>11 DEF ApplyFallbacks
    <2> QED
      BY <1>3, <2>1, <2>2, <2>3, <2>4, <2>5, <2>6, <2>7, <2>8, <2>9, <2>10, <2>11 DEF Move
  <1>4. CASE Finish
    <2>1. CASE PublishArtifact
      BY <2>1 DEF PublishArtifact
    <2>2. CASE GuardDeletion
      BY <2>2 DEF GuardDeletion
    <2>3. CASE DeleteKind
      BY <2>3 DEF DeleteKind, EraseKind
    <2> QED
      BY <1>4, <2>1, <2>2, <2>3 DEF Finish
  <1>5. CASE Environment
    <2>1. ASSUME NEW k \in Kustomizations, FluxBegin(k)
         PROVE  Owned'
      BY <2>1 DEF FluxBegin, Live
    <2>2. ASSUME NEW k \in Kustomizations, FluxApply(k)
         PROVE  Owned'
      BY <2>2 DEF FluxApply, Live
    <2>3. ASSUME NEW c \in Clusters, FluxApplyOnTarget(c)
         PROVE  Owned'
      BY <2>3 DEF FluxApplyOnTarget
    <2>4. ASSUME NEW c \in Clusters, Provision(c)
         PROVE  Owned'
      BY <2>4 DEF Provision
    <2>5. CASE RegistryStops
      BY <2>5 DEF RegistryStops
    <2> QED
      BY <1>5, <2>1, <2>2, <2>3, <2>4, <2>5 DEF Environment
  <1>6. CASE GiveUp
    BY <1>6 DEF GiveUp
  <1>7. CASE Fail
    BY <1>7 DEF Fail
  <1>8. ASSUME NEW o \in RunOptions, Start(o)
        PROVE  Owned'
    BY <1>8 DEF Start
  <1>9. CASE UNCHANGED vars
    BY <1>9 DEF vars
  <1> QED
    BY <1>1, <1>2, <1>3, <1>4, <1>5, <1>6, <1>7, <1>8, <1>9 DEF Next, CliStep

(* No run, failed or finished, leaves infrastructure that no Cluster       *)
(* object stands for, unless an operator asks for --recreate               *)
(* (main.rs 2771-2796, 2942-3009).                                         *)
THEOREM NoOrphans == Calm /\ WithoutRecreate => (Spec => []NothingOrphaned)
  <1> SUFFICES ASSUME Calm, WithoutRecreate
               PROVE  Spec => []NothingOrphaned
    OBVIOUS
  <1>1. Init => Owned
    BY DEF Init, Owned, NothingOrphaned
  <1>2. Inv /\ Travel /\ Owned /\ [Next]_vars => Owned'
    BY OwnedStep
  <1>3. Owned => NothingOrphaned
    BY DEF Owned
  <1> QED
    BY TravelInvariance, <1>1, <1>2, <1>3, PTL DEF Spec

---------------------------------------------------------------------------
(* What deletes kind after its first step is the end of a run.             *)
LEMMA LateDeletion ==
  ASSUME Inv, Travel, [Next]_vars, kind = "up", kind' = "absent", pc # "ensure"
  PROVE  /\ src = [c \in Clusters |-> "none"]
         /\ "instance" \in has["mgmt"]
  <1> USE DEF World, run, flux, Step
  <1>1. ~DropKind /\ ~CreateKind /\ ~(kind' = kind)
    BY DEF DropKind, CreateKind
  <1>2. ~Bootstrap
    BY <1>1
    DEF Bootstrap, ReuseKind, StartRegistry, InstallFluxOperator,
        EnsureRunTags, DropSopsKey, ApplySecrets, InstallFluxInstance,
        WatchReconciliation, Install
  <1>3. ~Prepare
    BY <1>1
    DEF Prepare, CheckContext, WaitForDefinition, WaitForKubeconfig,
        ExportKubeconfig, WaitForNodes, InstallCapiOperator,
        ApplyPivotManifests, WaitForProviders, InstallOnTarget
  <1>4. ~Move
    BY <1>1
    DEF Move, ListKustomizations, SuspendKustomization, MovePause,
        MoveCreate, MoveCreated, MoveDelete, MoveDeleted, ListMoved, Unpause,
        Unpaused, ApplyFallbacks
  <1>5. ~Environment
    BY <1>1
    DEF Environment, FluxBegin, FluxApply, FluxApplyOnTarget, Provision,
        RegistryStops
  <1>6. ~(GiveUp \/ Fail \/ (\E o \in RunOptions : Start(o)) \/ UNCHANGED vars)
    BY <1>1 DEF GiveUp, Fail, Start, vars
  <1>7. DeleteKind
    BY <1>1, <1>2, <1>3, <1>4, <1>5, <1>6
    DEF Next, CliStep, Finish, PublishArtifact, GuardDeletion
  <1> QED
    BY <1>7
    DEF DeleteKind, Travel, AllLeft, AfterMove, AfterUnpause, Present,
        Missing, Inv, TypeOK

(* Outside --recreate, kind is deleted only once it holds no Cluster and   *)
(* the management cluster has its own Flux (main.rs 2942-2985).            *)
THEOREM KindLast == Calm => (Spec => KindGoesLast)
  <1> SUFFICES ASSUME Calm PROVE Spec => KindGoesLast
    OBVIOUS
  <1> DEFINE Late == kind = "up" /\ kind' = "absent" /\ pc # "ensure"
                       => /\ src = [c \in Clusters |-> "none"]
                          /\ "instance" \in has["mgmt"]
  <1>1. Inv /\ Travel /\ [Next]_vars => [Late]_vars
    BY LateDeletion
  <1> QED
    BY TravelInvariance, <1>1, PTL DEF Spec, KindGoesLast

---------------------------------------------------------------------------
(* A step that leaves the objects and kind alone, with kind up or the same *)
(* installs on the management cluster, is no step of the promise.          *)
LEMMA Stutter ==
  ASSUME UNCHANGED <<src, tgt, kind>>, kind = "up" \/ UNCHANGED has
  PROVE  UNCHANGED Promise!vars
  BY DEF Promise!vars, OwnerOf, Host, MgmtOwns, Present, Missing

LEMMA OwnerCases ==
  ASSUME TypeOK, NEW c \in Clusters
  PROVE  /\ OwnerOf(c) = "mgmt" <=> tgt[c] = "live"
         /\ OwnerOf(c) = "transit" <=> tgt[c] = "paused"
         /\ OwnerOf(c) = "kind" <=> tgt[c] = "none" /\ src[c] # "none"
         /\ OwnerOf(c) = "nobody" <=> tgt[c] = "none" /\ src[c] = "none"
  BY DEF TypeOK, OwnerOf

LEMMA PromiseInit == Init => Promise!Init
  BY DEF Init, Promise!Init, OwnerOf, Host, MgmtOwns, Present, Missing, Sites

LEMMA PromiseStep ==
  ASSUME Inv, Inv', Travel, NonePausedLeft, "unpause" \notin Hazards, Calm,
         [Next]_vars
  PROVE  [Promise!Next]_(Promise!vars)
  <1> USE DEF World, run, flux, Step
  <1>1. pc \in Running /\ pc # "ensure" => kind = "up"
    BY DEF Inv, NoRebuild, TypeOK
  <1>2. CASE UNCHANGED <<src, tgt, kind, has>>
    BY <1>2, Stutter
  <1>3. CASE UNCHANGED <<src, tgt, kind>> /\ pc \in Running \ {"ensure"}
    BY <1>1, <1>3, Stutter
  <1>4. CASE DropKind
    <2>1. ~MgmtOwns
      BY <1>4 DEF DropKind, Inv, NoRebuild
    <2>2. Host = "kind" /\ Host' = "none"
      BY <1>4, <2>1 DEF DropKind, EraseKind, Host, MgmtOwns, Present, Missing,
                        Inv, TypeOK, Sites
    <2>3. \A c \in Clusters : /\ OwnerOf(c) \in {"nobody", "kind"}
                              /\ OwnerOf(c)' = "nobody"
      BY <1>4, <2>1 DEF DropKind, EraseKind, MgmtOwns, Present, Missing,
                        OwnerOf, Inv, TypeOK
    <2> QED
      BY <2>2, <2>3 DEF Promise!Next, Promise!Discard, Promise!OwnedBy
  <1>5. CASE CreateKind
    <2>1. Host = "none" /\ Host' = "kind"
      BY <1>5 DEF CreateKind, Host, Inv, NoRebuild
    <2>2. \A c \in Clusters : OwnerOf(c)' = OwnerOf(c)
      BY <1>5 DEF CreateKind, OwnerOf
    <2> QED
      BY <2>1, <2>2 DEF Promise!Next, Promise!Raise
  <1>6. CASE DeleteKind
    <2>1. Present(src) = {} /\ Paused(tgt) = {} /\ MgmtCluster \in Present(tgt)
      BY <1>6 DEF DeleteKind, Travel, AllLeft, AfterMove, NonePausedLeft,
                  AfterUnpause
    <2>2. Host = "kind" /\ Host' = "retired"
      BY <1>1, <1>6, <2>1
      DEF DeleteKind, EraseKind, Host, MgmtOwns, Present, Missing, Running
    <2>3. \A c \in Clusters : /\ OwnerOf(c) \in {"nobody", "mgmt"}
                              /\ OwnerOf(c)' = OwnerOf(c)
      BY <1>6, <2>1 DEF DeleteKind, EraseKind, Present, Missing, Paused,
                        OwnerOf, Inv, TypeOK
    <2> QED
      BY <2>2, <2>3 DEF Promise!Next, Promise!Retire, Promise!OwnedBy
  <1>7. ASSUME NEW k \in Kustomizations, FluxApply(k)
        PROVE  Promise!Next
    <2> DEFINE S == ClustersOf[k] \cap Missing(src)
    <2>1. ~MgmtOwns
      BY <1>7 DEF FluxApply, Live, Inv, QuietOnceShared
    <2>2. Host = "kind" /\ Host' = "kind"
      BY <1>7 DEF FluxApply, Host
    <2>3. \A c \in Clusters : OwnerOf(c) \in {"nobody", "kind"}
      BY <2>1 DEF MgmtOwns, Present, Missing, OwnerOf, Inv, TypeOK
    <2>4. \A c \in Clusters : OwnerOf(c)' = IF c \in S THEN "kind" ELSE OwnerOf(c)
      BY <1>7, <2>1
      DEF FluxApply, MgmtOwns, Present, Missing, OwnerOf, Inv, TypeOK
    <2>5. S \in SUBSET Clusters
      BY DEF Missing
    <2>6. Promise!Claim(S)
      BY <2>2, <2>3, <2>4 DEF Promise!Claim, Promise!OwnedBy
    <2> QED
      BY <2>5, <2>6 DEF Promise!Next
  <1>8. CASE MovePause
    <2>1. kind = "up" /\ kind' = "up"
      BY <1>1, <1>8 DEF MovePause, Running
    <2>2. \A c \in Clusters : OwnerOf(c)' = OwnerOf(c)
      BY <1>8 DEF MovePause, OwnerOf, Inv, TypeOK
    <2> QED
      BY <2>1, <2>2 DEF Promise!vars, Host
  <1>9. ASSUME NEW c \in Clusters, MoveCreate(c)
        PROVE  [Promise!Next]_(Promise!vars)
    <2>1. kind = "up" /\ kind' = "up"
      BY <1>1, <1>9 DEF MoveCreate, Running
    <2>2. src[c] # "none" /\ tgt[c] # "live"
      BY <1>9 DEF MoveCreate, Travel, CopiedSoFar, AllLeft, Present, Missing
    <2>3. \A d \in Clusters \ {c} : OwnerOf(d)' = OwnerOf(d)
      BY <1>9 DEF MoveCreate, OwnerOf, Inv, TypeOK
    <2>4. OwnerOf(c)' = "transit"
      BY <1>9 DEF MoveCreate, OwnerOf, Inv, TypeOK
    <2>5. CASE tgt[c] = "none"
      <3>1. OwnerOf(c) = "kind"
        BY <2>2, <2>5 DEF OwnerOf
      <3>2. Promise!Lift(c)
        BY <2>1, <2>3, <2>4, <3>1 DEF Promise!Lift, Host
      <3> QED
        BY <3>2 DEF Promise!Next
    <2>6. CASE tgt[c] = "paused"
      <3>1. OwnerOf(c) = "transit"
        BY <2>6 DEF OwnerOf
      <3> QED
        BY <2>1, <2>3, <2>4, <3>1 DEF Promise!vars, Host
    <2> QED
      BY <2>2, <2>5, <2>6 DEF Inv, TypeOK
  <1>10. ASSUME NEW c \in Clusters, MoveDelete(c)
         PROVE  UNCHANGED Promise!vars
    <2>1. kind = "up" /\ kind' = "up"
      BY <1>1, <1>10 DEF MoveDelete, Running
    <2>2. tgt[c] # "none"
      BY <1>10 DEF MoveDelete, Travel, PurgedSoFar, Present, Missing
    <2>3. \A d \in Clusters : OwnerOf(d)' = OwnerOf(d)
      BY <1>10, <2>2 DEF MoveDelete, OwnerOf, Inv, TypeOK
    <2> QED
      BY <2>1, <2>3 DEF Promise!vars, Host
  <1>11. ASSUME NEW c \in Clusters, Unpause(c)
         PROVE  [Promise!Next]_(Promise!vars)
    <2>1. kind = "up" /\ kind' = "up"
      BY <1>1, <1>11 DEF Unpause, Running
    <2>2. Present(src) = {} /\ tgt[c] # "none"
      BY <1>11 DEF Unpause, Travel, AllLeft, AfterMove, UnpausesMoved, Present,
                   Missing
    <2>3. \A d \in Clusters \ {c} : OwnerOf(d)' = OwnerOf(d)
      BY <1>11 DEF Unpause, OwnerOf, Inv, TypeOK
    <2>4. OwnerOf(c)' = "mgmt"
      BY <1>11 DEF Unpause, OwnerOf, Inv, TypeOK
    <2>5. CASE tgt[c] = "paused"
      <3>1. OwnerOf(c) = "transit"
        BY <2>5 DEF OwnerOf
      <3>2. \A d \in Clusters : OwnerOf(d) \in {"nobody", "transit", "mgmt"}
        BY <2>2, OwnerCases DEF Present, Missing, Inv, TypeOK, OwnerOf
      <3>3. Promise!Land(c)
        BY <2>1, <2>3, <2>4, <3>1, <3>2 DEF Promise!Land, Promise!OwnedBy, Host
      <3> QED
        BY <3>3 DEF Promise!Next
    <2>6. CASE tgt[c] = "live"
      <3>1. OwnerOf(c) = "mgmt"
        BY <2>6 DEF OwnerOf
      <3> QED
        BY <2>1, <2>3, <2>4, <3>1 DEF Promise!vars, Host
    <2> QED
      BY <2>2, <2>5, <2>6 DEF Inv, TypeOK
  <1>12. ASSUME NEW c \in Clusters, FluxApplyOnTarget(c)
         PROVE  Promise!Next
    <2>1. Present(src) = {} /\ Paused(tgt) = {}
      BY <1>12 DEF FluxApplyOnTarget, Travel, AllLeft, NonePausedLeft
    <2>2. Host' = Host
      BY <1>12 DEF FluxApplyOnTarget, Host, MgmtOwns
    <2>3. \A d \in Clusters : OwnerOf(d) \in {"nobody", "mgmt"}
      BY <2>1 DEF Present, Missing, Paused, OwnerOf, Inv, TypeOK
    <2>4. \A d \in Clusters \ {c} : OwnerOf(d)' = OwnerOf(d)
      BY <1>12 DEF FluxApplyOnTarget, OwnerOf, Inv, TypeOK
    <2>5. OwnerOf(c) = "nobody" /\ OwnerOf(c)' = "mgmt"
      BY <1>12, <2>1 DEF FluxApplyOnTarget, OwnerOf, Present, Missing, Inv, TypeOK
    <2>6. Promise!SelfClaim(c)
      BY <2>2, <2>3, <2>4, <2>5 DEF Promise!SelfClaim, Promise!OwnedBy
    <2> QED
      BY <2>6 DEF Promise!Next
  <1>13. CASE Bootstrap
    BY <1>2, <1>3, <1>4, <1>5, <1>13
    DEF Bootstrap, ReuseKind, StartRegistry, InstallFluxOperator, EnsureRunTags,
        DropSopsKey, ApplySecrets, InstallFluxInstance, WatchReconciliation,
        Install, Running
  <1>14. CASE Prepare
    BY <1>2, <1>3, <1>14
    DEF Prepare, CheckContext, WaitForDefinition, WaitForKubeconfig,
        ExportKubeconfig, WaitForNodes, InstallCapiOperator,
        ApplyPivotManifests, WaitForProviders, InstallOnTarget, Running
  <1>15. CASE Move
    BY <1>2, <1>8, <1>9, <1>10, <1>11, <1>15
    DEF Move, ListKustomizations, SuspendKustomization, MoveCreated,
        MoveDeleted, ListMoved, Unpaused, ApplyFallbacks
  <1>16. CASE Finish
    BY <1>2, <1>6, <1>16 DEF Finish, PublishArtifact, GuardDeletion
  <1>17. CASE Environment
    BY <1>2, <1>7, <1>12, <1>17
    DEF Environment, FluxBegin, Provision, RegistryStops
  <1>18. CASE GiveUp \/ Fail \/ (\E o \in RunOptions : Start(o)) \/ UNCHANGED vars
    BY <1>2, <1>18 DEF GiveUp, Fail, Start, vars
  <1> QED
    BY <1>13, <1>14, <1>15, <1>16, <1>17, <1>18 DEF Next, CliStep

(* The bootstrap run, with every failure and rerun it survives, implements *)
(* Handoff: each Cluster passes once from kind to the management cluster,  *)
(* is reconciled by at most one of them, and kind is retired last          *)
(* (main.rs 2746-3009).                                                    *)
THEOREM Refinement ==
  Calm /\ "unpause" \notin Hazards => (Spec => ImplementsHandoff)
  <1> SUFFICES ASSUME Calm, "unpause" \notin Hazards
               PROVE  Spec => ImplementsHandoff
    OBVIOUS
  <1>1. Init => Promise!Init /\ NonePausedLeft
    BY PromiseInit DEF Init, NonePausedLeft, Paused, AfterUnpause, Seeding, Sites
  <1>2. Inv /\ Travel /\ NonePausedLeft /\ [Next]_vars => NonePausedLeft'
    BY NonePausedStep
  <1>3. Inv /\ Inv' /\ Travel /\ NonePausedLeft /\ [Next]_vars
          => [Promise!Next]_(Promise!vars)
    BY PromiseStep
  <1> QED
    BY TravelInvariance, <1>1, <1>2, <1>3, PTL
    DEF Spec, ImplementsHandoff, Promise!Spec

---------------------------------------------------------------------------
(* No step of any party takes a Cluster from the management cluster.       *)
LEMMA TargetGrows ==
  ASSUME TypeOK, [Next]_vars
  PROVE  Present(tgt) \subseteq Present(tgt)'
  <1> USE DEF World, run, flux, Present, Missing, TypeOK
  <1>1. CASE UNCHANGED tgt
    BY <1>1
  <1>2. ASSUME NEW c \in Clusters, MoveCreate(c) \/ Unpause(c) \/ FluxApplyOnTarget(c)
        PROVE  Present(tgt) \subseteq Present(tgt)'
    BY <1>2 DEF MoveCreate, Unpause, FluxApplyOnTarget
  <1>3. CASE Bootstrap \/ Prepare
    BY <1>1, <1>3
    DEF Bootstrap, ReuseKind, DropKind, CreateKind, StartRegistry,
        InstallFluxOperator, EnsureRunTags, DropSopsKey, ApplySecrets,
        InstallFluxInstance, WatchReconciliation, Install, Prepare, CheckContext,
        WaitForDefinition, WaitForKubeconfig, ExportKubeconfig, WaitForNodes,
        InstallCapiOperator, ApplyPivotManifests, WaitForProviders, InstallOnTarget
  <1>4. CASE Move \/ Finish
    BY <1>1, <1>2, <1>4
    DEF Move, ListKustomizations, SuspendKustomization, MovePause, MoveCreated,
        MoveDelete, MoveDeleted, ListMoved, Unpaused, ApplyFallbacks, Finish,
        PublishArtifact, GuardDeletion, DeleteKind
  <1>5. CASE Environment
    BY <1>1, <1>2, <1>5
    DEF Environment, FluxBegin, FluxApply, Provision, RegistryStops
  <1>6. CASE GiveUp \/ Fail \/ (\E o \in RunOptions : Start(o)) \/ UNCHANGED vars
    BY <1>1, <1>6 DEF GiveUp, Fail, Start, vars
  <1> QED
    BY <1>3, <1>4, <1>5, <1>6 DEF Next, CliStep

---------------------------------------------------------------------------
(* What a seeding step finds on the cluster it works on, and the target    *)
(* when a run returns to it: the properties of the FluxInstance are those  *)
(* of the steps before it, and of its absence until then.                  *)

\* The operator and the tags come first, on either cluster.
TagsFirst ==
  /\ Seeding /\ pc # "operator" => "operator" \in has[site]
  /\ pc \in {"dropkey", "applykey", "instance"} => "tags" \in has[site]

\* The credentials reach the target with the pivot manifests, the key with
\* the secrets of Phase 5.
SecretsFirst ==
  ~Local =>
    /\ \/ pc \in {"providers", "list", "suspend"}
       \/ Moving \/ AfterUnpause
       => "creds" \in has["mgmt"]
    /\ pc = "instance" /\ site = "mgmt" => "key" \in has["mgmt"]

\* The run that seeds the target finds no Flux there: none of its
\* predecessors came as far, and dropping the key disturbs nobody.
SeededOnce ==
  Preparing \/ Moving \/ pc \in {"relist", "push"} \/ (Seeding /\ site = "mgmt")
    => "instance" \notin has["mgmt"]

Seeds == SeededBeforeFlux /\ TagsFirst /\ SecretsFirst /\ SeededOnce

LEMMA SeedsInit == Init => Seeds
  BY DEF Init, Seeds, SeededBeforeFlux, TagsFirst, SecretsFirst, SeededOnce, Preparing,
         Moving, AfterUnpause, Seeding, Sites

LEMMA SeedsStep == Inv /\ Travel /\ Inv' /\ Travel' /\ Seeds /\ [Next]_vars => Seeds'
  <1> SUFFICES ASSUME Inv, Travel, Inv', Travel', Seeds, [Next]_vars
               PROVE  Seeds'
    OBVIOUS
  <1> USE MgmtAssumption
      DEF MgmtAssumption, Seeds, SeededBeforeFlux, TagsFirst, SecretsFirst,
          SeededOnce, Inv, TypeOK, StartsOnKind, Preparing, Moving, AfterUnpause,
          Seeding, Local, Items, Sites, World, run, flux, Step
  <1>1. CASE Bootstrap
    <2>1. CASE ReuseKind \/ CreateKind \/ StartRegistry \/ WatchReconciliation
      BY <2>1 DEF ReuseKind, CreateKind, StartRegistry, WatchReconciliation
    <2>2. CASE DropKind
      BY <2>2 DEF DropKind, EraseKind
    <2>3. CASE InstallFluxOperator
      BY <2>3 DEF InstallFluxOperator, Install
    <2>4. CASE EnsureRunTags
      BY <2>4 DEF EnsureRunTags, Install
    <2>5. CASE DropSopsKey
      BY <2>5 DEF DropSopsKey
    <2>6. CASE ApplySecrets
      BY <2>6 DEF ApplySecrets, Install
    <2>7. CASE InstallFluxInstance
      BY <2>7 DEF InstallFluxInstance
    <2> QED
      BY <1>1, <2>1, <2>2, <2>3, <2>4, <2>5, <2>6, <2>7 DEF Bootstrap
  <1>2. ASSUME Preparing' \/ pc' = "copy"
        PROVE  "instance" \notin has'["mgmt"]
    BY <1>2 DEF Travel, SourceHeld, AllLeft, Present, Missing
  <1>3. CASE Prepare
    <2>1. CASE CheckContext \/ WaitForDefinition \/ WaitForKubeconfig
               \/ ExportKubeconfig \/ WaitForNodes
      BY <1>2, <2>1 DEF CheckContext, WaitForDefinition, WaitForKubeconfig,
         ExportKubeconfig, WaitForNodes
    <2>2. CASE InstallCapiOperator
      BY <1>2, <2>2 DEF InstallCapiOperator, InstallOnTarget
    <2>3. CASE ApplyPivotManifests
      BY <1>2, <2>3 DEF ApplyPivotManifests, InstallOnTarget
    <2>4. CASE WaitForProviders
      BY <1>2, <2>4 DEF WaitForProviders, InstallOnTarget
    <2> QED
      BY <1>3, <2>1, <2>2, <2>3, <2>4 DEF Prepare
  <1>4. CASE Move
    BY <1>4
    DEF Move, ListKustomizations, SuspendKustomization, MovePause, MoveCreate,
        MoveCreated, MoveDelete, MoveDeleted, ListMoved, Unpause, Unpaused,
        ApplyFallbacks
  <1>5. CASE Finish
    <2>1. CASE PublishArtifact \/ GuardDeletion
      BY <2>1 DEF PublishArtifact, GuardDeletion
    <2>2. CASE DeleteKind
      BY <2>2 DEF DeleteKind, EraseKind
    <2> QED
      BY <1>5, <2>1, <2>2 DEF Finish
  <1>6. CASE Environment
    BY <1>6 DEF Environment, FluxBegin, FluxApply, FluxApplyOnTarget, Provision,
       RegistryStops
  <1>7. CASE GiveUp \/ Fail \/ (\E o \in RunOptions : Start(o)) \/ UNCHANGED vars
    BY <1>7 DEF GiveUp, Fail, Start, vars
  <1> QED
    BY <1>1, <1>3, <1>4, <1>5, <1>6, <1>7 DEF Next, CliStep

(* Flux never starts without what its Kustomizations substitute, on either *)
(* cluster, whatever failed between the seeding steps and however often    *)
(* they were repeated (main.rs 2913-2920).                                 *)
THEOREM Seeded == Calm => (Spec => []SeededBeforeFlux)
  <1> SUFFICES ASSUME Calm PROVE Spec => []SeededBeforeFlux
    OBVIOUS
  <1>1. Seeds => SeededBeforeFlux
    BY DEF Seeds
  <1> QED
    BY TravelInvariance, SeedsInit, SeedsStep, <1>1, PTL DEF Spec

(* The order in which the objects travel, which the runs check on small    *)
(* instances, holds on all (main.rs 2746-2985).                            *)
THEOREM Travels == Calm => (Spec => []TravelInv)
  <1> SUFFICES ASSUME Calm PROVE Spec => []TravelInv
    OBVIOUS
  <1>1. Inv /\ Travel => TravelInv
    BY DEF Travel, TravelInv
  <1> QED
    BY TravelInvariance, <1>1, PTL

---------------------------------------------------------------------------
(* The models around the run (RunTags, EipQuota, Client) add to its steps  *)
(* only further ways to end it, so that they carry its invariants along.   *)
Carried == Inv /\ Travel /\ Seeds

LEMMA CarriedInit == Init => Carried /\ NonePausedLeft
  <1> SUFFICES ASSUME Init PROVE Carried /\ NonePausedLeft
    OBVIOUS
  <1>1. NonePausedLeft
    BY DEF Init, NonePausedLeft, Paused, AfterUnpause, Seeding, Sites
  <1> QED
    BY <1>1, InvInit, TravelInit, SeedsInit DEF Carried

LEMMA CarriedStep == Calm /\ Carried /\ [Next]_vars => Carried'
  BY InvStep, TravelStep, SeedsStep DEF Carried

LEMMA CarriedMeans ==
  Carried => OneOwner /\ SeededBeforeFlux /\ TravelInv
  <1> SUFFICES ASSUME Carried PROVE OneOwner /\ SeededBeforeFlux /\ TravelInv
    OBVIOUS
  <1>1. OneOwner
    BY DEF Carried, Inv, OneOwner, QuietOnceShared, MgmtOwns, NoneLive, Present,
           Missing
  <1>2. SeededBeforeFlux /\ TravelInv
    BY DEF Carried, Seeds, Travel, TravelInv
  <1> QED
    BY <1>1, <1>2

(* A run that ends without doing anything, whatever it was about to do.    *)
EndsIdle == pc' = "failed" /\ UNCHANGED <<run, World, has, registry>>

LEMMA EndsIdleStep ==
  ASSUME Carried, EndsIdle
  PROVE  /\ Carried'
         /\ NonePausedLeft => NonePausedLeft'
         /\ UNCHANGED Promise!vars
  <1> USE DEF EndsIdle, World, run, flux
  <1>1. Inv'
    BY DEF Carried, Inv, TypeOK, Ended, EmptyWithoutKind, RootDeclaresAll, AllDeclared,
           NoneForgotten, StaysQuiet, QuietOnceShared, StartsOnKind, NoRebuild,
           Preparing, Seeding, Quiesced, NoneLive, MgmtOwns, Present, Missing, Running
  <1>2. Travel'
    BY DEF Carried, Travel, SourceHeld, CopiedSoFar, PurgedSoFar, UnpausesMoved,
           AllLeft, AfterMove, AfterUnpause, Preparing, Seeding, Present, Missing
  <1>3. Seeds'
    BY DEF Carried, Seeds, SeededBeforeFlux, TagsFirst, SecretsFirst, SeededOnce,
           Preparing, Moving, AfterUnpause, Seeding
  <1>4. NonePausedLeft => NonePausedLeft'
    BY DEF NonePausedLeft, Paused, AfterUnpause, Seeding
  <1>5. UNCHANGED Promise!vars
    BY Stutter
  <1> QED
    BY <1>1, <1>2, <1>3, <1>4, <1>5 DEF Carried
=============================================================================
