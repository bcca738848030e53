--------------------------- MODULE TeardownProofs ---------------------------
(***************************************************************************)
(* Theorems about teardown, for every set of Clusters, every profile, any  *)
(* options and any number of failures and reruns.                          *)
(***************************************************************************)
EXTENDS Teardown, TLAPS

---------------------------------------------------------------------------
(* Type correctness.                                                       *)

LEMMA TypeInit == Init => TypeOK
  <1> SUFFICES ASSUME Init PROVE TypeOK
    OBVIOUS
  <1> USE MgmtAssumption, InstanceAssumption
      DEF MgmtAssumption, InstanceAssumption, Sites, Nothing, LiveOf, BuiltOf
  <1>1. /\ pc \in Ended \cup Running /\ opts \in Options
        /\ host \in Sites \cup {"none"} /\ todo \subseteq Clusters
        /\ current \in Clusters /\ faults \in 0..MaxFaults
        /\ leaving = {}
    BY DEF Init, Ended
  <1>4. registry \in BOOLEAN /\ stranded \in BOOLEAN
    BY DEF Init, Local
  <1>2. CASE BeforeMove
    BY <1>1, <1>2, <1>4 DEF BeforeMove, TypeOK
  <1>3. ASSUME NEW place, AfterMove(place)
        PROVE  TypeOK
    BY <1>1, <1>3, <1>4 DEF AfterMove, TypeOK
  <1> QED
    BY <1>2, <1>3 DEF Init

LEMMA LoseType ==
  ASSUME TypeOK, NEW s \in Sites, Lose(s)
  PROVE  /\ up' \subseteq Sites /\ flux' \subseteq up'
         /\ leaving' \subseteq capi' /\ capi' \subseteq up'
         /\ objs' \in [Sites -> [Clusters -> {"none", "live", "deleting"}]]
         /\ suspended' \in [Sites -> SUBSET Clusters]
  BY DEF TypeOK, Lose, Nothing

LEMMA DestroyType ==
  ASSUME TypeOK, NEW c \in Clusters, Destroy(c)
  PROVE  /\ up' \subseteq Sites /\ flux' \subseteq up'
         /\ leaving' \subseteq capi' /\ capi' \subseteq up'
         /\ objs' \in [Sites -> [Clusters -> {"none", "live", "deleting"}]]
         /\ suspended' \in [Sites -> SUBSET Clusters]
         /\ infra' \in [Clusters -> {"none", "built"}]
  <1>1. infra' \in [Clusters -> {"none", "built"}]
    BY DEF TypeOK, Destroy
  <1>2. CASE c = MgmtCluster
    BY <1>1, <1>2, LoseType DEF Destroy, Sites
  <1>3. CASE c # MgmtCluster
    BY <1>1, <1>3 DEF Destroy, KeepSites, TypeOK
  <1> QED
    BY <1>2, <1>3

LEMMA TypeStep == TypeOK /\ [Next]_vars => TypeOK'
  <1> SUFFICES ASSUME TypeOK, [Next]_vars
               PROVE  TypeOK'
    OBVIOUS
  <1> USE MgmtAssumption, InstanceAssumption
      DEF MgmtAssumption, InstanceAssumption, TypeOK, Ended, Running, Sites,
          Goto, run, world
  <1>1. CASE Discover
    <2>1. ASSUME FindHost PROVE host' \in Sites \cup {"none"}
      BY <2>1 DEF FindHost, Prefer
    <2>2. CASE DiscoverLocal
      BY <2>1, <2>2 DEF DiscoverLocal, Doomed
    <2>3. CASE DiscoverTalos
      BY <2>1, <2>3 DEF DiscoverTalos
    <2>4. CASE DiscoverAws
      BY <2>1, <2>4 DEF DiscoverAws
    <2> QED
      BY <1>1, <2>2, <2>3, <2>4 DEF Discover
  <1>2. CASE DeleteClusters
    <2>1. CASE ListKustomizations
      BY <2>1 DEF ListKustomizations
    <2>2. CASE Patched
      BY <2>2 DEF Patched
    <2>3. CASE ListClusters
      BY <2>3 DEF ListClusters, Doomed, On
    <2>4. ASSUME NEW c \in Clusters, Patch(c)
          PROVE  TypeOK'
      BY <2>4 DEF Patch
    <2>5. ASSUME NEW c \in Clusters, DeleteCluster(c)
          PROVE  TypeOK'
      BY <2>5 DEF DeleteCluster, RequestDeletion
    <2>6. ASSUME NEW c \in Clusters, SkipAbsent(c)
          PROVE  TypeOK'
      BY <2>6 DEF SkipAbsent
    <2>7. ASSUME NEW c \in Clusters, DeleteWorkload(c)
          PROVE  TypeOK'
      BY <2>7 DEF DeleteWorkload, RequestDeletion
    <2>8. CASE DeleteReturns \/ AllDeleted \/ AwaitGone \/ WorkloadGone \/ WorkloadsGone
      BY <2>8 DEF DeleteReturns, AllDeleted, AwaitGone, WorkloadGone, WorkloadsGone
    <2> QED
      BY <1>2, <2>1, <2>2, <2>3, <2>4, <2>5, <2>6, <2>7, <2>8 DEF DeleteClusters
  <1>3. CASE Sweep
    <2>1. CASE PlanSweep \/ SweepDone
      BY <2>1 DEF PlanSweep, SweepDone
    <2>2. ASSUME NEW c \in Clusters, SweepTarget(c)
          PROVE  TypeOK'
      <3>1. CASE Destroy(c)
        BY <2>2, <3>1, DestroyType DEF SweepTarget
      <3>2. CASE UNCHANGED infra /\ KeepSites
        BY <2>2, <3>2 DEF SweepTarget, KeepSites
      <3> QED
        BY <2>2, <3>1, <3>2 DEF SweepTarget
    <2> QED
      BY <1>3, <2>1, <2>2 DEF Sweep
  <1>4. CASE Remove
    <2>1. CASE DeleteProviders \/ ProvidersReturn \/ PollProviders
      BY <2>1 DEF DeleteProviders, ProvidersReturn, PollProviders
    <2>2. CASE UninstallHelm
      BY <2>2 DEF UninstallHelm
    <2>3. CASE RemoveHost
      <3>1. /\ pc' \in Ended \cup Running
            /\ UNCHANGED <<run, todo, kubeconfig, registry>>
        BY <2>3 DEF RemoveHost
      <3>2. CASE Lose("kind") /\ UNCHANGED infra
        BY <3>1, <3>2, LoseType
      <3>3. CASE Destroy(MgmtCluster)
        BY <3>1, <3>3, DestroyType
      <3>4. CASE UNCHANGED infra /\ KeepSites
        BY <3>1, <3>4 DEF KeepSites
      <3> QED
        BY <2>3, <3>2, <3>3, <3>4 DEF RemoveHost
    <2>4. CASE RemoveRegistry
      BY <2>4 DEF RemoveRegistry
    <2> QED
      BY <1>4, <2>1, <2>2, <2>3, <2>4 DEF Remove
  <1>5. CASE Controllers
    <2>1. ASSUME NEW s \in Sites, NEW c \in Clusters, FluxRecreates(s, c)
          PROVE  TypeOK'
      BY <2>1 DEF FluxRecreates
    <2>2. ASSUME NEW s \in Sites, NEW c \in Clusters, Build(s, c)
          PROVE  TypeOK'
      BY <2>2 DEF Build
    <2>3. ASSUME NEW s \in Sites, NEW c \in Clusters, Deprovision(s, c)
          PROVE  TypeOK'
      BY <2>3 DEF Deprovision
    <2>4. ASSUME NEW s \in Sites, NEW c \in Clusters, Finalize(s, c)
          PROVE  TypeOK'
      BY <2>4 DEF Finalize
    <2>5. ASSUME NEW s \in Sites, TakeDown(s)
          PROVE  TypeOK'
      BY <2>5 DEF TakeDown
    <2> QED
      BY <1>5, <2>1, <2>2, <2>3, <2>4, <2>5 DEF Controllers
  <1>6. CASE GiveUp
    BY <1>6 DEF GiveUp
  <1>7. CASE Fail
    BY <1>7 DEF Fail
  <1>8. ASSUME NEW o \in RunOptions, Start(o)
        PROVE  TypeOK'
    BY <1>8 DEF Start
  <1>9. CASE UNCHANGED vars
    BY <1>9 DEF vars
  <1> QED
    BY <1>1, <1>2, <1>3, <1>4, <1>5, <1>6, <1>7, <1>8, <1>9 DEF Next, CliStep

(* Every reachable state is well typed; in particular what runs on a site  *)
(* is gone when the site is (teardown.rs 1862-2446).                       *)
THEOREM Typed == Spec => []TypeOK
  BY TypeInit, TypeStep, PTL DEF Spec
---------------------------------------------------------------------------
(* The inductive invariant, and the assumption it is true under. None of   *)
(* the properties is inductive: whether Flux can bring a deleted Cluster   *)
(* back depends on where the Clusters are, on what is suspended there, and *)
(* on whether that is the host the run works with.                         *)

(* No probe of a running cluster fails and no Kustomization escapes the    *)
(* suspension; the inventory is where the run will look for it: not on the *)
(* management cluster with kind kept, nor without an exported kubeconfig,  *)
(* and on local-host moved, as nothing is suspended on kind there.         *)
(* Failures of strict steps, of deletions, of the sweep and of removals,   *)
(* and Clusters that keep their finalizer, are not excluded.               *)
Steady ==
  /\ Hazards \cap {"unreachable", "patch"} = {}
  /\ \A p \in Profiles : Placements[p] \subseteq {"kind", "mgmt"}
  /\ "kind" \notin Placements["local-host"]

(* Nothing is on a site, and nothing will be.                              *)
Bare(s) == On(s) = {} /\ s \notin flux /\ s \notin capi

(* Nothing teardown deletes through s is there, and none comes back.       *)
Quiet(s) == s \in flux => Doomed \subseteq suspended[s]
Released == \A s \in Sites : On(s) \cap Doomed = {} /\ Quiet(s)

\* Nothing outlives its site.
SitesInv == \A s \in Sites \ up : Bare(s)

\* The inventory is on kind, or where the kubeconfig leads.
HomeInv == \/ Bare("mgmt") /\ ~Local
           \/ "kind" \notin up /\ kubeconfig

\* The run works with the site that holds it.
AtHome ==
  /\ \A s \in Sites \ {host} : Bare(s)
  /\ Local => host = "mgmt"
HostInv == pc \in Running \ {"discover"} /\ ~opts.awsOnly => AtHome

\* The patch loop covers every Kustomization of the host.
SuspendedInv ==
  /\ pc = "patch" /\ host \in flux => Doomed \subseteq suspended[host] \cup todo
  /\ pc \in {"list", "delete", "deleting", "await"} => Quiet(host)

\* The loop of the local-host path leaves none behind.
DeletedInv ==
  Local =>
    /\ pc = "delete" => On(host) \cap Doomed \subseteq todo
    /\ pc = "deleting" => On(host) \cap Doomed \subseteq todo \cup {current}

\* What is irreversible comes after the release.
ReleasedInv ==
  pc \in { "sweep", "sweeping", "providers", "releasing", "released", "helm",
           "host", "registry", "complete" }
    /\ ~opts.awsOnly => Released

IInv ==
  /\ TypeOK
  /\ SitesInv
  /\ HomeInv
  /\ HostInv
  /\ SuspendedInv
  /\ DeletedInv
  /\ ReleasedInv

LEMMA InvInit == Steady /\ Init => IInv
  <1> SUFFICES ASSUME Steady, Init PROVE IInv
    OBVIOUS
  <1> USE DEF Sites, Running, Ended, Nothing, LiveOf, BuiltOf
  <1>1. TypeOK
    BY TypeInit
  <1>2. pc = "idle" /\ opts.profile \in Profiles
    BY <1>1 DEF Init, TypeOK, Options
  <1>3. HostInv /\ SuspendedInv /\ DeletedInv /\ ReleasedInv
    BY <1>2 DEF HostInv, SuspendedInv, DeletedInv, ReleasedInv
  <1>4. SitesInv /\ HomeInv
    <2>1. CASE BeforeMove /\ "kind" \in Placements[opts.profile]
      <3>1. ~Local
        BY <2>1 DEF Steady, Local
      <3>2. Bare("mgmt") /\ up \in {Sites, {"kind"}}
        BY <2>1 DEF BeforeMove, Bare, On
      <3> QED
        BY <3>1, <3>2 DEF SitesInv, HomeInv
    <2>2. CASE AfterMove("mgmt")
      <3>1. Bare("kind") /\ up = {"mgmt"} /\ kubeconfig
        BY <2>2 DEF AfterMove, Bare, On
      <3> QED
        BY <3>1 DEF SitesInv, HomeInv
    <2>3. \E place \in Placements[opts.profile] :
            IF place = "kind" THEN BeforeMove ELSE AfterMove(place)
      BY DEF Init
    <2>4. Placements[opts.profile] \subseteq {"kind", "mgmt"}
      BY <1>2 DEF Steady
    <2> QED
      BY <2>1, <2>2, <2>3, <2>4
  <1> QED
    BY <1>1, <1>3, <1>4 DEF IInv

(* What any step may do to the sites and to what is on them.               *)
Effects ==
  /\ opts'.profile = opts.profile
  /\ kubeconfig' = kubeconfig
  /\ flux' \subseteq flux /\ capi' \subseteq capi
  /\ "kind" \in up' => "kind" \in up
  /\ \A s \in Sites, c \in Clusters :
       objs[s][c] = "none" /\ objs'[s][c] # "none" =>
         s \in flux /\ c \notin suspended[s]
  /\ \A s \in flux' : suspended[s] \subseteq suspended'[s]
  /\ \A s \in up \ up' : On(s)' = {}

LEMMA LoseEffects ==
  ASSUME TypeOK, NEW s \in Sites, Lose(s), UNCHANGED <<opts, kubeconfig>>
  PROVE  Effects
  BY DEF Effects, TypeOK, Lose, Nothing, On

LEMMA KeepEffects ==
  ASSUME TypeOK, KeepSites, UNCHANGED <<opts, kubeconfig>>
  PROVE  Effects
  BY DEF Effects, KeepSites

LEMMA DestroyEffects ==
  ASSUME TypeOK, NEW c \in Clusters, Destroy(c), UNCHANGED <<opts, kubeconfig>>
  PROVE  Effects
  BY LoseEffects, KeepEffects DEF Destroy, Sites

LEMMA StepEffects == TypeOK /\ [Next]_vars => Effects
  <1> SUFFICES ASSUME TypeOK, [Next]_vars
               PROVE  Effects
    OBVIOUS
  <1> USE MgmtAssumption DEF MgmtAssumption, Goto, run, world
  <1>1. CASE UNCHANGED <<opts, world>>
    BY <1>1, KeepEffects DEF KeepSites
  <1>2. CASE Discover
    BY <1>1, <1>2 DEF Discover, DiscoverLocal, DiscoverTalos, DiscoverAws
  <1>3. CASE DeleteClusters
    <2>1. CASE ListKustomizations \/ Patched \/ ListClusters \/ DeleteReturns
               \/ AllDeleted \/ AwaitGone \/ WorkloadGone \/ WorkloadsGone
               \/ (\E c \in Clusters : SkipAbsent(c))
      BY <1>1, <2>1 DEF ListKustomizations, Patched, ListClusters, DeleteReturns,
           AllDeleted, AwaitGone, WorkloadGone, WorkloadsGone, SkipAbsent
    <2>2. ASSUME NEW c \in Clusters, Patch(c)
          PROVE  Effects
      BY <2>2 DEF Patch, Effects, TypeOK
    <2>3. ASSUME NEW c \in Clusters, DeleteCluster(c) \/ DeleteWorkload(c)
          PROVE  Effects
      BY <2>3 DEF DeleteCluster, DeleteWorkload, RequestDeletion, Effects, TypeOK
    <2> QED
      BY <1>3, <2>1, <2>2, <2>3 DEF DeleteClusters
  <1>4. CASE Sweep
    BY <1>1, <1>4, DestroyEffects, KeepEffects DEF Sweep, PlanSweep, SweepTarget, SweepDone
  <1>5. CASE Remove
    <2>1. CASE RemoveHost
      BY <2>1, LoseEffects, DestroyEffects, KeepEffects DEF RemoveHost, Sites
    <2>2. CASE DeleteProviders \/ ProvidersReturn \/ PollProviders \/ UninstallHelm \/ RemoveRegistry
      BY <2>2
      DEF DeleteProviders, ProvidersReturn, PollProviders, UninstallHelm,
          RemoveRegistry, Effects, TypeOK
    <2> QED
      BY <1>5, <2>1, <2>2 DEF Remove
  <1>6. CASE Controllers
    <2>1. ASSUME NEW s \in Sites, NEW c \in Clusters, FluxRecreates(s, c)
          PROVE  Effects
      BY <2>1 DEF FluxRecreates, Effects, TypeOK
    <2>2. ASSUME NEW s \in Sites, NEW c \in Clusters, Build(s, c)
          PROVE  Effects
      BY <2>2 DEF Build, Effects, TypeOK
    <2>3. ASSUME NEW s \in Sites, NEW c \in Clusters,
                 Deprovision(s, c) \/ Finalize(s, c)
          PROVE  Effects
      BY <2>3 DEF Deprovision, Finalize, Effects, TypeOK
    <2>4. ASSUME NEW s \in Sites, TakeDown(s)
          PROVE  Effects
      BY <2>4 DEF TakeDown, Effects, TypeOK
    <2> QED
      BY <1>6, <2>1, <2>2, <2>3, <2>4 DEF Controllers
  <1>7. CASE GiveUp \/ Fail
    BY <1>1, <1>7 DEF GiveUp, Fail
  <1>8. ASSUME NEW o \in RunOptions, Start(o)
        PROVE  Effects
    BY <1>8 DEF Start, Effects
  <1>9. CASE UNCHANGED vars
    BY <1>1, <1>9 DEF vars
  <1> QED
    BY <1>2, <1>3, <1>4, <1>5, <1>6, <1>7, <1>8, <1>9 DEF Next, CliStep

(* So a site that is bare stays bare, and what is released stays released. *)
LEMMA BareStays ==
  ASSUME TypeOK, Effects, NEW s \in Sites, Bare(s)
  PROVE  Bare(s)'
  BY DEF Effects, Bare, On, TypeOK

LEMMA QuietStays ==
  ASSUME TypeOK, Effects, NEW s \in Sites, Quiet(s)
  PROVE  Quiet(s)'
  BY DEF Effects, Quiet, Doomed, Talos

LEMMA GoneStays ==
  ASSUME TypeOK, Effects, NEW s \in Sites, Quiet(s),
         NEW c \in Doomed, objs[s][c] = "none"
  PROVE  objs'[s][c] = "none"
  BY MgmtAssumption DEF Effects, Quiet, TypeOK, Doomed

LEMMA ReleasedStays ==
  ASSUME TypeOK, Effects, Released
  PROVE  Released'
  <1>1. Doomed' = Doomed /\ Doomed \subseteq Clusters
    BY DEF Effects, Doomed, Talos
  <1>2. ASSUME NEW s \in Sites PROVE (On(s) \cap Doomed = {})' /\ Quiet(s)'
    BY <1>1, QuietStays, GoneStays DEF Released, On
  <1> QED
    BY <1>2 DEF Released

LEMMA SitesStep ==
  ASSUME TypeOK, TypeOK', Effects, SitesInv, HomeInv
  PROVE  SitesInv' /\ HomeInv'
  <1>1. SitesInv'
    <2> SUFFICES ASSUME NEW s \in Sites, s \notin up' PROVE Bare(s)'
      BY DEF SitesInv
    <2>1. CASE s \in up
      BY <2>1 DEF Effects, Bare, TypeOK
    <2>2. CASE s \notin up
      BY <2>2, BareStays DEF SitesInv
    <2> QED
      BY <2>1, <2>2
  <1>2. CASE Bare("mgmt") /\ ~Local
    BY <1>1, <1>2, BareStays DEF HomeInv, Effects, Local, Sites
  <1>3. CASE "kind" \notin up /\ kubeconfig
    BY <1>1, <1>3 DEF HomeInv, Effects
  <1> QED
    BY <1>1, <1>2, <1>3 DEF HomeInv

---------------------------------------------------------------------------
(* The steps of the run. *)

(* Discovery finds the site that holds the inventory.                      *)
LEMMA Discovery ==
  ASSUME Steady, TypeOK, SitesInv, HomeInv, FindHost
  PROVE  /\ \A s \in Sites \ {host'} : Bare(s)
         /\ Local => host' = "mgmt"
  <1> USE DEF Sites, Prefer, Candidates
  <1>1. host' = Prefer(Candidates)
    BY DEF FindHost, Steady
  <1>2. CASE "kind" \in up
    <2>1. Bare("mgmt") /\ ~Local
      BY <1>2 DEF HomeInv
    <2>2. host' = "kind"
      BY <1>1, <1>2
    <2> QED
      BY <2>1, <2>2
  <1>3. CASE "kind" \notin up
    <2>1. Bare("kind")
      BY <1>3 DEF SitesInv
    <2>2. CASE kubeconfig /\ (Local \/ "mgmt" \in up)
      BY <1>1, <1>3, <2>1, <2>2
    <2>3. CASE ~(kubeconfig /\ (Local \/ "mgmt" \in up))
      <3>1. Bare("mgmt") /\ ~Local
        BY <2>3, <1>3 DEF HomeInv, SitesInv
      <3> QED
        BY <3>1, <2>1
    <2> QED
      BY <2>2, <2>3
  <1> QED
    BY <1>2, <1>3

(* The run's own data changes at its start, in discovery and when it asks  *)
(* for a deletion; the controllers leave it alone.                         *)
LEMMA ControlSteps ==
  ASSUME [Next]_vars
  PROVE  \/ CliStep
         \/ UNCHANGED <<pc, opts, host, todo, current>>
         \/ pc' = "failed" /\ UNCHANGED <<opts, host, todo, current>>
         \/ pc' = "discover" /\ pc \in Ended
  BY DEF Next, Controllers, TakeDown, FluxRecreates, Build, Deprovision, Finalize, GiveUp,
         Fail, Start, vars, run

LEMMA CliKeeps ==
  ASSUME CliStep
  PROVE  /\ opts' = opts
         /\ \/ Discover
            \/ host' = host /\ pc \in Running \ {"discover"}
  <1> USE DEF run, Goto, Running
  <1>1. CASE Discover
    BY <1>1 DEF Discover, DiscoverLocal, DiscoverTalos, DiscoverAws
  <1>2. CASE DeleteClusters
    BY <1>2 DEF DeleteClusters, ListKustomizations, Patched, ListClusters, Patch,
         DeleteCluster, SkipAbsent, DeleteWorkload, DeleteReturns, AllDeleted,
         AwaitGone, WorkloadGone, WorkloadsGone
  <1>3. CASE Sweep
    BY <1>3 DEF Sweep, PlanSweep, SweepTarget, SweepDone
  <1>4. CASE Remove
    BY <1>4
    DEF Remove, DeleteProviders, ProvidersReturn, PollProviders, UninstallHelm,
        RemoveHost, RemoveRegistry
  <1> QED
    BY <1>1, <1>2, <1>3, <1>4 DEF CliStep

LEMMA HostStep ==
  ASSUME Steady, IInv, Effects, [Next]_vars
  PROVE  HostInv'
  <1> SUFFICES ASSUME pc' \in Running \ {"discover"}, ~opts'.awsOnly
               PROVE  AtHome'
    BY DEF HostInv
  <1>1. ASSUME UNCHANGED <<opts, host>>, pc \in Running \ {"discover"}
        PROVE  AtHome'
    BY <1>1, BareStays DEF IInv, HostInv, AtHome, Local
  <1>2. CASE Discover
    <2>1. FindHost /\ opts' = opts
      BY <1>2 DEF Discover, DiscoverLocal, DiscoverTalos, DiscoverAws
    <2> QED
      BY <2>1, Discovery, BareStays DEF IInv, AtHome, Local
  <1>3. CASE CliStep
    BY <1>1, <1>2, <1>3, CliKeeps
  <1>4. CASE UNCHANGED <<pc, opts, host, todo, current>>
    BY <1>1, <1>4
  <1> QED
    BY <1>3, <1>4, ControlSteps DEF Running, Ended

LEMMA SuspendedStep ==
  ASSUME Steady, IInv, Effects, [Next]_vars
  PROVE  SuspendedInv'
  <1> USE DEF SuspendedInv, Goto, run, world
  <1>1. Doomed' = Doomed /\ Doomed \subseteq Clusters
    BY MgmtAssumption DEF MgmtAssumption, Effects, Doomed, Talos
  <1>2. ASSUME UNCHANGED <<opts, host>>, Quiet(host), host \in Sites PROVE Quiet(host)'
    BY <1>2, QuietStays DEF IInv, Quiet
  <1>3. CASE UNCHANGED <<pc, opts, host, todo, current>>
    <2>1. host \in flux' => host \in Sites /\ host \in flux
      BY DEF Effects, IInv, TypeOK
    <2>2. pc = "patch" => SuspendedInv'
      BY <1>1, <1>3, <2>1 DEF IInv, Effects
    <2>3. pc # "patch" => SuspendedInv'
      BY <1>1, <1>2, <1>3, <2>1 DEF IInv, Quiet
    <2> QED
      BY <2>2, <2>3
  <1>4. CASE Discover
    <2>1. CASE DiscoverLocal
      <3>1. host' = "mgmt"
        BY <2>1, Discovery DEF DiscoverLocal, IInv
      <3>2. pc' = "patch" /\ todo' = Doomed
        BY <2>1, <3>1 DEF DiscoverLocal
      <3> QED
        BY <1>1, <3>2
    <2>2. CASE DiscoverTalos \/ DiscoverAws
      BY <2>2 DEF DiscoverTalos, DiscoverAws
    <2> QED
      BY <1>4, <2>1, <2>2 DEF Discover
  <1>5. CASE DeleteClusters
    <2>1. CASE ListKustomizations
      BY <1>1, <2>1 DEF ListKustomizations
    <2>2. CASE Patched
      BY <1>1, <2>2 DEF Patched, IInv, Quiet
    <2>3. ASSUME NEW c \in Clusters, Patch(c)
          PROVE  SuspendedInv'
      BY <1>1, <2>3 DEF Patch, Steady, IInv, TypeOK
    <2>4. CASE UNCHANGED <<opts, host>> /\ pc \in {"list", "delete", "deleting", "await"}
               /\ pc' # "patch"
      <3>1. host \in flux' => host \in Sites
        BY DEF Effects, IInv, TypeOK
      <3> QED
        BY <1>2, <2>4, <3>1 DEF IInv, Quiet
    <2> QED
      BY <1>5, <2>1, <2>2, <2>3, <2>4
      DEF DeleteClusters, ListClusters, DeleteCluster, SkipAbsent, DeleteWorkload,
          DeleteReturns, AllDeleted, AwaitGone, WorkloadGone, WorkloadsGone
  <1>6. CASE Sweep \/ Remove
    BY <1>6 DEF Sweep, PlanSweep, SweepTarget, SweepDone, Remove, DeleteProviders,
       ProvidersReturn, PollProviders, UninstallHelm, RemoveHost, RemoveRegistry
  <1> QED
    BY <1>3, <1>4, <1>5, <1>6, ControlSteps DEF CliStep

LEMMA DeletedStep ==
  ASSUME IInv, TypeOK', Effects, [Next]_vars
  PROVE  DeletedInv'
  <1> SUFFICES ASSUME Local PROVE DeletedInv'
    BY DEF DeletedInv, Effects, Local
  <1> USE DEF DeletedInv, Goto, run, world
  <1>1. Doomed' = Doomed /\ Doomed \subseteq Clusters
    BY MgmtAssumption DEF MgmtAssumption, Effects, Doomed, Talos
  <1>2. ASSUME UNCHANGED host, pc \in {"delete", "deleting"}
        PROVE  On(host)' \cap Doomed \subseteq On(host) \cap Doomed
    BY <1>1, <1>2, GoneStays DEF IInv, SuspendedInv, On
  <1>3. CASE UNCHANGED <<pc, opts, host, todo, current>>
    BY <1>1, <1>2, <1>3 DEF IInv
  <1>4. CASE DeleteClusters
    <2>1. CASE ListClusters
      BY <1>1, <2>1 DEF ListClusters, On
    <2>2. ASSUME NEW c \in Clusters, SkipAbsent(c)
          PROVE  DeletedInv'
      BY <1>1, <1>2, <2>2 DEF SkipAbsent, IInv, On
    <2>3. ASSUME NEW c \in Clusters, DeleteWorkload(c)
          PROVE  DeletedInv'
      BY <1>1, <1>2, <2>3 DEF DeleteWorkload, IInv, On
    <2>4. CASE WorkloadGone
      BY <1>1, <1>2, <2>4 DEF WorkloadGone, Confirmed, IInv, On
    <2>5. CASE pc' \notin {"delete", "deleting"}
      BY <2>5
    <2> QED
      BY <1>4, <2>1, <2>2, <2>3, <2>4, <2>5
      DEF DeleteClusters, ListKustomizations, Patched, Patch, DeleteCluster,
          DeleteReturns, AllDeleted, AwaitGone, WorkloadsGone
  <1>5. CASE Discover \/ Sweep \/ Remove
    BY <1>5 DEF Discover, DiscoverLocal, DiscoverTalos, DiscoverAws, Sweep, PlanSweep,
       SweepTarget, SweepDone, Remove, DeleteProviders, ProvidersReturn, PollProviders,
       UninstallHelm, RemoveHost,
       RemoveRegistry
  <1> QED
    BY <1>3, <1>4, <1>5, ControlSteps DEF CliStep

LEMMA ReleasedStep ==
  ASSUME Steady, IInv, TypeOK', Effects, [Next]_vars
  PROVE  ReleasedInv'
  <1> DEFINE After == {"sweep", "sweeping", "providers", "releasing", "released", "helm", "host",
                       "registry", "complete"}
  <1> SUFFICES ASSUME pc' \in After, ~opts'.awsOnly
               PROVE  Released'
    BY DEF ReleasedInv
  <1> USE DEF Goto, run, world
  <1>1. ASSUME pc \in After, UNCHANGED opts PROVE Released'
    BY <1>1, ReleasedStays DEF IInv, ReleasedInv
  <1>2. ASSUME \A s \in Sites : Bare(s) PROVE Released'
    <2>1. Released
      BY <1>2 DEF Released, Bare, Quiet
    <2> QED
      BY <2>1, ReleasedStays DEF IInv
  <1>3. ASSUME UNCHANGED opts, pc \in {"list", "delete", "await"},
               On(host) \cap Doomed = {}
        PROVE  Released'
    <2>1. AtHome
      BY <1>3 DEF IInv, HostInv, Running
    <2>2. ASSUME NEW s \in Sites PROVE On(s) \cap Doomed = {} /\ Quiet(s)
      BY <1>3, <2>1 DEF AtHome, Bare, Quiet, IInv, SuspendedInv
    <2>3. Released
      BY <2>2 DEF Released
    <2> QED
      BY <2>3, ReleasedStays DEF IInv
  <1>4. CASE Discover
    <2>1. opts' = opts /\ FindHost
      BY <1>4 DEF Discover, DiscoverLocal, DiscoverTalos, DiscoverAws
    <2>2. host' = "none"
      <3>1. CASE DiscoverLocal
        BY <2>1, <3>1, Discovery DEF DiscoverLocal, IInv
      <3> QED
        BY <1>4, <3>1 DEF Discover, DiscoverTalos, DiscoverAws
    <2> QED
      BY <1>2, <2>1, <2>2, Discovery DEF IInv, Sites
  <1>5. CASE DeleteClusters
    <2>1. CASE ListClusters
      <3>1. ~Local /\ On(host) \cap Doomed = {} /\ pc = "list" /\ opts' = opts
        BY <2>1 DEF ListClusters
      <3> QED
        BY <1>3, <3>1
    <2>2. CASE AwaitGone
      BY <1>3, <2>2 DEF AwaitGone, Confirmed
    <2>3. CASE WorkloadsGone
      <3>1. On(host) \cap Doomed = {}
        BY <2>3 DEF WorkloadsGone, IInv, DeletedInv
      <3> QED
        BY <1>3, <2>3, <3>1 DEF WorkloadsGone
    <2> QED
      BY <1>1, <1>5, <2>1, <2>2, <2>3
      DEF DeleteClusters, ListKustomizations, Patched, Patch, DeleteCluster,
          SkipAbsent, DeleteWorkload, DeleteReturns, AllDeleted, WorkloadGone
  <1>6. CASE Sweep \/ Remove
    BY <1>1, <1>6 DEF Sweep, PlanSweep, SweepTarget, SweepDone, Remove,
       DeleteProviders, ProvidersReturn, PollProviders, UninstallHelm, RemoveHost, RemoveRegistry
  <1> QED
    BY <1>1, <1>4, <1>5, <1>6, ControlSteps DEF CliStep

LEMMA InvStep == Steady /\ IInv /\ [Next]_vars => IInv'
  <1> SUFFICES ASSUME Steady, IInv, [Next]_vars PROVE IInv'
    OBVIOUS
  <1>1. TypeOK' /\ Effects
    BY TypeStep, StepEffects DEF IInv
  <1>2. SitesInv' /\ HomeInv'
    BY <1>1, SitesStep DEF IInv
  <1> QED
    BY <1>1, <1>2, HostStep, SuspendedStep, DeletedStep, ReleasedStep DEF IInv

LEMMA Invariance == Steady => (Spec => []IInv)
  <1> SUFFICES ASSUME Steady PROVE Spec => []IInv
    OBVIOUS
  <1> QED
    BY InvInit, InvStep, PTL DEF Spec

---------------------------------------------------------------------------
(* A run that exits 0 has left no Cluster to be deleted on any site that   *)
(* exists, whatever failed in it and before it (docs/bootstrap-cli.md      *)
(* 339-353).                                                               *)
THEOREM ExitIsHonest == Steady => (Spec => []HonestExit)
  <1> SUFFICES ASSUME Steady PROVE Spec => []HonestExit
    OBVIOUS
  <1>1. IInv => HonestExit
    BY DEF IInv, TypeOK, ReleasedInv, Released, HonestExit
  <1> QED
    BY Invariance, <1>1, PTL

(* Machines disappear in the sweep and with the host only.                 *)
LEMMA Demolition ==
  ASSUME [Next]_vars, up \ up' # {}
  PROVE  pc \in {"sweeping", "host"}
  <1> USE DEF run, world, Goto
  <1>1. CASE Discover \/ DeleteClusters
    BY <1>1 DEF Discover, DiscoverLocal, DiscoverTalos, DiscoverAws, DeleteClusters,
       ListKustomizations, Patched, ListClusters, Patch, DeleteCluster, SkipAbsent,
       DeleteWorkload, DeleteReturns, AllDeleted, AwaitGone, WorkloadGone,
       WorkloadsGone
  <1>2. CASE Sweep \/ Remove
    BY <1>2 DEF Sweep, PlanSweep, SweepTarget, SweepDone, Remove, DeleteProviders,
       ProvidersReturn, PollProviders, UninstallHelm, RemoveHost, RemoveRegistry
  <1>3. CASE Controllers
    BY <1>3 DEF Controllers, TakeDown, FluxRecreates, Build, Deprovision, Finalize
  <1>4. CASE GiveUp \/ Fail \/ (\E o \in RunOptions : Start(o)) \/ UNCHANGED vars
    BY <1>4 DEF GiveUp, Fail, Start, vars
  <1> QED
    BY <1>1, <1>2, <1>3, <1>4 DEF Next, CliStep

(* No controller host goes, by the sweep or by its removal, while it holds *)
(* a Cluster to be deleted through it (teardown.rs 318-324).               *)
THEOREM HostsGuarded == Steady => (Spec => HostGuarded)
  <1> SUFFICES ASSUME Steady PROVE Spec => HostGuarded
    OBVIOUS
  <1>1. ASSUME IInv, [Next]_vars, NEW s \in up \ up'
        PROVE  opts.awsOnly \/ On(s) \cap Doomed = {}
    BY <1>1, Demolition DEF IInv, TypeOK, ReleasedInv, Released
  <1>2. IInv /\ [Next]_vars
          => [\A s \in up \ up' : opts.awsOnly \/ On(s) \cap Doomed = {}]_vars
    BY <1>1
  <1> QED
    BY Invariance, <1>2, PTL DEF Spec, HostGuarded

(* The sweep destroys no workload a running controller still reconciles    *)
(* for a live Cluster (teardown.rs 2236-2240, 2385-2388).                  *)
THEOREM SweepUnopposed == Steady => (Spec => WorkloadSweepUnopposed)
  <1> SUFFICES ASSUME Steady PROVE Spec => WorkloadSweepUnopposed
    OBVIOUS
  <1>1. IInv => \A c \in Clusters \ {MgmtCluster} :
                  pc = "sweeping" => opts.awsOnly \/ ~\E s \in capi : objs[s][c] = "live"
    BY DEF IInv, TypeOK, ReleasedInv, Released, Doomed, On
  <1>2. IInv /\ [Next]_vars
          => [\A c \in Clusters \ {MgmtCluster} :
                pc = "sweeping" /\ infra[c] = "built" /\ infra'[c] = "none"
                  => opts.awsOnly \/ ~\E s \in capi : objs[s][c] = "live"]_vars
    BY <1>1
  <1> QED
    BY Invariance, <1>2, PTL DEF Spec, WorkloadSweepUnopposed

---------------------------------------------------------------------------
(* What a completed run leaves outside Kubernetes. The invariant adds that *)
(* infrastructure still has its object, until its machines are destroyed.  *)

(* In addition, the removals themselves go through, the inventory was      *)
(* moved, and nobody gives up the release with AWS_ONLY=1. (Before the     *)
(* move the management cluster's provider outlives the sweep.)             *)
Thorough ==
  /\ Steady
  /\ Hazards \cap {"sweep", "removal"} = {}
  /\ \A p \in Profiles : "kind" \notin Placements[p]
  /\ \A o \in RunOptions : ~o.awsOnly

(* The management cluster is gone, and nothing can build it again.         *)
Demolished == infra[MgmtCluster] = "none" /\ Bare("mgmt")

\* Every run has the switches of one that may be started.
OptionsInv == opts \in RunOptions

\* Deleting an object is deprovisioning: what is built has an object, and
\* no run works with kind.
OwnedInv ==
  /\ "kind" \notin up /\ kubeconfig
  /\ pc \in Running \ {"discover"} => host # "kind"
  /\ \A c \in Doomed : infra[c] = "built" => objs["mgmt"][c] # "none"

\* The sweep comes to the management cluster, and nothing after it.
SweptInv ==
  Aws /\ opts.awsCli =>
    /\ pc = "sweeping" /\ MgmtCluster \notin todo => Demolished
    /\ pc \notin {"providers", "releasing", "released", "helm", "registry"}
    /\ pc \in {"host", "complete"} => Demolished

\* local-host removes the containers.
RemovedInv == Local /\ pc \in {"registry", "complete"} => Demolished

LeftInv == IInv /\ OptionsInv /\ OwnedInv /\ SweptInv /\ RemovedInv

LEMMA LeftInit == Thorough /\ Init => LeftInv
  <1> SUFFICES ASSUME Thorough, Init PROVE LeftInv
    OBVIOUS
  <1>1. IInv
    BY InvInit DEF Thorough
  <1>2. PICK place \in Placements[opts.profile] :
          IF place = "kind" THEN BeforeMove ELSE AfterMove(place)
    BY DEF Init
  <1>3. opts.profile \in Profiles
    BY <1>1 DEF IInv, TypeOK, Options
  <1>4. place = "mgmt"
    BY <1>3 DEF Thorough, Steady
  <1>5. OwnedInv
    <2>1. AfterMove("mgmt") /\ pc = "idle"
      BY <1>2, <1>4 DEF Init
    <2>2. \A c \in Clusters : objs["mgmt"][c] = "live"
      BY <2>1 DEF AfterMove, LiveOf, Sites
    <2>3. Doomed \subseteq Clusters
      BY MgmtAssumption DEF MgmtAssumption, Doomed
    <2>4. "kind" \notin up /\ kubeconfig
      BY <2>1 DEF AfterMove
    <2> QED
      BY <2>1, <2>2, <2>3, <2>4 DEF OwnedInv, Running
  <1> QED
    BY <1>1, <1>5 DEF Init, LeftInv, OptionsInv, SweptInv, RemovedInv

LEMMA OwnedStep ==
  ASSUME Thorough, LeftInv, TypeOK', Effects, [Next]_vars
  PROVE  OwnedInv'
  <1> USE DEF Goto, run, world
  <1>1. Doomed' = Doomed /\ Doomed \subseteq Clusters
    BY MgmtAssumption DEF MgmtAssumption, Effects, Doomed, Talos
  <1>2. "kind" \notin up' /\ kubeconfig'
    BY DEF LeftInv, OwnedInv, Effects
  <1>11. pc' \in Running \ {"discover"} => host' # "kind"
    <2>1. CASE Discover
      BY <2>1 DEF Discover, DiscoverLocal, DiscoverTalos, DiscoverAws, FindHost,
         Candidates, Prefer, LeftInv, OwnedInv, Thorough, Steady
    <2>2. CASE CliStep /\ ~Discover
      BY <2>2, CliKeeps DEF LeftInv, OwnedInv
    <2> QED
      BY <2>1, <2>2, ControlSteps DEF LeftInv, OwnedInv, Running
  <1> SUFFICES ASSUME NEW c \in Doomed, infra'[c] = "built"
               PROVE  objs'["mgmt"][c] # "none"
    BY <1>1, <1>2, <1>11 DEF OwnedInv
  <1>3. CASE UNCHANGED <<objs, infra>>
    BY <1>1, <1>3 DEF LeftInv, OwnedInv
  <1>4. ASSUME pc \in {"sweeping", "host"}, infra' = infra \/ \E d \in Clusters : Destroy(d)
        PROVE  FALSE
    <2>1. Released
      BY <1>4 DEF LeftInv, IInv, ReleasedInv, OptionsInv, Thorough
    <2>2. infra[c] = "none"
      BY <1>1, <2>1 DEF LeftInv, OwnedInv, IInv, TypeOK, Released, On, Sites
    <2> QED
      BY <1>1, <1>4, <2>2 DEF LeftInv, IInv, TypeOK, Destroy
  <1>5. CASE Discover
    BY <1>3, <1>5 DEF Discover, DiscoverLocal, DiscoverTalos, DiscoverAws
  <1>6. CASE DeleteClusters
    <2>1. ASSUME NEW d \in Clusters, DeleteCluster(d) \/ DeleteWorkload(d)
          PROVE  objs'["mgmt"][c] # "none"
      <3>1. infra' = infra /\ (RequestDeletion(d) \/ objs' = objs)
        BY <2>1 DEF DeleteCluster, DeleteWorkload
      <3>2. objs["mgmt"][c] # "none"
        BY <1>1, <3>1 DEF LeftInv, OwnedInv
      <3> QED
        BY <1>1, <3>1, <3>2 DEF RequestDeletion, LeftInv, IInv, TypeOK, Sites
    <2> QED
      BY <1>3, <1>6, <2>1
      DEF DeleteClusters, ListKustomizations, Patched, ListClusters, Patch,
          SkipAbsent, DeleteReturns, AllDeleted, AwaitGone, WorkloadGone, WorkloadsGone
  <1>7. CASE Sweep
    BY <1>3, <1>4, <1>7 DEF Sweep, PlanSweep, SweepTarget, SweepDone
  <1>8. CASE Remove
    BY <1>3, <1>4, <1>8, MgmtAssumption
    DEF MgmtAssumption, Remove, DeleteProviders, ProvidersReturn, PollProviders,
        UninstallHelm, RemoveHost,
       RemoveRegistry
  <1>9. CASE Controllers
    <2>1. ASSUME NEW s \in Sites, NEW d \in Clusters, FluxRecreates(s, d)
          PROVE  objs'["mgmt"][c] # "none"
      BY <1>1, <2>1 DEF FluxRecreates, LeftInv, OwnedInv, IInv, TypeOK
    <2>2. ASSUME NEW s \in Sites, NEW d \in Clusters, Build(s, d)
          PROVE  objs'["mgmt"][c] # "none"
      BY <1>1, <2>2 DEF Build, LeftInv, OwnedInv, IInv, TypeOK, Sites
    <2>3. ASSUME NEW s \in Sites, NEW d \in Clusters, Deprovision(s, d)
          PROVE  objs'["mgmt"][c] # "none"
      BY <1>1, <2>3 DEF Deprovision, LeftInv, OwnedInv, IInv, TypeOK
    <2>4. ASSUME NEW s \in Sites, NEW d \in Clusters, Finalize(s, d)
          PROVE  objs'["mgmt"][c] # "none"
      <3>1. c # d /\ infra' = infra
        BY <2>4 DEF Finalize
      <3>2. objs'["mgmt"][c] = objs["mgmt"][c]
        BY <2>4, <3>1 DEF Finalize, LeftInv, IInv, TypeOK, Sites
      <3> QED
        BY <1>1, <3>1, <3>2 DEF LeftInv, OwnedInv
    <2>5. ASSUME NEW s \in Sites, TakeDown(s)
          PROVE  objs'["mgmt"][c] # "none"
      BY <1>1, <1>3, <2>5 DEF TakeDown
    <2> QED
      BY <1>9, <2>1, <2>2, <2>3, <2>4, <2>5 DEF Controllers
  <1>10. CASE GiveUp \/ Fail \/ (\E o \in RunOptions : Start(o)) \/ UNCHANGED vars
    BY <1>3, <1>10 DEF GiveUp, Fail, Start, vars
  <1> QED
    BY <1>5, <1>6, <1>7, <1>8, <1>9, <1>10 DEF Next, CliStep

LEMMA DemolishedStays ==
  ASSUME LeftInv, TypeOK', Effects, [Next]_vars, Demolished
  PROVE  Demolished'
  <1> USE MgmtAssumption DEF MgmtAssumption, Goto, run, world
  <1>1. Bare("mgmt")'
    BY BareStays DEF LeftInv, IInv, Demolished, Sites
  <1>2. infra'[MgmtCluster] = "none"
    <2>1. CASE UNCHANGED infra
      BY <2>1 DEF Demolished
    <2>2. ASSUME NEW d \in Clusters, Destroy(d)
          PROVE  infra'[MgmtCluster] = "none"
      BY <2>2 DEF Destroy, Demolished, LeftInv, IInv, TypeOK
    <2>3. ASSUME NEW s \in Sites, NEW d \in Clusters, Build(s, d)
          PROVE  infra'[MgmtCluster] = "none"
      BY <2>3 DEF Build, Demolished, Bare, LeftInv, OwnedInv, IInv, TypeOK, Sites
    <2>4. ASSUME NEW s \in Sites, NEW d \in Clusters, Deprovision(s, d)
          PROVE  infra'[MgmtCluster] = "none"
      BY <2>4 DEF Deprovision, Demolished, LeftInv, IInv, TypeOK
    <2>5. CASE Discover \/ DeleteClusters
      BY <2>1, <2>5 DEF Discover, DiscoverLocal, DiscoverTalos, DiscoverAws, DeleteClusters,
         ListKustomizations, Patched, ListClusters, Patch, DeleteCluster, SkipAbsent,
         DeleteWorkload, DeleteReturns, AllDeleted, AwaitGone, WorkloadGone,
         WorkloadsGone
    <2>6. CASE Sweep \/ Remove
      BY <2>1, <2>2, <2>6 DEF Sweep, PlanSweep, SweepTarget, SweepDone, Remove,
         DeleteProviders, ProvidersReturn, PollProviders, UninstallHelm, RemoveHost, RemoveRegistry
    <2>7. CASE Controllers
      BY <2>1, <2>3, <2>4, <2>7 DEF Controllers, TakeDown, FluxRecreates, Finalize
    <2>8. CASE GiveUp \/ Fail \/ (\E o \in RunOptions : Start(o)) \/ UNCHANGED vars
      BY <2>1, <2>8 DEF GiveUp, Fail, Start, vars
    <2> QED
      BY <2>5, <2>6, <2>7, <2>8 DEF Next, CliStep
  <1> QED
    BY <1>1, <1>2 DEF Demolished

LEMMA DestroyDemolishes ==
  ASSUME TypeOK, Destroy(MgmtCluster)
  PROVE  Demolished'
  BY MgmtAssumption DEF MgmtAssumption, TypeOK, Destroy, Lose, Demolished, Bare, On,
     Nothing, Sites

LEMMA SweptStep ==
  ASSUME Thorough, LeftInv, TypeOK', Effects, [Next]_vars
  PROVE  SweptInv'
  <1> USE MgmtAssumption DEF MgmtAssumption, SweptInv, Goto, run, world
  <1>1. Demolished => Demolished'
    BY DemolishedStays
  <1>2. CASE UNCHANGED <<pc, opts, host, todo, current>>
    BY <1>1, <1>2 DEF LeftInv, Aws
  <1>3. CASE Discover
    <2>1. Aws /\ opts.awsCli => pc' \in {"sweep", "suspend"}
      BY <1>3 DEF Discover, DiscoverLocal, DiscoverTalos, DiscoverAws, Local, Talos, Aws
    <2> QED
      BY <1>3, <2>1 DEF Discover, DiscoverLocal, DiscoverTalos, DiscoverAws, Aws
  <1>4. CASE DeleteClusters
    <2>1. Aws => pc' \in {"patch", "list", "delete", "deleting", "await", "sweep"}
      BY <1>4 DEF DeleteClusters, ListKustomizations, Patched, ListClusters, Patch,
         DeleteCluster, SkipAbsent, DeleteWorkload, DeleteReturns, AllDeleted,
         AwaitGone, WorkloadGone, WorkloadsGone, Local, Talos, Aws
    <2> QED
      BY <1>4, <2>1, CliKeeps DEF CliStep, Aws
  <1>5. CASE Sweep
    <2>1. CASE PlanSweep
      BY <2>1 DEF PlanSweep, Aws
    <2>2. ASSUME NEW c \in Clusters, SweepTarget(c)
          PROVE  SweptInv'
      BY <1>1, <2>2, DestroyDemolishes DEF SweepTarget, Thorough, LeftInv, IInv, Aws
    <2>3. CASE SweepDone
      <3>1. host \in {"mgmt", "none"}
        BY <2>3 DEF SweepDone, LeftInv, OwnedInv, IInv, TypeOK, Running, Sites
      <3> QED
        BY <1>1, <2>3, <3>1 DEF SweepDone, MgmtSwept, LeftInv, Aws
    <2> QED
      BY <1>5, <2>1, <2>2, <2>3 DEF Sweep
  <1>6. CASE Remove
    <2>1. CASE DeleteProviders \/ ProvidersReturn \/ PollProviders \/ UninstallHelm \/ RemoveRegistry
      BY <2>1
      DEF DeleteProviders, ProvidersReturn, PollProviders, UninstallHelm,
          RemoveRegistry, LeftInv, Aws
    <2>2. CASE RemoveHost
      <3>1. /\ pc = "host" /\ opts' = opts
            /\ ~Local => pc' \in {"failed", "complete"}
        BY <2>2 DEF RemoveHost
      <3> QED
        BY <1>1, <3>1 DEF LeftInv, Aws, Local
    <2> QED
      BY <1>6, <2>1, <2>2 DEF Remove
  <1> QED
    BY <1>2, <1>3, <1>4, <1>5, <1>6, ControlSteps DEF CliStep, Ended

LEMMA RemovedStep ==
  ASSUME Thorough, LeftInv, TypeOK', Effects, [Next]_vars
  PROVE  RemovedInv'
  <1> USE MgmtAssumption DEF MgmtAssumption, RemovedInv, Goto, run, world
  <1>1. Demolished => Demolished'
    BY DemolishedStays
  <1>2. Local' <=> Local
    BY DEF Effects, Local
  <1>3. CASE pc \in {"registry", "complete"}
    BY <1>1, <1>2, <1>3, ControlSteps DEF LeftInv
  <1>4. CASE RemoveHost
    <2>1. ASSUME Local PROVE Destroy(MgmtCluster)
      <3>1. host # "kind"
        BY <1>4 DEF RemoveHost, LeftInv, OwnedInv, Running
      <3> QED
        BY <1>4, <2>1, <3>1 DEF RemoveHost, Thorough
    <2> QED
      BY <1>2, <2>1, DestroyDemolishes DEF LeftInv, IInv
  <1>5. CASE Local /\ pc' \in {"registry", "complete"}
             /\ pc \notin {"registry", "complete"} /\ ~RemoveHost
    <2>1. CASE Discover
      BY <1>5, <2>1 DEF Discover, DiscoverLocal, DiscoverTalos, DiscoverAws, Local,
         Talos, Aws
    <2>2. CASE DeleteClusters
      BY <1>5, <2>2 DEF DeleteClusters, ListKustomizations, Patched, ListClusters,
         Patch, DeleteCluster, SkipAbsent, DeleteWorkload, DeleteReturns,
         AllDeleted, AwaitGone, WorkloadGone, WorkloadsGone
    <2>3. CASE Sweep \/ Remove
      BY <1>5, <2>3 DEF Sweep, PlanSweep, SweepTarget, SweepDone, Remove,
         DeleteProviders, ProvidersReturn, PollProviders, UninstallHelm, RemoveRegistry
    <2> QED
      BY <1>5, <2>1, <2>2, <2>3, ControlSteps DEF CliStep, Ended
  <1> QED
    BY <1>2, <1>3, <1>4, <1>5

LEMMA LeftStep == Thorough /\ LeftInv /\ [Next]_vars => LeftInv'
  <1> SUFFICES ASSUME Thorough, LeftInv, [Next]_vars
               PROVE  LeftInv'
    OBVIOUS
  <1>1. IInv' /\ TypeOK' /\ Effects
    BY InvStep, StepEffects DEF Thorough, LeftInv, IInv
  <1>2. OptionsInv'
    BY CliKeeps DEF Next, Controllers, TakeDown, FluxRecreates, Build, Deprovision, Finalize,
       GiveUp, Fail, Start, vars, run, LeftInv, OptionsInv
  <1> QED
    BY <1>1, <1>2, OwnedStep, SweptStep, RemovedStep DEF LeftInv

(* A run that exits 0 has left no infrastructure of any Cluster, provided  *)
(* it could sweep where it has to (teardown.rs 3, "Destroys everything the *)
(* bootstrap creates"): the workloads were deprovisioned before their      *)
(* objects went, the management cluster by the sweep or the removal.       *)
THEOREM NothingIsLeft == Thorough => (Spec => []NothingLeft)
  <1> SUFFICES ASSUME Thorough PROVE Spec => []NothingLeft
    OBVIOUS
  <1>1. LeftInv => NothingLeft
    <2> SUFFICES ASSUME LeftInv, pc = "complete", Aws => opts.awsCli,
                        NEW c \in Clusters
                 PROVE  infra[c] = "none"
      BY DEF NothingLeft
    <2>1. CASE c \in Doomed
      <3>1. ~opts.awsOnly
        BY DEF LeftInv, OptionsInv, Thorough
      <3>2. objs["mgmt"][c] = "none"
        BY <2>1, <3>1 DEF LeftInv, IInv, ReleasedInv, Released, On, Sites
      <3> QED
        BY <2>1, <3>2 DEF LeftInv, OwnedInv, IInv, TypeOK
    <2>2. CASE c \notin Doomed
      <3>1. c = MgmtCluster /\ ~Talos
        BY <2>2 DEF Doomed
      <3>2. Local \/ Aws
        BY <3>1 DEF LeftInv, IInv, TypeOK, Options, Profiles, Local, Talos, Aws
      <3> QED
        BY <3>1, <3>2 DEF LeftInv, SweptInv, RemovedInv, Demolished
    <2> QED
      BY <2>1, <2>2
  <1> QED
    BY LeftInit, LeftStep, <1>1, PTL DEF Spec

---------------------------------------------------------------------------
(* Teardown implements Disposal. With IInv, the release that Disposal asks *)
(* for is ReleasedInv, and objects leave a site by Finalize or with it.    *)

\* A run that waives the release works with no host.
WaivedInv == opts.awsOnly /\ pc \in Running \ {"discover"} => host = "none" /\ Aws

DisposalInv == IInv /\ OptionsInv /\ WaivedInv

LEMMA DisposalStep == Steady /\ DisposalInv /\ [Next]_vars => DisposalInv'
  <1> SUFFICES ASSUME Steady, DisposalInv, [Next]_vars
               PROVE  DisposalInv'
    OBVIOUS
  <1>1. IInv'
    BY InvStep DEF DisposalInv
  <1>2. OptionsInv'
    BY CliKeeps DEF Next, Controllers, TakeDown, FluxRecreates, Build, Deprovision, Finalize,
       GiveUp, Fail, Start, vars, run, DisposalInv, OptionsInv
  <1>3. WaivedInv'
    <2>1. CASE Discover
      <3>1. opts' = opts /\ pc = "discover" /\ (opts.awsOnly => Aws)
        BY <2>1, OptionAssumption DEF OptionAssumption, DisposalInv, OptionsInv, Discover,
           DiscoverLocal, DiscoverTalos, DiscoverAws, Aws
      <3> QED
        BY <2>1, <3>1 DEF Discover, DiscoverLocal, DiscoverTalos, DiscoverAws, WaivedInv,
           Local, Talos, Aws
    <2>2. CASE CliStep /\ ~Discover
      BY <2>2, CliKeeps DEF DisposalInv, WaivedInv, Aws
    <2> QED
      BY <2>1, <2>2, ControlSteps DEF DisposalInv, WaivedInv, Running, Aws
  <1> QED
    BY <1>1, <1>2, <1>3 DEF DisposalInv

LEMMA KeptFlat ==
  ASSUME TypeOK, SitesInv
  PROVE  Kept = {c \in Clusters : \E s \in Sites : objs[s][c] # "none"}
  BY DEF TypeOK, SitesInv, Bare, Kept, On

LEMMA ReleasedSettles ==
  ASSUME IInv, pc \in { "sweep", "sweeping", "providers", "releasing", "released",
                        "helm", "host", "registry" }
  PROVE  Promise!Settled \/ opts.awsOnly
  <1>1. Doomed \subseteq Clusters
    BY MgmtAssumption DEF MgmtAssumption, Doomed
  <1> SUFFICES ASSUME Released PROVE Promise!Settled
    BY DEF IInv, ReleasedInv
  <1>2. Doomed \cap Kept = {}
    BY DEF IInv, TypeOK, Released, Kept
  <1>3. Doomed \subseteq Closed
    BY <1>1 DEF IInv, TypeOK, Released, Quiet, Closed
  <1> QED
    BY <1>2, <1>3 DEF Promise!Settled

(* A step that leaves the world alone is none of Disposal's, unless it     *)
(* ends a run or starts one.                                               *)
LEMMA QuietSteps ==
  ASSUME UNCHANGED world, opts'.profile = opts.profile
  PROVE  /\ Doomed' = Doomed /\ Kept' = Kept /\ Standing' = Standing
         /\ Closed' = Closed /\ up' = up
  BY DEF world, Doomed, Talos, Kept, On, Standing, Closed

LEMMA StutterStep ==
  ASSUME UNCHANGED <<opts, world>>, (pc' = "complete") = (pc = "complete")
  PROVE  UNCHANGED Promise!vars
  BY QuietSteps DEF Promise!vars

LEMMA FinishStep ==
  ASSUME UNCHANGED <<opts, world>>, pc' = "complete", Promise!Settled \/ opts.awsOnly
  PROVE  Promise!Next
  BY QuietSteps DEF Promise!Finish, Promise!Next

(* What happens on one site shows in Disposal when no other site holds the *)
(* Cluster.                                                                *)
LEMMA ControllerStep ==
  ASSUME DisposalInv, TypeOK', SitesInv', NEW s \in Sites, NEW c \in Clusters,
         \/ FluxRecreates(s, c) \/ Build(s, c)
         \/ Deprovision(s, c) \/ Finalize(s, c)
  PROVE  Promise!Next \/ UNCHANGED Promise!vars
  <1> USE DEF run, Sites, Doomed, Talos
  <1>1. /\ Kept = {d \in Clusters : \E t \in Sites : objs[t][d] # "none"}
        /\ Kept' = {d \in Clusters : \E t \in Sites : objs'[t][d] # "none"}
    BY KeptFlat DEF DisposalInv, IInv, TypeOK, SitesInv, Bare, Kept, On
  <1>2. TypeOK
    BY DEF DisposalInv, IInv
  <1>3. CASE FluxRecreates(s, c)
    <2>1. c \notin Closed /\ Closed' = Closed /\ Standing' = Standing
      BY <1>3 DEF FluxRecreates, Closed, Standing
    <2>2. Kept' = Kept \cup {c}
      BY <1>1, <1>2, <1>3 DEF FluxRecreates, TypeOK
    <2>3. Promise!Declare(c)
      BY <1>3, <2>1, <2>2 DEF FluxRecreates, Promise!Declare
    <2> QED
      BY <2>3 DEF Promise!Next
  <1>4. CASE Build(s, c)
    <2>1. Kept' = Kept /\ c \in Kept
      BY <1>1, <1>2, <1>4 DEF Build
    <2>2. Standing' = Standing \cup {c} /\ Closed' = Closed
      BY <1>2, <1>4 DEF Build, TypeOK, Standing, Closed
    <2>3. up' = up \/ \E t \in Sites : up' = up \cup {t}
      BY <1>4 DEF Build
    <2>4. Promise!Erect(c)
      BY <1>4, <2>1, <2>2, <2>3 DEF Build, Promise!Erect
    <2> QED
      BY <2>4 DEF Promise!Next
  <1>5. CASE Deprovision(s, c)
    <2>1. Kept' = Kept /\ c \in Kept
      BY <1>1, <1>2, <1>5 DEF Deprovision
    <2>2. Standing' = Standing \ {c} /\ Closed' = Closed
      BY <1>2, <1>5 DEF Deprovision, TypeOK, Standing, Closed
    <2>3. Promise!Dismantle(c)
      BY <1>5, <2>1, <2>2 DEF Deprovision, Promise!Dismantle
    <2> QED
      BY <2>3 DEF Promise!Next
  <1>6. CASE Finalize(s, c)
    <2>1. c \notin Standing /\ Standing' = Standing /\ Closed' = Closed
      BY <1>6 DEF Finalize, Standing, Closed
    <2>2. Kept' = Kept \/ Kept' = Kept \ {c}
      BY <1>1, <1>2, <1>6 DEF Finalize, TypeOK
    <2>3. CASE Kept' = Kept
      BY <1>6, <2>1, <2>3 DEF Finalize, Promise!vars
    <2>4. CASE Kept' = Kept \ {c}
      <3>1. Promise!Forget(c)
        BY <1>6, <2>1, <2>4 DEF Finalize, Promise!Forget
      <3> QED
        BY <3>1 DEF Promise!Next
    <2> QED
      BY <2>2, <2>3, <2>4
  <1> QED
    BY <1>3, <1>4, <1>5, <1>6

(* A site goes with what it keeps and declares; one that had gone before   *)
(* held nothing.                                                           *)
LEMMA LoseStep ==
  ASSUME IInv, TypeOK', NEW s \in Sites, Lose(s)
  PROVE  \/ Kept' = Kept /\ Closed' = Closed /\ up' = up
         \/ Promise!Lose(s)
  <1> USE DEF IInv, TypeOK
  <1>1. /\ Kept' \in SUBSET Kept /\ Closed' \in SUBSET Clusters
        /\ Closed \subseteq Closed' /\ up' = up \ {s}
    BY DEF Lose, Kept, On, Nothing, Closed
  <1>2. CASE s \in up
    BY <1>1, <1>2 DEF Promise!Lose
  <1>3. CASE s \notin up
    <2>1. s \notin flux
      BY <1>3
    <2>2. Kept' = Kept
      BY <1>3 DEF Lose, Kept, On
    <2>3. Closed' = Closed
      BY <2>1 DEF Lose, Closed
    <2> QED
      BY <1>1, <1>3, <2>2, <2>3
  <1> QED
    BY <1>2, <1>3

LEMMA DestroyStep ==
  ASSUME IInv, TypeOK', NEW c \in Clusters, Destroy(c), UNCHANGED opts,
         (pc' = "complete") = (pc = "complete"), Promise!Settled \/ opts.awsOnly
  PROVE  Promise!Next
  <1>1. Standing' = Standing \ {c}
    BY DEF Destroy, Standing, IInv, TypeOK
  <1>2. \/ Kept' = Kept /\ Closed' = Closed /\ up' = up
        \/ Promise!Lose("mgmt")
    <2>1. CASE c = MgmtCluster
      BY <2>1, LoseStep DEF Destroy, Sites
    <2>2. CASE c # MgmtCluster
      BY <2>2 DEF Destroy, KeepSites, Kept, On, Closed
    <2> QED
      BY <2>1, <2>2
  <1>3. Doomed' = Doomed
    BY DEF Doomed, Talos
  <1>4. Promise!Purge(c)
    BY <1>1, <1>2, <1>3 DEF Promise!Purge, Sites
  <1> QED
    BY <1>4 DEF Promise!Next

LEMMA RemovalStep ==
  ASSUME DisposalInv, TypeOK', RemoveHost
  PROVE  Promise!Next \/ UNCHANGED Promise!vars
  <1> USE MgmtAssumption DEF MgmtAssumption, run
  <1>1. IInv /\ pc = "host" /\ UNCHANGED opts /\ (Promise!Settled \/ opts.awsOnly)
    BY ReleasedSettles DEF DisposalInv, RemoveHost
  <1>2. CASE UNCHANGED world
    BY <1>1, <1>2, FinishStep, StutterStep
  <1>3. CASE Lose("kind") /\ UNCHANGED infra /\ host = "kind"
    <2>1. Promise!Settled
      BY <1>1, <1>3 DEF DisposalInv, WaivedInv, Running
    <2>2. Standing' = Standing /\ Doomed' = Doomed
      BY <1>1, <1>3 DEF Standing, Doomed, Talos
    <2>3. CASE Promise!Lose("kind")
      <3>1. Promise!Retire("kind")
        BY <1>1, <2>1, <2>2, <2>3 DEF Promise!Retire
      <3> QED
        BY <3>1 DEF Promise!Next, Sites
    <2>4. CASE Kept' = Kept /\ Closed' = Closed /\ up' = up
      BY <1>1, <2>1, <2>2, <2>4 DEF Promise!Finish, Promise!Next, Promise!vars
    <2> QED
      BY <1>1, <1>3, <2>3, <2>4, LoseStep DEF Sites
  <1>4. CASE Destroy(MgmtCluster) /\ Local
    <2>1. pc' = "registry"
      BY <1>4 DEF RemoveHost, Local, Aws
    <2> QED
      BY <1>1, <1>4, <2>1, DestroyStep
  <1>5. UNCHANGED <<kubeconfig, registry>>
    BY DEF RemoveHost
  <1>6. \/ host = "kind" /\ UNCHANGED infra /\ Lose("kind")
        \/ Local /\ Destroy(MgmtCluster)
        \/ UNCHANGED infra /\ KeepSites
    BY DEF RemoveHost
  <1> QED
    BY <1>2, <1>3, <1>4, <1>5, <1>6 DEF KeepSites, world

LEMMA CliPromise ==
  ASSUME Steady, DisposalInv, TypeOK', CliStep
  PROVE  Promise!Next \/ UNCHANGED Promise!vars
  <1> USE MgmtAssumption DEF MgmtAssumption, Goto, run
  <1>1. IInv /\ opts' = opts
    BY CliKeeps DEF DisposalInv
  <1>2. ASSUME UNCHANGED world, pc # "complete", pc' # "complete"
        PROVE  UNCHANGED Promise!vars
    BY <1>1, <1>2, StutterStep
  <1>3. CASE Discover
    <2>1. UNCHANGED world /\ pc = "discover"
      BY <1>3 DEF Discover, DiscoverLocal, DiscoverTalos, DiscoverAws
    <2>2. CASE pc' = "complete"
      <3>1. Talos /\ FindHost /\ host' = "none"
        BY <1>3, <2>2 DEF Discover, DiscoverLocal, DiscoverTalos, DiscoverAws
      <3>2. \A s \in Sites : Bare(s)
        BY <1>1, <3>1, Discovery DEF IInv, Sites
      <3>3. Kept = {} /\ Closed = Clusters
        BY <1>1, <3>2 DEF Bare, Kept, Closed, IInv, TypeOK
      <3>4. Promise!Settled
        BY <3>3 DEF Promise!Settled, Doomed
      <3> QED
        BY <1>1, <2>1, <2>2, <3>4, FinishStep
    <2> QED
      BY <1>2, <2>1, <2>2
  <1>4. CASE DeleteClusters
    <2>1. ASSUME NEW c \in Clusters, Patch(c)
          PROVE  Promise!Next \/ UNCHANGED Promise!vars
      <3>1. Kept' = Kept /\ Standing' = Standing /\ Doomed' = Doomed
        BY <2>1 DEF Patch, Kept, On, Standing, Doomed, Talos
      <3>2. Closed' = Closed \/ Closed' = Closed \cup {c}
        BY <1>1, <2>1 DEF Patch, Closed, IInv, TypeOK
      <3>3. pc # "complete" /\ pc' # "complete" /\ up' = up
        BY <2>1 DEF Patch
      <3>4. CASE Closed' = Closed
        BY <1>1, <3>1, <3>3, <3>4 DEF Promise!vars
      <3>5. CASE Closed' = Closed \cup {c}
        <4>1. Promise!Close({c})
          BY <1>1, <3>1, <3>3, <3>5 DEF Promise!Close
        <4> QED
          BY <4>1 DEF Promise!Next
      <3> QED
        BY <3>2, <3>4, <3>5
    <2>2. ASSUME NEW c \in Clusters, DeleteCluster(c) \/ DeleteWorkload(c)
          PROVE  UNCHANGED Promise!vars
      <3>1. /\ UNCHANGED <<up, infra, flux, suspended>>
            /\ pc # "complete" /\ pc' # "complete"
            /\ RequestDeletion(c) \/ objs' = objs
        BY <2>2 DEF DeleteCluster, DeleteWorkload
      <3>2. \A s \in Sites : On(s)' = On(s)
        BY <1>1, <3>1 DEF RequestDeletion, On, IInv, TypeOK
      <3>3. Kept' = Kept /\ Standing' = Standing /\ Closed' = Closed /\ Doomed' = Doomed
        BY <1>1, <3>1, <3>2 DEF Kept, Standing, Closed, Doomed, Talos, IInv, TypeOK
      <3> QED
        BY <1>1, <3>1, <3>3 DEF Promise!vars
    <2>3. CASE UNCHANGED world /\ pc # "complete" /\ pc' # "complete"
      BY <1>2, <2>3
    <2> QED
      BY <1>4, <2>1, <2>2, <2>3
      DEF DeleteClusters, ListKustomizations, Patched, ListClusters, SkipAbsent,
          DeleteReturns, AllDeleted, AwaitGone, WorkloadGone, WorkloadsGone
  <1>5. CASE Sweep
    <2>1. ASSUME NEW c \in Clusters, SweepTarget(c)
          PROVE  Promise!Next \/ UNCHANGED Promise!vars
      <3>1. pc = "sweeping" /\ pc' = pc /\ UNCHANGED <<kubeconfig, registry>>
        BY <2>1 DEF SweepTarget
      <3>2. CASE Destroy(c)
        BY <1>1, <3>1, <3>2, DestroyStep, ReleasedSettles
      <3>3. CASE UNCHANGED infra /\ KeepSites
        BY <1>2, <3>1, <3>3 DEF KeepSites, world
      <3> QED
        BY <2>1, <3>2, <3>3 DEF SweepTarget
    <2>2. CASE PlanSweep \/ SweepDone
      BY <1>2, <2>2 DEF PlanSweep, SweepDone
    <2> QED
      BY <1>5, <2>1, <2>2 DEF Sweep
  <1>6. CASE Remove
    <2>1. CASE DeleteProviders
      BY <1>1, <2>1 DEF DeleteProviders, Promise!vars, Kept, On, Standing, Closed,
         Doomed, Talos
    <2>4. CASE ProvidersReturn \/ PollProviders
      BY <2>4, StutterStep DEF ProvidersReturn, PollProviders
    <2>2. CASE UninstallHelm
      <3>1. /\ Kept' = Kept /\ Standing' = Standing /\ Doomed' = Doomed /\ up' = up
            /\ pc # "complete" /\ pc' # "complete"
        BY <2>2 DEF UninstallHelm, Kept, On, Standing, Doomed, Talos
      <3>2. Closed' = Closed \cup Closed' /\ Closed' \in SUBSET Clusters
        BY <2>2 DEF UninstallHelm, Closed
      <3>3. Promise!Close(Closed')
        BY <1>1, <3>1, <3>2 DEF Promise!Close
      <3> QED
        BY <3>2, <3>3 DEF Promise!Next
    <2>3. CASE RemoveRegistry
      <3>1. Promise!Settled \/ opts.awsOnly
        BY <1>1, <2>3, ReleasedSettles DEF RemoveRegistry
      <3>2. /\ Kept' = Kept /\ Standing' = Standing /\ Closed' = Closed
            /\ Doomed' = Doomed /\ up' = up
        BY <2>3 DEF RemoveRegistry, Kept, On, Standing, Closed, Doomed, Talos
      <3>3. Promise!Finish
        BY <1>1, <2>3, <3>1, <3>2 DEF RemoveRegistry, Promise!Finish
      <3> QED
        BY <3>3 DEF Promise!Next
    <2> QED
      BY <1>6, <2>1, <2>2, <2>3, <2>4, RemovalStep DEF Remove
  <1> QED
    BY <1>3, <1>4, <1>5, <1>6 DEF CliStep

LEMMA PromiseStep ==
  Steady /\ DisposalInv /\ DisposalInv' /\ [Next]_vars
    => [Promise!Next]_(Promise!vars)
  <1> SUFFICES ASSUME Steady, DisposalInv, DisposalInv', [Next]_vars
               PROVE  Promise!Next \/ UNCHANGED Promise!vars
    OBVIOUS
  <1>1. TypeOK' /\ SitesInv'
    BY DEF DisposalInv, IInv
  <1>2. CASE CliStep
    BY <1>1, <1>2, CliPromise
  <1>3. CASE Controllers
    <2>1. ASSUME NEW s \in Sites, TakeDown(s)
          PROVE  UNCHANGED Promise!vars
      BY <2>1 DEF TakeDown, run, Promise!vars, Kept, On, Standing, Closed, Doomed,
         Talos
    <2> QED
      BY <1>1, <1>3, <2>1, ControllerStep DEF Controllers
  <1>4. CASE GiveUp \/ Fail \/ UNCHANGED vars
    <2>1. UNCHANGED <<opts, world>> /\ (pc' = "complete") = (pc = "complete")
      BY <1>4 DEF GiveUp, Fail, vars, run, Running
    <2> QED
      BY <2>1, StutterStep
  <1>5. ASSUME NEW o \in RunOptions, Start(o)
        PROVE  Promise!Next
    <2>1. /\ UNCHANGED world /\ opts'.profile = opts.profile /\ pc' = "discover"
      BY <1>5 DEF Start
    <2>2. opts'.awsOnly \in BOOLEAN
      BY <1>1 DEF TypeOK, Options
    <2>3. Promise!Begin
      BY <2>1, <2>2, QuietSteps DEF Promise!Begin
    <2> QED
      BY <2>3 DEF Promise!Next
  <1> QED
    BY <1>2, <1>3, <1>4, <1>5 DEF Next

(* Teardown implements Disposal on every profile, whatever fails, is       *)
(* killed and rerun: the Clusters are given up one by one, each after what *)
(* it built, and only then anything irreversible is done.                  *)
THEOREM Refinement == Steady => (Spec => ImplementsDisposal)
  <1> SUFFICES ASSUME Steady PROVE Spec => ImplementsDisposal
    OBVIOUS
  <1>1. Init => DisposalInv
    BY InvInit DEF Init, DisposalInv, OptionsInv, WaivedInv, Running
  <1>2. DisposalInv /\ [Next]_vars => DisposalInv'
    BY DisposalStep
  <1>3. Init => Promise!Init
    <2> SUFFICES ASSUME Init PROVE Promise!Init
      OBVIOUS
    <2>1. TypeOK /\ pc # "complete"
      BY TypeInit DEF Init
    <2> QED
      BY <2>1, MgmtAssumption DEF MgmtAssumption, TypeOK, Options, Promise!Init, Doomed,
         Kept, On, Standing, Closed
  <1>4. DisposalInv /\ DisposalInv' /\ [Next]_vars => [Promise!Next]_(Promise!vars)
    BY PromiseStep
  <1> QED
    BY <1>1, <1>2, <1>3, <1>4, PTL DEF Spec, ImplementsDisposal, Promise!Spec

---------------------------------------------------------------------------
(* How far a run has come. A Cluster that is being deleted is one that has *)
(* left the list of those to delete.                                       *)
Order ==
  [discover |-> 1, suspend |-> 2, patch |-> 3, list |-> 4, delete |-> 5,
   deleting |-> 5, await |-> 6, sweep |-> 7, sweeping |-> 8, providers |-> 9,
   releasing |-> 10, released |-> 11, helm |-> 12, host |-> 13, registry |-> 14,
   failed |-> 15, complete |-> 15, idle |-> 15]

Advances ==
  \/ Order[pc] < Order[pc']
  \/ /\ Order[pc'] = Order[pc]
     /\ \/ todo' \subseteq todo /\ todo' # todo
        \/ todo' = todo /\ pc = "deleting" /\ pc' = "delete"

(* Each step of a teardown takes it on or leaves it where it is            *)
(* (teardown.rs 1985-2457).                                                *)
NoWayBack == [][(pc \in Running) => Advances \/ UNCHANGED <<pc, todo>>]_vars

LEMMA AdvanceStep ==
  ASSUME [Next]_vars, pc \in Running
  PROVE  Advances \/ UNCHANGED <<pc, todo>>
  <1> USE DEF Advances, Order, Goto
  <1>1. CASE Discover
    <2>1. CASE DiscoverLocal
      BY <2>1 DEF DiscoverLocal
    <2>2. CASE DiscoverTalos \/ DiscoverAws
      BY <2>2 DEF DiscoverTalos, DiscoverAws
    <2> QED
      BY <1>1, <2>1, <2>2 DEF Discover
  <1>2. CASE DeleteClusters
    <2>1. CASE ListKustomizations \/ Patched \/ AllDeleted \/ WorkloadsGone
      BY <2>1 DEF ListKustomizations, Patched, AllDeleted, WorkloadsGone
    <2>2. CASE ListClusters
      BY <2>2 DEF ListClusters
    <2>3. CASE AwaitGone \/ DeleteReturns \/ WorkloadGone
      BY <2>3 DEF AwaitGone, DeleteReturns, WorkloadGone
    <2>4. ASSUME NEW c \in Clusters, Patch(c) \/ SkipAbsent(c)
          PROVE  Advances
      BY <2>4 DEF Patch, SkipAbsent
    <2>5. ASSUME NEW c \in Clusters, DeleteCluster(c) \/ DeleteWorkload(c)
          PROVE  Advances
      BY <2>5 DEF DeleteCluster, DeleteWorkload
    <2> QED
      BY <1>2, <2>1, <2>2, <2>3, <2>4, <2>5 DEF DeleteClusters
  <1>3. CASE Sweep
    <2>1. CASE PlanSweep \/ SweepDone
      BY <2>1 DEF PlanSweep, SweepDone
    <2>2. ASSUME NEW c \in Clusters, SweepTarget(c)
          PROVE  Advances
      BY <2>2 DEF SweepTarget
    <2> QED
      BY <1>3, <2>1, <2>2 DEF Sweep
  <1>4. CASE Remove
    <2>1. CASE DeleteProviders \/ ProvidersReturn \/ PollProviders \/ UninstallHelm \/ RemoveRegistry
      BY <2>1 DEF DeleteProviders, ProvidersReturn, PollProviders, UninstallHelm, RemoveRegistry
    <2>2. CASE RemoveHost
      <3>1. pc = "host" /\ pc' \in {"registry", "failed", "complete"}
        BY <2>2 DEF RemoveHost
      <3> QED
        BY <3>1
    <2> QED
      BY <1>4, <2>1, <2>2 DEF Remove
  <1>5. CASE Controllers
    BY <1>5 DEF Controllers, TakeDown, FluxRecreates, Build, Deprovision, Finalize
  <1>6. CASE GiveUp \/ Fail
    BY <1>6 DEF GiveUp, Fail, Running
  <1>7. CASE UNCHANGED vars
    BY <1>7 DEF vars
  <1>8. ~ \E o \in RunOptions : Start(o)
    BY DEF Start, Running, Ended
  <1> QED
    BY <1>1, <1>2, <1>3, <1>4, <1>5, <1>6, <1>7, <1>8 DEF Next, CliStep

(* A teardown never returns to an earlier step, and no loop takes up a     *)
(* Cluster again: under every hazard each of its steps ends it, brings it  *)
(* further or takes one Cluster from the loop it is in, whatever the       *)
(* controllers do meanwhile (teardown.rs 318-560, 1985-2457).              *)
THEOREM RunsOnlyAdvance == Spec => NoWayBack
  <1>1. [Next]_vars => [(pc \in Running) => Advances \/ UNCHANGED <<pc, todo>>]_vars
    BY AdvanceStep
  <1> QED
    BY <1>1, PTL DEF Spec, NoWayBack
=============================================================================
