------------------------------ MODULE RunTags ------------------------------
(***************************************************************************)
(* The run tags of run_tags.rs during the bootstrap and the pivot: the     *)
(* ConfigMap krops-run on kind, its copy on the management cluster, and    *)
(* the tags Flux renders from them into the Cluster objects, which the     *)
(* providers put on everything they build.                                 *)
(*                                                                         *)
(* Every step is a step of Pivot that also says what becomes of the tags,  *)
(* or a reconciliation that leaves Pivot's state alone.                    *)
(***************************************************************************)
EXTENDS PivotInvariant, Calendar

CONSTANTS
  Exports,      \* whether runs may be started with KROPS_RUN_ID set
  EnvRunId,     \* and the value it then has
  FirstDay,     \* the day of the first run
  LastDay,      \* bound on the days that pass
  Ttl,          \* KROPS_RUN_TTL, in days
  NoTags        \* no ConfigMap, no tags

ASSUME RunTagsAssumption ==
  /\ Exports \subseteq BOOLEAN /\ Exports # {}
  /\ FirstDay \in Nat /\ LastDay \in Nat /\ FirstDay <= LastDay
  /\ Ttl \in Nat

(* What a run can resolve, a ConfigMap that exists.                        *)
Resolved ==
  [runId   : {EnvRunId} \cup {Rfc3339(day) : day \in FirstDay .. LastDay},
   expires : {Rfc3339(day + Ttl) : day \in FirstDay .. LastDay}]

ASSUME NoTagsAssumption == NoTags \notin Resolved

VARIABLES
  exported,   \* KROPS_RUN_ID is set for the current run
  today,      \* the day
  tags,       \* the ConfigMap krops-run of each cluster
  stamp       \* the tags of each Cluster: of its objects and of what they built

tagging == <<exported, today, tags, stamp>>
tvars   == <<vars, tagging>>

(* RunTags::resolve: the environment's run id, or profile and time; the    *)
(* expiry is a date.                                                       *)
Resolve(day) ==
  [runId   |-> IF exported THEN EnvRunId ELSE Rfc3339(day),
   expires |-> Rfc3339(day + Ttl)]

TInit ==
  /\ Init
  /\ exported \in Exports
  /\ today = FirstDay
  /\ tags = [s \in Sites |-> NoTags]
  /\ stamp = [c \in Clusters |-> NoTags]

---------------------------------------------------------------------------
(* Slips.                                                                  *)

\* OneIdentity: the ConfigMap is written anew by every run.
EnsureInSourceAfresh ==
  /\ EnsureRunTags /\ site = "kind"
  /\ \E day \in today .. LastDay :
       today' = day /\ tags' = [tags EXCEPT !["kind"] = Resolve(day)]
  /\ UNCHANGED <<exported, stamp>>

\* TagsDated: in the ConfigMap on kind the run id is replaced only.
RenameInSource ==
  /\ EnsureRunTags /\ site = "kind"
  /\ \E day \in today .. LastDay :
       /\ today' = day
       /\ tags' = [tags EXCEPT !["kind"] =
                     IF @ = NoTags THEN Resolve(day)
                     ELSE [@ EXCEPT !.runId = Resolve(day).runId]]
  /\ UNCHANGED <<exported, stamp>>

\* TagsSettle: the ConfigMap read from kind is applied to kind, the ambient
\* context.
SeedAmbient ==
  /\ EnsureRunTags /\ site = "mgmt"
  /\ UNCHANGED tagging

---------------------------------------------------------------------------
(* ensure_in_source: with KROPS_RUN_ID set the ConfigMap on kind is used   *)
(* as it is; else, or when there is none, it is resolved and written.      *)
EnsureInSource ==
  /\ EnsureRunTags /\ site = "kind"
  /\ \/ exported /\ tags["kind"] # NoTags /\ UNCHANGED <<today, tags>>
     \/ /\ ~exported \/ tags["kind"] = NoTags
        /\ \E day \in today .. LastDay :
             today' = day /\ tags' = [tags EXCEPT !["kind"] = Resolve(day)]
  /\ UNCHANGED <<exported, stamp>>

(* seed_target: read on kind, write on the target. Without a ConfigMap on  *)
(* kind the run fails (the guard of EnsureRunTags).                        *)
SeedTarget ==
  /\ EnsureRunTags /\ site = "mgmt"
  /\ tags' = [tags EXCEPT !["mgmt"] = tags["kind"]]
  /\ UNCHANGED <<exported, today, stamp>>

StartTagged(o) ==
  /\ Start(o)
  /\ exported' \in Exports
  /\ UNCHANGED <<today, tags, stamp>>

(* What is on kind goes with it, the ConfigMap too; what the providers     *)
(* have built keeps its tags.                                              *)
LoseKind ==
  /\ DropKind \/ DeleteKind
  /\ tags' = [tags EXCEPT !["kind"] = NoTags]
  /\ stamp' = [c \in Clusters |->
                 IF tgt[c] = "none" /\ infra[c] = "none" THEN NoTags ELSE stamp[c]]
  /\ UNCHANGED <<exported, today>>

(* Flux substitutes the tags of its own cluster into what it creates       *)
RenderOnKind(k) ==
  /\ FluxApply(k)
  /\ stamp' = [c \in Clusters |->
                 IF src[c] = "none" /\ src'[c] # "none" THEN tags["kind"]
                 ELSE stamp[c]]
  /\ UNCHANGED <<exported, today, tags>>

RenderOnTarget(c) ==
  /\ FluxApplyOnTarget(c)
  /\ stamp' = [stamp EXCEPT ![c] = tags["mgmt"]]
  /\ UNCHANGED <<exported, today, tags>>

(* and renders what exists again when the ConfigMap has changed.           *)
Rerender(c) ==
  /\ \E s \in Sites :
       /\ \/ s = "kind" /\ src[c] # "none"
               /\ \E k \in Kustomizations : c \in ClustersOf[k] /\ Live(k)
          \/ s = "mgmt" /\ tgt[c] # "none" /\ "instance" \in has["mgmt"]
       /\ stamp[c] # tags[s]
       /\ stamp' = [stamp EXCEPT ![c] = tags[s]]
  /\ UNCHANGED <<vars, exported, today, tags>>

(* The other steps of Pivot.                                               *)
Untagged ==
  /\ \/ GiveUp \/ Fail
     \/ ReuseKind \/ CreateKind \/ StartRegistry \/ InstallFluxOperator
     \/ DropSopsKey \/ ApplySecrets \/ InstallFluxInstance
     \/ WatchReconciliation \/ Prepare \/ Move
     \/ PublishArtifact \/ GuardDeletion
     \/ \E k \in Kustomizations : FluxBegin(k)
     \/ \E c \in Clusters : Provision(c)
     \/ RegistryStops
  /\ UNCHANGED tagging

TNext ==
  \/ EnsureInSource \/ SeedTarget \/ LoseKind \/ Untagged
  \/ \E o \in RunOptions : StartTagged(o)
  \/ \E k \in Kustomizations : RenderOnKind(k)
  \/ \E c \in Clusters : RenderOnTarget(c) \/ Rerender(c)

TSpec == TInit /\ [][TNext]_tvars

(* Pivot's fairness, and Flux renders again what has changed.              *)
TFairSpec ==
  TSpec /\ Fairness /\ \A c \in Clusters : WF_tvars(Rerender(c))
---------------------------------------------------------------------------
(* All the tags there are.                                                 *)
Worn == ({tags[s] : s \in Sites} \cup {stamp[c] : c \in Clusters}) \ {NoTags}

(* With KROPS_RUN_ID set, and without --recreate, one environment carries  *)
(* one run id and one expiry: on both clusters and on everything built,    *)
(* whatever fails, whenever it is rerun and wherever the objects are       *)
(* (run_tags.rs 7-8; docs/operations.md 629-633).                          *)
OneIdentity == \A x, y \in Worn : x = y

(* Nothing is built untagged: a Cluster object is only ever rendered from  *)
(* an existing ConfigMap, so the fallback of the placeholders is never     *)
(* used, on either cluster (run_tags.rs 8-11; docs/operations.md 606-611). *)
NothingUntagged ==
  \A c \in Clusters : src[c] # "none" \/ tgt[c] # "none" => stamp[c] # NoTags

(* The tags found anywhere, after any reruns and whoever wrote them, tell  *)
(* the truth about the run they come from: the expiry is the Gregorian     *)
(* date of a day that lies the TTL after a day between the first run and   *)
(* today, the orphan report reads that day from it and writes it the same  *)
(* way, and a run id made from the time is of the day the TTL began        *)
(* (run_tags.rs 70-106 and 165-225, orphans.rs 93-206 and 849-905).        *)
TagsDated ==
  \A x \in Worn :
    LET day == Iso8601(x.expires) IN
      /\ DayNumber(x.expires) = day /\ ReportDate(day) = x.expires
      /\ day - Ttl \in FirstDay .. today
      /\ x.runId # EnvRunId => Iso8601(x.runId) = day - Ttl

(* Runs without KROPS_RUN_ID overwrite the tags on kind; in the end every  *)
(* Cluster carries those the management cluster was seeded with            *)
(* (run_tags.rs 8-11).                                                     *)
TagsSettle ==
  <>[](\A c \in Clusters : tags["mgmt"] # NoTags /\ stamp[c] = tags["mgmt"])
=============================================================================
