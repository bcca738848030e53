------------------------------ MODULE Disposal ------------------------------
(***************************************************************************)
(* What teardown promises of the Clusters it deletes, without saying how:  *)
(* each is given up by the host that keeps it only when what it built is   *)
(* gone; and before all of them are given up, with nobody left to declare  *)
(* them again, nothing is swept, no host is removed and no run succeeds    *)
(* (bootstrap-rs/src/teardown.rs 3-14, 318-324; docs/bootstrap-cli.md     *)
(* 339-356). A run may waive the release of what it sweeps (AWS_ONLY=1).   *)
(***************************************************************************)
CONSTANTS Clusters, Sites

VARIABLES
  doomed,    \* the Clusters to be released
  kept,      \* those a host holds an object of
  standing,  \* those that have resources outside Kubernetes
  closed,    \* those nobody declares any more
  hosts,     \* the controller hosts that exist
  waived,    \* the run sweeps without a release
  over       \* the last run succeeded

vars == <<doomed, kept, standing, closed, hosts, waived, over>>

Settled == doomed \cap kept = {} /\ doomed \subseteq closed

Init ==
  /\ doomed \subseteq Clusters /\ kept \subseteq Clusters
  /\ standing \subseteq Clusters /\ closed \subseteq Clusters
  /\ hosts \subseteq Sites
  /\ waived \in BOOLEAN
  /\ ~over

Begin ==
  /\ ~over'
  /\ waived' \in BOOLEAN
  /\ UNCHANGED <<doomed, kept, standing, closed, hosts>>

(* Only what is declared appears, and only what is kept is built: its host *)
(* may be one that appears with it.                                        *)
Declare(c) ==
  /\ c \notin closed
  /\ kept' = kept \cup {c}
  /\ UNCHANGED <<doomed, standing, closed, hosts, waived, over>>

Erect(c) ==
  /\ c \in kept
  /\ standing' = standing \cup {c}
  /\ hosts' = hosts \/ \E s \in Sites : hosts' = hosts \cup {s}
  /\ UNCHANGED <<doomed, kept, closed, waived, over>>

Close(S) ==
  /\ closed' = closed \cup S
  /\ UNCHANGED <<doomed, kept, standing, hosts, waived, over>>

(* A release: the resources first, then the object.                        *)
Dismantle(c) ==
  /\ c \in kept
  /\ standing' = standing \ {c}
  /\ UNCHANGED <<doomed, kept, closed, hosts, waived, over>>

Forget(c) ==
  /\ c \notin standing
  /\ kept' = kept \ {c}
  /\ UNCHANGED <<doomed, standing, closed, hosts, waived, over>>

(* With a host goes what it keeps and what it declares.                    *)
Lose(s) ==
  /\ s \in hosts
  /\ hosts' = hosts \ {s}
  /\ kept' \in SUBSET kept
  /\ closed' \in SUBSET Clusters /\ closed \subseteq closed'

Purge(c) ==
  /\ Settled \/ waived
  /\ standing' = standing \ {c}
  /\ UNCHANGED <<kept, closed, hosts>> \/ \E s \in Sites : Lose(s)
  /\ UNCHANGED <<doomed, waived, over>>

Retire(s) ==
  /\ Settled
  /\ Lose(s)
  /\ over' \in {over, TRUE}
  /\ UNCHANGED <<doomed, standing, waived>>

Finish ==
  /\ Settled \/ waived
  /\ over'
  /\ UNCHANGED <<doomed, kept, standing, closed, hosts, waived>>

Next ==
  \/ Begin \/ Finish
  \/ \E c \in Clusters :
       Declare(c) \/ Erect(c) \/ Dismantle(c) \/ Forget(c) \/ Purge(c)
  \/ \E S \in SUBSET Clusters : Close(S)
  \/ \E s \in Sites : Retire(s)

Spec == Init /\ [][Next]_vars
=============================================================================
