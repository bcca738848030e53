--------------------------- MODULE PackageUpdate ---------------------------
(***************************************************************************)
(* airgap/scripts/update-package.sh: the staged, verified replacement of   *)
(* the air-gap package archive, in steps between which a command may be    *)
(* killed and another one started.                                         *)
(*                                                                         *)
(* The files of airgap/archives/ are what survives a command. A digest is  *)
(* represented by the package it is the digest of. Several commands may    *)
(* be started; the lock is to keep them apart.                             *)
(***************************************************************************)
EXTENDS Naturals

CONSTANTS
  Updaters,   \* processes the script may run in
  Packages,   \* the archives an operator may offer
  Good,       \* the ones verify-package.sh accepts
  NoFile, Torn,            \* no archive; one altered on disk
  NoLock, NoPid, DeadPid,  \* no lock; one without a pid; one of a dead process
  MaxFaults   \* bound on kills and alterations

ASSUME PackageAssumption ==
  /\ Good \subseteq Packages
  /\ NoFile \notin Packages /\ Torn \notin Packages /\ NoFile # Torn
ASSUME LockAssumption ==
  /\ \A l \in {NoLock, NoPid, DeadPid} : l \notin Updaters
  /\ NoLock # NoPid /\ NoLock # DeadPid /\ NoPid # DeadPid
ASSUME BoundAssumption == MaxFaults \in Nat

VARIABLES
  pc,        \* the step each updater is about to take
  cmd,       \* the command it runs
  want,      \* the package an apply was given
  code,      \* the exit code of its last command, until the next one
  holder,    \* the pid it has read from the lock it found, NoPid for none
  lock,      \* .update.lock: no directory, no pid in it, or the pid
  active,    \* the active archive
  staged,    \* the archive in .staging
  backup,    \* <active>.bak
  linked,    \* backup and active are two names of one file
  sum,       \* the digest in <active>.bak.sha256
  state,     \* .update-state: the phase and the first_install marker
  links,     \* the file system has hard links
  accepted,  \* history: the last package an operator accepted for good
  faults     \* kills and alterations so far

procs == <<pc, cmd, want, code, holder>>
kept  == <<backup, linked, sum>>
files == <<active, staged, kept, state>>
rest  == <<links, accepted, faults>>
vars  == <<procs, lock, files, rest>>

Commands == {"apply", "rollback", "confirm"}
Locking  == {"lock", "read", "probe", "reclaim", "remake", "pid"}
Inside   == { "check", "stage", "verify", "backup", "sum", "cutover", "swap",
              "deploy", "restore", "drop", "clear", "finish" }
Archives == Packages \cup {NoFile, Torn}
States   == [phase : {"none", "cutover", "awaiting-confirm"}, first : BOOLEAN]

Phase(p, f) == [phase |-> p, first |-> f]
NoState     == Phase("none", FALSE)

TypeOK ==
  /\ pc \in [Updaters -> {"idle"} \cup Locking \cup Inside]
  /\ cmd \in [Updaters -> Commands \cup {"none"}]
  /\ want \in [Updaters -> Packages \cup {NoFile}]
  /\ code \in [Updaters -> {0, 1, 2, 3, 4, 137}]
  /\ holder \in [Updaters -> Updaters \cup {NoPid, DeadPid}]
  /\ lock \in Updaters \cup {NoLock, NoPid, DeadPid}
  /\ active \in Archives /\ staged \in Archives
  /\ backup \in Archives /\ sum \in Archives
  /\ linked \in BOOLEAN /\ links \in BOOLEAN
  /\ state \in States
  /\ accepted \in Good \cup {NoFile}
  /\ faults \in 0..MaxFaults

Init ==
  /\ pc = [u \in Updaters |-> "idle"]
  /\ cmd = [u \in Updaters |-> "none"]
  /\ want = [u \in Updaters |-> NoFile]
  /\ code = [u \in Updaters |-> 0]
  /\ holder = [u \in Updaters |-> NoPid]
  /\ lock = NoLock
  /\ accepted \in Good \cup {NoFile} /\ active = accepted
  /\ staged = NoFile /\ backup = NoFile /\ linked = FALSE /\ sum = NoFile
  /\ state = NoState
  /\ links \in BOOLEAN
  /\ faults = 0

(* What restoring asks of the backup.                                      *)
Intact == backup # NoFile /\ sum = backup

Goto(u, to) == pc' = [pc EXCEPT ![u] = to]
Step(u, from, to) ==
  pc[u] = from /\ Goto(u, to) /\ UNCHANGED <<cmd, want, code, holder>>

(* The process is gone, and its locals with it; whoever has read its pid   *)
(* holds the pid of no process.                                            *)
Die(u, n) ==
  /\ Goto(u, "idle")
  /\ code' = [code EXCEPT ![u] = n]
  /\ cmd' = [cmd EXCEPT ![u] = "none"]
  /\ want' = [want EXCEPT ![u] = NoFile]
  /\ holder' = [v \in Updaters |-> CASE v = u         -> NoPid
                                     [] holder[v] = u -> DeadPid
                                     [] OTHER         -> holder[v]]

(* exit: the EXIT trap removes a lock that holds this pid.                 *)
Exit(u, n) == Die(u, n) /\ lock' = IF lock = u THEN NoLock ELSE lock

Refuse(u, n) == Exit(u, n) /\ UNCHANGED <<files, rest>>
---------------------------------------------------------------------------
(* Slips: variants of actions below, each with a bug the code could have.  *)
(* No specification uses them; putting one in the place of its original    *)
(* must break the property named with it.                                  *)

\* OneUpdater: mkdir -p, which does not mind a directory that exists.
MakeLockAnyway(u) ==
  /\ Step(u, "lock", "pid")
  /\ lock' = IF lock = NoLock THEN NoPid ELSE lock
  /\ UNCHANGED <<files, rest>>

\* AcceptedKept: an apply goes on over an unfinished update.
ApplyAgain(u) ==
  /\ CASE cmd[u] = "apply"   -> Step(u, "check", "stage")
       [] cmd[u] = "confirm" -> /\ state.phase = "awaiting-confirm"
                                /\ Step(u, "check", "drop")
       [] OTHER -> state # NoState /\ Step(u, "check", "restore")
  /\ UNCHANGED <<lock, files, rest>>

\* ImplementsSlot: the verdict of the verification is dropped.
VerifyNothing(u) ==
  /\ Step(u, "verify", "backup")
  /\ UNCHANGED <<lock, files, rest>>

\* ExitTells: a failed deploy clears the state before the archive is back.
ForgetUpdate(u) ==
  /\ Step(u, "deploy", "clear")
  /\ UNCHANGED <<lock, files, rest>>

\* RefusalJustified: the marker does not survive into awaiting-confirm,
\* against which the script warns.
AwaitConfirmUnmarked(u) ==
  /\ pc[u] = "deploy" /\ Exit(u, 0)
  /\ state' = Phase("awaiting-confirm", FALSE)
  /\ UNCHANGED <<active, staged, kept, rest>>

\* TypeOK: the digest of the backup is taken from its name.
RecordName(u) ==
  /\ Step(u, "sum", "cutover")
  /\ sum' = ".bak"
  /\ UNCHANGED <<lock, active, staged, backup, linked, state, rest>>
---------------------------------------------------------------------------
(* Starting a command, and what may happen to it and to its files.         *)

Start(u, c, p) ==
  /\ pc[u] = "idle" /\ Goto(u, "lock")
  /\ cmd' = [cmd EXCEPT ![u] = c]
  /\ want' = [want EXCEPT ![u] = IF c = "apply" THEN p ELSE NoFile]
  /\ code' = [code EXCEPT ![u] = 0]
  /\ UNCHANGED <<holder, lock, files, rest>>

(* A signal bash can trap releases the lock; a kill leaves it behind, with *)
(* a pid no process has.                                                   *)
Stopped(u) ==
  /\ pc[u] # "idle" /\ faults < MaxFaults
  /\ faults' = faults + 1
  /\ \/ Exit(u, 137)
     \/ Die(u, 137) /\ lock' = IF lock = u THEN DeadPid ELSE lock
  /\ UNCHANGED <<files, links, accepted>>

(* The backup changes on disk while it is kept.                            *)
Rot ==
  /\ state # NoState /\ Intact /\ ~linked /\ faults < MaxFaults
  /\ backup' = Torn
  /\ faults' = faults + 1
  /\ UNCHANGED <<procs, lock, active, staged, linked, sum, state, links, accepted>>

(* Left to the operator: to remove a lock without a pid, and to put the    *)
(* archive back from its source once a command has exited 4.               *)
Nobody == \A u \in Updaters : pc[u] = "idle"

RemoveLock ==
  /\ Nobody /\ lock = NoPid
  /\ lock' = NoLock
  /\ UNCHANGED <<procs, files, rest>>

RecoverByHand ==
  /\ Nobody /\ \E u \in Updaters : code[u] = 4
  /\ active' = accepted /\ backup' = NoFile /\ linked' = FALSE
  /\ sum' = NoFile /\ state' = NoState
  /\ UNCHANGED <<procs, lock, staged, rest>>
---------------------------------------------------------------------------
(* acquire_lock: mkdir, then the pid. Whoever finds the directory there    *)
(* reads the pid in it and probes that process; meanwhile its holder may   *)
(* end and others come and go.                                             *)

MakeLock(u) ==
  /\ Step(u, "lock", "pid") /\ lock = NoLock
  /\ lock' = NoPid
  /\ UNCHANGED <<files, rest>>

LockTaken(u) ==
  /\ Step(u, "lock", "read") /\ lock # NoLock
  /\ UNCHANGED <<lock, files, rest>>

ReadHolder(u) ==
  /\ pc[u] = "read" /\ Goto(u, "probe")
  /\ holder' = [holder EXCEPT ![u] = IF lock = NoLock THEN NoPid ELSE lock]
  /\ UNCHANGED <<cmd, want, code, lock, files, rest>>

(* No pid, or one that kill -0 finds alive.                                *)
LockHeld(u) ==
  /\ pc[u] = "probe" /\ holder[u] # DeadPid
  /\ Refuse(u, 1)

LockStale(u) ==
  /\ Step(u, "probe", "reclaim") /\ holder[u] = DeadPid
  /\ UNCHANGED <<lock, files, rest>>

(* rm -rf takes whatever lock is there by now. The script warns that this  *)
(* is not free of races and asks for one update at a time: nobody else     *)
(* runs at this step.                                                      *)
ReclaimLock(u) ==
  /\ Step(u, "reclaim", "remake")
  /\ \A v \in Updaters \ {u} : pc[v] = "idle"
  /\ lock' = NoLock
  /\ UNCHANGED <<files, rest>>

RemakeLock(u) ==
  \/ /\ Step(u, "remake", "pid") /\ lock = NoLock
     /\ lock' = NoPid
     /\ UNCHANGED <<files, rest>>
  \/ pc[u] = "remake" /\ lock # NoLock /\ Refuse(u, 1)

WritePid(u) ==
  /\ Step(u, "pid", "check")
  /\ lock' = u
  /\ UNCHANGED <<files, rest>>

(* What a command refuses once it holds the lock, and where it goes on.    *)
Blocked(u) ==
  /\ pc[u] = "check"
  /\ CASE cmd[u] = "apply"   -> state # NoState
       [] cmd[u] = "confirm" -> state.phase # "awaiting-confirm"
       [] OTHER              -> state = NoState
  /\ Refuse(u, 1)

Proceed(u) ==
  /\ CASE cmd[u] = "apply"   -> state = NoState /\ Step(u, "check", "stage")
       [] cmd[u] = "confirm" -> /\ state.phase = "awaiting-confirm"
                                /\ Step(u, "check", "drop")
       [] OTHER -> state # NoState /\ Step(u, "check", "restore")
  /\ UNCHANGED <<lock, files, rest>>
---------------------------------------------------------------------------
(* apply: stage, verify, keep the active archive, swap, deploy.            *)

Stage(u) ==
  /\ Step(u, "stage", "verify")
  /\ staged' = want[u]
  /\ UNCHANGED <<lock, active, kept, state, rest>>

Verified(u) ==
  /\ Step(u, "verify", "backup") /\ staged \in Good
  /\ UNCHANGED <<lock, files, rest>>

(* A sound package may be rejected, too, for want of space.                *)
Rejected(u) ==
  /\ pc[u] = "verify" /\ Exit(u, 2)
  /\ staged' = NoFile
  /\ UNCHANGED <<active, kept, state, rest>>

BeginInstall(u) ==
  /\ Step(u, "backup", "swap") /\ active = NoFile
  /\ state' = Phase("cutover", TRUE)
  /\ UNCHANGED <<lock, active, staged, kept, rest>>

LinkBackup(u) ==
  /\ Step(u, "backup", "sum") /\ active # NoFile
  /\ links /\ backup = NoFile
  /\ backup' = active /\ linked' = TRUE
  /\ UNCHANGED <<lock, active, staged, sum, state, rest>>

(* cp takes the place of ln where the file system has no links, and where  *)
(* a backup is left from before. It refuses to copy a file onto itself,    *)
(* and the script ends.                                                    *)
CopyBackup(u) ==
  /\ active # NoFile /\ (links => backup # NoFile)
  /\ \/ /\ ~linked /\ Step(u, "backup", "sum")
        /\ backup' = active
        /\ UNCHANGED <<lock, active, staged, linked, sum, state, rest>>
     \/ linked /\ pc[u] = "backup" /\ Refuse(u, 1)

RecordSum(u) ==
  /\ Step(u, "sum", "cutover")
  /\ sum' = backup
  /\ UNCHANGED <<lock, active, staged, backup, linked, state, rest>>

BeginCutover(u) ==
  /\ Step(u, "cutover", "swap")
  /\ state' = Phase("cutover", FALSE)
  /\ UNCHANGED <<lock, active, staged, kept, rest>>

Swap(u) ==
  /\ Step(u, "swap", "deploy")
  /\ active' = staged /\ staged' = NoFile /\ linked' = FALSE
  /\ UNCHANGED <<lock, backup, sum, state, rest>>

AwaitConfirm(u) ==
  /\ pc[u] = "deploy" /\ Exit(u, 0)
  /\ state' = Phase("awaiting-confirm", state.first)
  /\ UNCHANGED <<active, staged, kept, rest>>

DeployFails(u) ==
  /\ Step(u, "deploy", "restore")
  /\ UNCHANGED <<lock, files, rest>>
---------------------------------------------------------------------------
(* rollback, restore_previous after a failed deploy, and confirm.          *)

UndoInstall(u) ==
  /\ Step(u, "restore", "finish") /\ state.first
  /\ active' = NoFile
  /\ UNCHANGED <<lock, staged, kept, state, rest>>

BackupUnusable(u) ==
  /\ pc[u] = "restore" /\ ~state.first /\ ~Intact
  /\ Refuse(u, 4)

(* mv: when both names are one file, some systems drop the first name and  *)
(* some do nothing.                                                        *)
RestoreBackup(u) ==
  /\ Step(u, "restore", "clear") /\ ~state.first /\ Intact
  /\ active' = backup
  /\ \/ backup' = NoFile /\ linked' = FALSE
     \/ linked /\ UNCHANGED <<backup, linked>>
  /\ UNCHANGED <<lock, staged, sum, state, rest>>

(* confirm gives the prior package up with its backup.                     *)
DropBackup(u) ==
  /\ Step(u, "drop", "clear")
  /\ backup' = NoFile /\ linked' = FALSE
  /\ accepted' = IF state.first THEN accepted ELSE active
  /\ UNCHANGED <<lock, active, staged, sum, state, links, faults>>

ClearSum(u) ==
  /\ Step(u, "clear", "finish")
  /\ sum' = NoFile
  /\ UNCHANGED <<lock, active, staged, backup, linked, state, rest>>

Finish(u) ==
  /\ pc[u] = "finish" /\ Exit(u, IF cmd[u] = "apply" THEN 3 ELSE 0)
  /\ state' = NoState
  /\ accepted' = IF cmd[u] = "confirm" THEN active ELSE accepted
  /\ UNCHANGED <<active, staged, kept, links, faults>>
---------------------------------------------------------------------------
Locks(u) ==
  \/ MakeLock(u) \/ LockTaken(u) \/ ReadHolder(u) \/ LockHeld(u) \/ LockStale(u)
  \/ ReclaimLock(u) \/ RemakeLock(u) \/ WritePid(u)

Apply(u) ==
  \/ Stage(u) \/ Verified(u) \/ Rejected(u) \/ BeginInstall(u) \/ LinkBackup(u)
  \/ CopyBackup(u) \/ RecordSum(u) \/ BeginCutover(u) \/ Swap(u)
  \/ AwaitConfirm(u) \/ DeployFails(u)

Restore(u) ==
  \/ UndoInstall(u) \/ BackupUnusable(u) \/ RestoreBackup(u)
  \/ DropBackup(u) \/ ClearSum(u) \/ Finish(u)

Work(u) == Locks(u) \/ Blocked(u) \/ Proceed(u) \/ Apply(u) \/ Restore(u)

Next ==
  \/ \E u \in Updaters : Work(u) \/ Stopped(u)
  \/ \E u \in Updaters, c \in Commands, p \in Packages : Start(u, c, p)
  \/ Rot \/ RemoveLock \/ RecoverByHand

Spec == Init /\ [][Next]_vars
---------------------------------------------------------------------------
(* What must hold.                                                         *)

(* One command at a time is past the lock, whoever was killed holding it   *)
(* (update-package.sh 65-84).                                              *)
OneUpdater ==
  \A u, v \in Updaters : pc[u] \in Inside /\ pc[v] \in Inside => u = v

(* The accepted package is never lost: it is the active archive, or the    *)
(* backup that the recorded digest vouches for, or there was none and the  *)
(* state says so; only an alteration on disk takes it away                 *)
(* (docs/airgap.md 459-463, update-package.sh 162-173).                    *)
AcceptedKept ==
  \/ active = accepted
  \/ state # NoState /\ state.first /\ accepted = NoFile
  \/ /\ state # NoState /\ ~state.first
     /\ sum = accepted /\ backup \in {accepted, Torn}

(* What stands in the active name is the accepted package or one that      *)
(* passed verification, replaced only by way of the other                  *)
(* (docs/airgap.md 459-481).                                               *)
Slot == INSTANCE PackageSlot
          WITH current   <- accepted,
               candidate <- IF active = accepted THEN NoFile ELSE active

ImplementsSlot == Slot!Spec

Ends(u, c, n) == pc[u] # "idle" /\ pc'[u] = "idle" /\ cmd[u] = c /\ code'[u] = n

(* The exit code tells where the archives are: 0 of an apply, its package  *)
(* is active and can be withdrawn; 2, nothing was touched; 3 of an apply   *)
(* and 0 of a rollback, the accepted package is active again and the       *)
(* update is over (docs/airgap.md 514-523).                                *)
ExitTells ==
  [][\A u \in Updaters :
       /\ Ends(u, "apply", 0) => active' = want[u] /\ state'.phase = "awaiting-confirm"
       /\ Ends(u, "apply", 2) => active' = accepted' /\ state' = NoState
       /\ Ends(u, "apply", 3) \/ Ends(u, "rollback", 0)
            => active' = accepted' /\ state' = NoState]_vars

(* A restore calls for manual recovery only when the backup was altered,   *)
(* or when an interrupted restore has already put it back                  *)
(* (update-package.sh 120-123, 181-187, 200-203).                          *)
RefusalJustified ==
  [][\A u \in Updaters :
       pc[u] = "restore" /\ pc'[u] = "idle" /\ code'[u] = 4
         => backup = Torn \/ active = accepted]_vars
=============================================================================
