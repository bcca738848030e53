------------------------ MODULE PackageUpdateProofs ------------------------
(***************************************************************************)
(* Theorems about update-package.sh, for every number of updaters, every   *)
(* set of packages and any number of kills.                                *)
(***************************************************************************)
EXTENDS PackageUpdate, TLAPS

---------------------------------------------------------------------------
(* The inductive invariant.                                                *)

(* The lock: whoever is past it has its pid in it, whoever made it last    *)
(* has yet to write one, and one updater runs while a stale one is there.  *)
LockInv ==
  /\ \A u \in Updaters :
       /\ pc[u] \in Inside => lock = u
       /\ pc[u] = "pid" => lock = NoPid
  /\ \A u, v \in Updaters : pc[u] = "pid" /\ pc[v] = "pid" => u = v

(* The files between any two steps: what an interrupted command leaves.    *)
FileInv ==
  /\ active \in Good \cup {NoFile}
  /\ active = NoFile => accepted = NoFile
  /\ linked => active # NoFile /\ backup = active /\ ~state.first
  /\ state = NoState => active = accepted
  /\ state.first => accepted = NoFile
  /\ state # NoState /\ ~state.first =>
       \/ active = accepted /\ (backup = NoFile \/ linked)
       \/ accepted # NoFile /\ sum = accepted /\ backup \in {accepted, Torn}

(* The files as the updater past the lock knows them.                      *)
StepInv(u) ==
  /\ pc[u] \in {"stage", "verify", "backup", "sum", "cutover"} => state = NoState
  /\ pc[u] = "verify" => staged = want[u]
  /\ pc[u] \in {"backup", "sum", "cutover", "swap"} =>
       staged = want[u] /\ staged \in Good
  /\ pc[u] \in {"sum", "cutover"} => active # NoFile /\ backup = active
  /\ pc[u] = "cutover" => sum = backup
  /\ pc[u] = "swap" =>
       /\ active = accepted
       /\ ~state.first => /\ accepted # NoFile /\ sum = accepted
                          /\ backup \in {accepted, Torn}
  /\ pc[u] = "deploy" => active = want[u]
  /\ pc[u] \in {"swap", "deploy", "restore", "drop", "clear", "finish"} =>
       state # NoState
  /\ pc[u] = "drop" => cmd[u] = "confirm"
  /\ pc[u] \in {"stage", "verify", "backup", "sum", "cutover", "swap", "deploy"}
       => cmd[u] = "apply"
  /\ pc[u] = "restore" => cmd[u] # "confirm"
  /\ pc[u] \in {"clear", "finish"} /\ (cmd[u] # "confirm" \/ ~state.first) =>
       active = accepted
  /\ pc[u] \in {"clear", "finish"} /\ ~state.first => backup = NoFile \/ linked

IInv == TypeOK /\ LockInv /\ FileInv /\ \A u \in Updaters : StepInv(u)
---------------------------------------------------------------------------
(* Every reachable state is well typed (update-package.sh 19-245).         *)
LEMMA TypeInit == Init => TypeOK
  <1> SUFFICES ASSUME Init PROVE TypeOK
    OBVIOUS
  <1>1. state \in States /\ linked \in BOOLEAN /\ links \in BOOLEAN
    BY DEF Init, States, Phase, NoState
  <1>2. /\ active \in Archives /\ staged \in Archives
        /\ backup \in Archives /\ sum \in Archives
    BY PackageAssumption DEF Init, PackageAssumption, Archives
  <1>3. /\ pc \in [Updaters -> {"idle"} \cup Locking \cup Inside]
        /\ cmd \in [Updaters -> Commands \cup {"none"}]
        /\ want \in [Updaters -> Packages \cup {NoFile}]
        /\ code \in [Updaters -> {0, 1, 2, 3, 4, 137}]
    BY DEF Init
  <1> QED
    BY <1>1, <1>2, <1>3, BoundAssumption DEF Init, TypeOK, BoundAssumption

LEMMA TypeStep == TypeOK /\ FileInv /\ [Next]_vars => TypeOK'
  <1> SUFFICES ASSUME TypeOK, FileInv, [Next]_vars
               PROVE  TypeOK'
    OBVIOUS
  <1> USE PackageAssumption, BoundAssumption
      DEF PackageAssumption, BoundAssumption, TypeOK, Archives, States, Phase, NoState,
          Commands, Locking, Inside, procs, kept, files, rest, Goto
  <1>1. ASSUME NEW u \in Updaters, Work(u)
       PROVE  TypeOK'
    <2>1. CASE Locks(u)
      <3>1. CASE MakeLock(u)
        BY <3>1 DEF MakeLock, Step
      <3>2. CASE LockTaken(u)
        BY <3>2 DEF LockTaken, Step
      <3>3. CASE ReadHolder(u)
        BY <3>3 DEF ReadHolder
      <3>4. CASE LockHeld(u)
        BY <3>4 DEF LockHeld, Refuse, Exit, Die
      <3>5. CASE LockStale(u)
        BY <3>5 DEF LockStale, Step
      <3>6. CASE ReclaimLock(u)
        BY <3>6 DEF ReclaimLock, Step
      <3>7. CASE RemakeLock(u)
        BY <3>7 DEF RemakeLock, Step, Refuse, Exit, Die
      <3>8. CASE WritePid(u)
        BY <3>8 DEF WritePid, Step
      <3> QED
        BY <2>1, <3>1, <3>2, <3>3, <3>4, <3>5, <3>6, <3>7, <3>8 DEF Locks
    <2>2. CASE Apply(u)
      <3>1. CASE Stage(u)
        BY <3>1 DEF Stage, Step
      <3>2. CASE Verified(u)
        BY <3>2 DEF Verified, Step
      <3>3. CASE Rejected(u)
        BY <3>3 DEF Rejected, Exit, Die
      <3>4. CASE BeginInstall(u)
        BY <3>4 DEF BeginInstall, Step
      <3>5. CASE LinkBackup(u)
        BY <3>5 DEF LinkBackup, Step
      <3>6. CASE CopyBackup(u)
        BY <3>6 DEF CopyBackup, Step, Refuse, Exit, Die
      <3>7. CASE RecordSum(u)
        BY <3>7 DEF RecordSum, Step
      <3>8. CASE BeginCutover(u)
        BY <3>8 DEF BeginCutover, Step
      <3>9. CASE Swap(u)
        <4>1. active' \in Archives /\ staged' \in Archives
          BY <3>9 DEF Swap
        <4>2. linked' \in BOOLEAN /\ UNCHANGED <<lock, backup, sum, state, rest>>
          BY <3>9 DEF Swap
        <4> QED
          BY <3>9, <4>1, <4>2 DEF Swap, Step
      <3>10. CASE AwaitConfirm(u)
        BY <3>10 DEF AwaitConfirm, Exit, Die
      <3>11. CASE DeployFails(u)
        BY <3>11 DEF DeployFails, Step
      <3> QED
        BY <2>2, <3>1, <3>2, <3>3, <3>4, <3>5, <3>6, <3>7, <3>8, <3>9, <3>10, <3>11 DEF Apply
    <2>3. CASE Restore(u)
      <3>1. CASE UndoInstall(u)
        BY <3>1 DEF UndoInstall, Step
      <3>2. CASE BackupUnusable(u)
        BY <3>2 DEF BackupUnusable, Refuse, Exit, Die
      <3>3. CASE RestoreBackup(u)
        <4>1. active' \in Archives
          BY <3>3 DEF RestoreBackup
        <4>2. backup' \in Archives
          BY <3>3 DEF RestoreBackup
        <4>3. linked' \in BOOLEAN
          BY <3>3 DEF RestoreBackup
        <4>4. UNCHANGED <<lock, staged, sum, state, rest>>
          BY <3>3 DEF RestoreBackup
        <4> QED
          BY <3>3, <4>1, <4>2, <4>3, <4>4 DEF RestoreBackup, Step
      <3>4. CASE DropBackup(u)
        BY <3>4 DEF DropBackup, Step, FileInv
      <3>5. CASE ClearSum(u)
        BY <3>5 DEF ClearSum, Step
      <3>6. CASE Finish(u)
        BY <3>6 DEF Finish, Exit, Die, FileInv
      <3> QED
        BY <2>3, <3>1, <3>2, <3>3, <3>4, <3>5, <3>6 DEF Restore
    <2>4. CASE Blocked(u)
      BY <2>4 DEF Blocked, Refuse, Exit, Die
    <2>5. CASE Proceed(u)
      BY <2>5 DEF Proceed, Step
    <2> QED
      BY <1>1, <2>1, <2>2, <2>3, <2>4, <2>5 DEF Work
  <1>2. ASSUME NEW u \in Updaters, Stopped(u)
       PROVE  TypeOK'
    BY <1>2 DEF Stopped, Exit, Die
  <1>3. ASSUME NEW u \in Updaters, NEW c \in Commands, NEW p \in Packages,
              Start(u, c, p)
       PROVE  TypeOK'
    BY <1>3 DEF Start
  <1>4. CASE Rot
    BY <1>4 DEF Rot, Intact
  <1>5. CASE RemoveLock
    BY <1>5 DEF RemoveLock, Nobody
  <1>6. CASE RecoverByHand
    BY <1>6 DEF RecoverByHand, Nobody
  <1>7. CASE UNCHANGED vars
    BY <1>7 DEF vars
  <1> QED
    BY <1>1, <1>2, <1>3, <1>4, <1>5, <1>6, <1>7 DEF Next

(* Mutual exclusion rests on the lock alone: no step of one updater puts   *)
(* another past it (update-package.sh 59-84).                              *)
LEMMA LockInit == Init => LockInv
  BY DEF Init, LockInv, Inside

LEMMA LockStep == TypeOK /\ LockInv /\ [Next]_vars => LockInv'
  <1> SUFFICES ASSUME TypeOK, LockInv, [Next]_vars
               PROVE  LockInv'
    OBVIOUS
  <1> USE LockAssumption
      DEF LockAssumption, TypeOK, LockInv, Commands, Locking, Inside, procs, kept,
          files, rest, Goto
  <1>1. ASSUME NEW u \in Updaters, Work(u)
       PROVE  LockInv'
    <2>1. CASE Locks(u)
      <3>1. CASE MakeLock(u)
        BY <3>1 DEF MakeLock, Step
      <3>2. CASE LockTaken(u)
        BY <3>2 DEF LockTaken, Step
      <3>3. CASE ReadHolder(u)
        BY <3>3 DEF ReadHolder
      <3>4. CASE LockHeld(u)
        BY <3>4 DEF LockHeld, Refuse, Exit, Die
      <3>5. CASE LockStale(u)
        BY <3>5 DEF LockStale, Step
      <3>6. CASE ReclaimLock(u)
        BY <3>6 DEF ReclaimLock, Step
      <3>7. CASE RemakeLock(u)
        BY <3>7 DEF RemakeLock, Step, Refuse, Exit, Die
      <3>8. CASE WritePid(u)
        BY <3>8 DEF WritePid, Step
      <3> QED
        BY <2>1, <3>1, <3>2, <3>3, <3>4, <3>5, <3>6, <3>7, <3>8 DEF Locks
    <2>2. CASE Apply(u)
      <3>1. CASE Stage(u)
        BY <3>1 DEF Stage, Step
      <3>2. CASE Verified(u)
        BY <3>2 DEF Verified, Step
      <3>3. CASE Rejected(u)
        BY <3>3 DEF Rejected, Exit, Die
      <3>4. CASE BeginInstall(u)
        BY <3>4 DEF BeginInstall, Step
      <3>5. CASE LinkBackup(u)
        BY <3>5 DEF LinkBackup, Step
      <3>6. CASE CopyBackup(u)
        BY <3>6 DEF CopyBackup, Step, Refuse, Exit, Die
      <3>7. CASE RecordSum(u)
        BY <3>7 DEF RecordSum, Step
      <3>8. CASE BeginCutover(u)
        BY <3>8 DEF BeginCutover, Step
      <3>9. CASE Swap(u)
        BY <3>9 DEF Swap, Step
      <3>10. CASE AwaitConfirm(u)
        BY <3>10 DEF AwaitConfirm, Exit, Die
      <3>11. CASE DeployFails(u)
        BY <3>11 DEF DeployFails, Step
      <3> QED
        BY <2>2, <3>1, <3>2, <3>3, <3>4, <3>5, <3>6, <3>7, <3>8, <3>9, <3>10, <3>11 DEF Apply
    <2>3. CASE Restore(u)
      <3>1. CASE UndoInstall(u)
        BY <3>1 DEF UndoInstall, Step
      <3>2. CASE BackupUnusable(u)
        BY <3>2 DEF BackupUnusable, Refuse, Exit, Die
      <3>3. CASE RestoreBackup(u)
        BY <3>3 DEF RestoreBackup, Step
      <3>4. CASE DropBackup(u)
        BY <3>4 DEF DropBackup, Step
      <3>5. CASE ClearSum(u)
        BY <3>5 DEF ClearSum, Step
      <3>6. CASE Finish(u)
        BY <3>6 DEF Finish, Exit, Die
      <3> QED
        BY <2>3, <3>1, <3>2, <3>3, <3>4, <3>5, <3>6 DEF Restore
    <2>4. CASE Blocked(u)
      BY <2>4 DEF Blocked, Refuse, Exit, Die
    <2>5. CASE Proceed(u)
      BY <2>5 DEF Proceed, Step
    <2> QED
      BY <1>1, <2>1, <2>2, <2>3, <2>4, <2>5 DEF Work
  <1>2. ASSUME NEW u \in Updaters, Stopped(u)
       PROVE  LockInv'
    BY <1>2 DEF Stopped, Exit, Die
  <1>3. ASSUME NEW u \in Updaters, NEW c \in Commands, NEW p \in Packages,
              Start(u, c, p)
       PROVE  LockInv'
    BY <1>3 DEF Start
  <1>4. CASE Rot
    BY <1>4 DEF Rot, Intact
  <1>5. CASE RemoveLock
    BY <1>5 DEF RemoveLock, Nobody
  <1>6. CASE RecoverByHand
    BY <1>6 DEF RecoverByHand, Nobody
  <1>7. CASE UNCHANGED vars
    BY <1>7 DEF vars
  <1> QED
    BY <1>1, <1>2, <1>3, <1>4, <1>5, <1>6, <1>7 DEF Next

(* A step of one updater is made past the lock, or leaves the files alone; *)
(* it never touches another updater's step and locals.                     *)
LEMMA Apart ==
  ASSUME TypeOK, NEW u \in Updaters, Work(u)
  PROVE  /\ pc[u] \in Inside \/ UNCHANGED <<files, rest>>
         /\ \A v \in Updaters \ {u} : /\ pc'[v] = pc[v]
                                      /\ cmd'[v] = cmd[v] /\ want'[v] = want[v]
  <1> USE DEF TypeOK, Locking, Inside, Goto
  <1>1. CASE Locks(u)
    <2>1. CASE MakeLock(u)
      BY <2>1 DEF MakeLock, Step
    <2>2. CASE LockTaken(u)
      BY <2>2 DEF LockTaken, Step
    <2>3. CASE ReadHolder(u)
      BY <2>3 DEF ReadHolder
    <2>4. CASE LockHeld(u)
      BY <2>4 DEF LockHeld, Refuse, Exit, Die
    <2>5. CASE LockStale(u)
      BY <2>5 DEF LockStale, Step
    <2>6. CASE ReclaimLock(u)
      BY <2>6 DEF ReclaimLock, Step
    <2>7. CASE RemakeLock(u)
      BY <2>7 DEF RemakeLock, Step, Refuse, Exit, Die
    <2>8. CASE WritePid(u)
      BY <2>8 DEF WritePid, Step
    <2> QED
      BY <1>1, <2>1, <2>2, <2>3, <2>4, <2>5, <2>6, <2>7, <2>8 DEF Locks
  <1>2. CASE Apply(u)
    <2>1. CASE Stage(u)
      BY <2>1 DEF Stage, Step
    <2>2. CASE Verified(u)
      BY <2>2 DEF Verified, Step
    <2>3. CASE Rejected(u)
      BY <2>3 DEF Rejected, Exit, Die
    <2>4. CASE BeginInstall(u)
      BY <2>4 DEF BeginInstall, Step
    <2>5. CASE LinkBackup(u)
      BY <2>5 DEF LinkBackup, Step
    <2>6. CASE CopyBackup(u)
      BY <2>6 DEF CopyBackup, Step, Refuse, Exit, Die
    <2>7. CASE RecordSum(u)
      BY <2>7 DEF RecordSum, Step
    <2>8. CASE BeginCutover(u)
      BY <2>8 DEF BeginCutover, Step
    <2>9. CASE Swap(u)
      BY <2>9 DEF Swap, Step
    <2>10. CASE AwaitConfirm(u)
      BY <2>10 DEF AwaitConfirm, Exit, Die
    <2>11. CASE DeployFails(u)
      BY <2>11 DEF DeployFails, Step
    <2> QED
      BY <1>2, <2>1, <2>2, <2>3, <2>4, <2>5, <2>6, <2>7, <2>8, <2>9, <2>10, <2>11 DEF Apply
  <1>3. CASE Restore(u)
    <2>1. CASE UndoInstall(u)
      BY <2>1 DEF UndoInstall, Step
    <2>2. CASE BackupUnusable(u)
      BY <2>2 DEF BackupUnusable, Refuse, Exit, Die
    <2>3. CASE RestoreBackup(u)
      BY <2>3 DEF RestoreBackup, Step
    <2>4. CASE DropBackup(u)
      BY <2>4 DEF DropBackup, Step
    <2>5. CASE ClearSum(u)
      BY <2>5 DEF ClearSum, Step
    <2>6. CASE Finish(u)
      BY <2>6 DEF Finish, Exit, Die
    <2> QED
      BY <1>3, <2>1, <2>2, <2>3, <2>4, <2>5, <2>6 DEF Restore
  <1>4. CASE Blocked(u)
    BY <1>4 DEF Blocked, Refuse, Exit, Die
  <1>5. CASE Proceed(u)
    BY <1>5 DEF Proceed, Step
  <1> QED
    BY <1>1, <1>2, <1>3, <1>4, <1>5 DEF Work

LEMMA FileInit == Init => FileInv /\ \A u \in Updaters : StepInv(u)
  BY PackageAssumption DEF Init, FileInv, StepInv, PackageAssumption, Phase, NoState

(* The updater past the lock keeps the files in the state they are known   *)
(* to be in.                                                               *)
LEMMA FileStepOf ==
  ASSUME IInv, NEW u \in Updaters, Work(u)
  PROVE  FileInv' /\ StepInv(u)'
  <1>1. TypeOK /\ FileInv /\ StepInv(u)
    BY DEF IInv
  <1> USE <1>1, PackageAssumption
      DEF PackageAssumption, TypeOK, FileInv, StepInv, States, Phase, NoState,
          Archives, Commands, Intact, kept, files, rest, Goto
  <1>2. CASE Locks(u)
    <2>1. CASE MakeLock(u)
      BY <2>1 DEF MakeLock, Step
    <2>2. CASE LockTaken(u)
      BY <2>2 DEF LockTaken, Step
    <2>3. CASE ReadHolder(u)
      BY <2>3 DEF ReadHolder
    <2>4. CASE LockHeld(u)
      BY <2>4 DEF LockHeld, Refuse, Exit, Die
    <2>5. CASE LockStale(u)
      BY <2>5 DEF LockStale, Step
    <2>6. CASE ReclaimLock(u)
      BY <2>6 DEF ReclaimLock, Step
    <2>7. CASE RemakeLock(u)
      BY <2>7 DEF RemakeLock, Step, Refuse, Exit, Die
    <2>8. CASE WritePid(u)
      BY <2>8 DEF WritePid, Step
    <2> QED
      BY <1>2, <2>1, <2>2, <2>3, <2>4, <2>5, <2>6, <2>7, <2>8 DEF Locks
  <1>3. CASE Apply(u)
    <2>1. CASE Stage(u)
      BY <2>1 DEF Stage, Step
    <2>2. CASE Verified(u)
      BY <2>2 DEF Verified, Step
    <2>3. CASE Rejected(u)
      BY <2>3 DEF Rejected, Exit, Die
    <2>4. CASE BeginInstall(u)
      BY <2>4 DEF BeginInstall, Step
    <2>5. CASE LinkBackup(u)
      BY <2>5 DEF LinkBackup, Step
    <2>6. CASE CopyBackup(u)
      BY <2>6 DEF CopyBackup, Step, Refuse, Exit, Die
    <2>7. CASE RecordSum(u)
      BY <2>7 DEF RecordSum, Step
    <2>8. CASE BeginCutover(u)
      BY <2>8 DEF BeginCutover, Step
    <2>9. CASE Swap(u)
      BY <2>9 DEF Swap, Step
    <2>10. CASE AwaitConfirm(u)
      BY <2>10 DEF AwaitConfirm, Exit, Die
    <2>11. CASE DeployFails(u)
      BY <2>11 DEF DeployFails, Step
    <2> QED
      BY <1>3, <2>1, <2>2, <2>3, <2>4, <2>5, <2>6, <2>7, <2>8, <2>9, <2>10, <2>11 DEF Apply
  <1>4. CASE Restore(u)
    <2>1. CASE UndoInstall(u)
      BY <2>1 DEF UndoInstall, Step
    <2>2. CASE BackupUnusable(u)
      BY <2>2 DEF BackupUnusable, Refuse, Exit, Die
    <2>3. CASE RestoreBackup(u)
      BY <2>3 DEF RestoreBackup, Step
    <2>4. CASE DropBackup(u)
      BY <2>4 DEF DropBackup, Step
    <2>5. CASE ClearSum(u)
      BY <2>5 DEF ClearSum, Step
    <2>6. CASE Finish(u)
      BY <2>6 DEF Finish, Exit, Die
    <2> QED
      BY <1>4, <2>1, <2>2, <2>3, <2>4, <2>5, <2>6 DEF Restore
  <1>5. CASE Blocked(u)
    BY <1>5 DEF Blocked, Refuse, Exit, Die
  <1>6. CASE Proceed(u)
    BY <1>6 DEF Proceed, Step
  <1> QED
    BY <1>2, <1>3, <1>4, <1>5, <1>6 DEF Work

LEMMA FileStep == IInv /\ [Next]_vars => FileInv' /\ \A v \in Updaters : StepInv(v)'
  <1> SUFFICES ASSUME IInv, [Next]_vars
               PROVE  FileInv' /\ \A v \in Updaters : StepInv(v)'
    OBVIOUS
  <1>0. TypeOK /\ LockInv /\ FileInv /\ \A v \in Updaters : StepInv(v)
    BY DEF IInv
  <1>1. ASSUME NEW u \in Updaters, Work(u)
        PROVE  FileInv' /\ \A v \in Updaters : StepInv(v)'
    <2>1. FileInv' /\ StepInv(u)'
      BY <1>1, FileStepOf
    <2>2. ASSUME NEW v \in Updaters \ {u}
          PROVE  StepInv(v)'
      <3>1. pc'[v] = pc[v] /\ cmd'[v] = cmd[v] /\ want'[v] = want[v]
        BY <1>0, <1>1, Apart
      <3>2. CASE pc[u] \in Inside
        <4>1. pc[v] \notin Inside
          BY <1>0, <3>2, LockAssumption DEF LockInv, LockAssumption
        <4> QED
          BY <3>1, <4>1 DEF StepInv, Inside
      <3>3. CASE UNCHANGED <<files, rest>>
        BY <1>0, <3>1, <3>3 DEF StepInv, files, kept, rest
      <3> QED
        BY <1>0, <1>1, <3>2, <3>3, Apart
    <2> QED
      BY <2>1, <2>2
  <1>2. ASSUME NEW u \in Updaters, Stopped(u)
        PROVE  FileInv' /\ \A v \in Updaters : StepInv(v)'
    <2>1. /\ pc'[u] = "idle"
          /\ \A v \in Updaters \ {u} : /\ pc'[v] = pc[v]
                                       /\ cmd'[v] = cmd[v] /\ want'[v] = want[v]
      BY <1>0, <1>2 DEF Stopped, Exit, Die, Goto, TypeOK
    <2>2. UNCHANGED <<files, accepted>>
      BY <1>2 DEF Stopped
    <2> QED
      BY <1>0, <2>1, <2>2 DEF FileInv, StepInv, files, kept
  <1>3. ASSUME NEW u \in Updaters, NEW c \in Commands, NEW p \in Packages,
               Start(u, c, p)
        PROVE  FileInv' /\ \A v \in Updaters : StepInv(v)'
    <2>1. /\ pc'[u] = "lock"
          /\ \A v \in Updaters \ {u} : /\ pc'[v] = pc[v]
                                       /\ cmd'[v] = cmd[v] /\ want'[v] = want[v]
      BY <1>0, <1>3 DEF Start, Goto, TypeOK
    <2>2. UNCHANGED <<files, accepted>>
      BY <1>3 DEF Start, rest
    <2> QED
      BY <1>0, <2>1, <2>2 DEF FileInv, StepInv, files, kept
  <1>4. CASE Rot
    BY <1>0, <1>4, PackageAssumption
    DEF Rot, Intact, FileInv, StepInv, PackageAssumption, TypeOK, procs
  <1>5. CASE RemoveLock
    BY <1>0, <1>5 DEF RemoveLock, FileInv, StepInv, procs, files, kept, rest
  <1>6. CASE RecoverByHand
    BY <1>0, <1>6, PackageAssumption
    DEF RecoverByHand, Nobody, FileInv, StepInv, PackageAssumption, TypeOK, procs,
        rest, Phase, NoState
  <1>7. CASE UNCHANGED vars
    BY <1>0, <1>7 DEF FileInv, StepInv, vars, procs, files, kept, rest
  <1> QED
    BY <1>1, <1>2, <1>3, <1>4, <1>5, <1>6, <1>7 DEF Next

THEOREM Invariance == Spec => []IInv
  <1>1. Init => IInv
    BY TypeInit, LockInit, FileInit DEF IInv
  <1>2. IInv /\ [Next]_vars => IInv'
    BY TypeStep, LockStep, FileStep DEF IInv
  <1> QED
    BY <1>1, <1>2, PTL DEF Spec

(* Every reachable state is well typed (update-package.sh 19-245).         *)
THEOREM TypeCorrect == Spec => []TypeOK
  <1>1. IInv => TypeOK
    BY DEF IInv
  <1> QED
    BY Invariance, <1>1, PTL

(* However many commands are started and killed, one at a time is past the *)
(* lock (update-package.sh 59-84).                                         *)
THEOREM Exclusion == Spec => []OneUpdater
  <1>1. IInv => OneUpdater
    BY DEF IInv, LockInv, OneUpdater
  <1> QED
    BY Invariance, <1>1, PTL

(* Nothing but an alteration on disk takes the accepted package away       *)
(* (update-package.sh 114-225).                                            *)
THEOREM Kept == Spec => []AcceptedKept
  <1>1. IInv => AcceptedKept
    BY DEF IInv, FileInv, AcceptedKept
  <1> QED
    BY Invariance, <1>1, PTL

---------------------------------------------------------------------------
(* What a step that ends a command finds; what the archives look like when *)
(* it ends.                                                                *)
Told(u) ==
  /\ Ends(u, "apply", 0) => active' = want[u] /\ state'.phase = "awaiting-confirm"
  /\ Ends(u, "apply", 2) => active' = accepted' /\ state' = NoState
  /\ Ends(u, "apply", 3) \/ Ends(u, "rollback", 0)
       => active' = accepted' /\ state' = NoState

Justified(u) ==
  pc[u] = "restore" /\ pc'[u] = "idle" /\ code'[u] = 4
    => backup = Torn \/ active = accepted

LEMMA EndOf ==
  ASSUME IInv, NEW u \in Updaters, Work(u)
  PROVE  Told(u) /\ Justified(u)
  <1>1. TypeOK /\ FileInv /\ StepInv(u)
    BY DEF IInv
  <1> USE <1>1, PackageAssumption
      DEF PackageAssumption, TypeOK, FileInv, StepInv, States, Phase, NoState,
          Commands, Intact, kept, files, rest, Goto, Told, Justified, Ends
  <1>2. CASE Locks(u)
    <2>1. CASE MakeLock(u)
      BY <2>1 DEF MakeLock, Step
    <2>2. CASE LockTaken(u)
      BY <2>2 DEF LockTaken, Step
    <2>3. CASE ReadHolder(u)
      BY <2>3 DEF ReadHolder
    <2>4. CASE LockHeld(u)
      BY <2>4 DEF LockHeld, Refuse, Exit, Die
    <2>5. CASE LockStale(u)
      BY <2>5 DEF LockStale, Step
    <2>6. CASE ReclaimLock(u)
      BY <2>6 DEF ReclaimLock, Step
    <2>7. CASE RemakeLock(u)
      BY <2>7 DEF RemakeLock, Step, Refuse, Exit, Die
    <2>8. CASE WritePid(u)
      BY <2>8 DEF WritePid, Step
    <2> QED
      BY <1>2, <2>1, <2>2, <2>3, <2>4, <2>5, <2>6, <2>7, <2>8 DEF Locks
  <1>3. CASE Apply(u)
    <2>1. CASE Stage(u)
      BY <2>1 DEF Stage, Step
    <2>2. CASE Verified(u)
      BY <2>2 DEF Verified, Step
    <2>3. CASE Rejected(u)
      BY <2>3 DEF Rejected, Exit, Die
    <2>4. CASE BeginInstall(u)
      BY <2>4 DEF BeginInstall, Step
    <2>5. CASE LinkBackup(u)
      BY <2>5 DEF LinkBackup, Step
    <2>6. CASE CopyBackup(u)
      BY <2>6 DEF CopyBackup, Step, Refuse, Exit, Die
    <2>7. CASE RecordSum(u)
      BY <2>7 DEF RecordSum, Step
    <2>8. CASE BeginCutover(u)
      BY <2>8 DEF BeginCutover, Step
    <2>9. CASE Swap(u)
      BY <2>9 DEF Swap, Step
    <2>10. CASE AwaitConfirm(u)
      <3>1. active' = want[u] /\ state'.phase = "awaiting-confirm"
        BY <2>10 DEF AwaitConfirm
      <3>2. code'[u] = 0
        BY <2>10 DEF AwaitConfirm, Exit, Die
      <3>3. pc[u] = "deploy" /\ cmd[u] = "apply"
        BY <2>10 DEF AwaitConfirm
      <3> QED
        BY <3>1, <3>2, <3>3
    <2>11. CASE DeployFails(u)
      BY <2>11 DEF DeployFails, Step
    <2> QED
      BY <1>3, <2>1, <2>2, <2>3, <2>4, <2>5, <2>6, <2>7, <2>8, <2>9, <2>10, <2>11 DEF Apply
  <1>4. CASE Restore(u)
    <2>1. CASE UndoInstall(u)
      BY <2>1 DEF UndoInstall, Step
    <2>2. CASE BackupUnusable(u)
      BY <2>2 DEF BackupUnusable, Refuse, Exit, Die
    <2>3. CASE RestoreBackup(u)
      BY <2>3 DEF RestoreBackup, Step
    <2>4. CASE DropBackup(u)
      BY <2>4 DEF DropBackup, Step
    <2>5. CASE ClearSum(u)
      BY <2>5 DEF ClearSum, Step
    <2>6. CASE Finish(u)
      BY <2>6 DEF Finish, Exit, Die
    <2> QED
      BY <1>4, <2>1, <2>2, <2>3, <2>4, <2>5, <2>6 DEF Restore
  <1>5. CASE Blocked(u)
    BY <1>5 DEF Blocked, Refuse, Exit, Die
  <1>6. CASE Proceed(u)
    BY <1>6 DEF Proceed, Step
  <1> QED
    BY <1>2, <1>3, <1>4, <1>5, <1>6 DEF Work

LEMMA EndStep ==
  IInv /\ [Next]_vars => [\A v \in Updaters : Told(v) /\ Justified(v)]_vars
  <1> SUFFICES ASSUME IInv, Next, NEW v \in Updaters
               PROVE  Told(v) /\ Justified(v)
    OBVIOUS
  <1>0. TypeOK
    BY DEF IInv
  <1>1. ASSUME NEW u \in Updaters, Work(u)
        PROVE  Told(v) /\ Justified(v)
    <2>1. CASE v = u
      BY <1>1, <2>1, EndOf
    <2>2. CASE v # u
      <3>1. pc'[v] = pc[v]
        BY <1>0, <1>1, <2>2, Apart
      <3> QED
        BY <3>1 DEF Told, Justified, Ends
    <2> QED
      BY <2>1, <2>2
  <1>2. ASSUME NEW u \in Updaters, Stopped(u)
        PROVE  Told(v) /\ Justified(v)
    <2>1. pc'[v] = pc[v] \/ code'[v] = 137
      BY <1>0, <1>2 DEF Stopped, Exit, Die, Goto, TypeOK
    <2> QED
      BY <2>1 DEF Told, Justified, Ends
  <1>3. ASSUME NEW u \in Updaters, NEW c \in Commands, NEW p \in Packages,
               Start(u, c, p)
        PROVE  Told(v) /\ Justified(v)
    <2>1. pc'[v] = pc[v] \/ pc'[v] = "lock"
      BY <1>0, <1>3 DEF Start, Goto, TypeOK
    <2> QED
      BY <2>1 DEF Told, Justified, Ends
  <1>4. CASE Rot \/ RemoveLock \/ RecoverByHand
    BY <1>4 DEF Rot, RemoveLock, RecoverByHand, procs, Told, Justified, Ends
  <1> QED
    BY <1>1, <1>2, <1>3, <1>4 DEF Next

(* The exit code tells what became of the archives                         *)
(* (docs/airgap.md 514-523, update-package.sh 129-207).                    *)
THEOREM ExitCodes == Spec => ExitTells
  <1>1. IInv /\ [Next]_vars =>
          [\A u \in Updaters :
             /\ Ends(u, "apply", 0) =>
                  active' = want[u] /\ state'.phase = "awaiting-confirm"
             /\ Ends(u, "apply", 2) => active' = accepted' /\ state' = NoState
             /\ Ends(u, "apply", 3) \/ Ends(u, "rollback", 0)
                  => active' = accepted' /\ state' = NoState]_vars
    BY EndStep DEF Told
  <1> QED
    BY Invariance, <1>1, PTL DEF Spec, ExitTells

(* Exit 4 is never a false alarm (update-package.sh 120-123, 200-203).     *)
THEOREM NoFalseAlarm == Spec => RefusalJustified
  <1>1. IInv /\ [Next]_vars =>
          [\A u \in Updaters :
             pc[u] = "restore" /\ pc'[u] = "idle" /\ code'[u] = 4
               => backup = Torn \/ active = accepted]_vars
    BY EndStep DEF Justified
  <1> QED
    BY Invariance, <1>1, PTL DEF Spec, RefusalJustified

---------------------------------------------------------------------------
(* The refinement: only the swap offers a candidate, and only what ends an *)
(* update accepts or withdraws it.                                         *)
Candidate == IF active = accepted THEN NoFile ELSE active

LEMMA SlotStepOf ==
  ASSUME IInv, NEW u \in Updaters, Work(u)
  PROVE  Slot!Next \/ UNCHANGED <<accepted, Candidate>>
  <1>1. TypeOK /\ FileInv /\ StepInv(u)
    BY DEF IInv
  <1> USE <1>1, PackageAssumption
      DEF PackageAssumption, TypeOK, FileInv, StepInv, States, Phase, NoState,
          Intact, kept, files, rest, Candidate
  <1>2. CASE Locks(u)
    <2>1. CASE MakeLock(u)
      BY <2>1 DEF MakeLock, Step
    <2>2. CASE LockTaken(u)
      BY <2>2 DEF LockTaken, Step
    <2>3. CASE ReadHolder(u)
      BY <2>3 DEF ReadHolder
    <2>4. CASE LockHeld(u)
      BY <2>4 DEF LockHeld, Refuse, Exit, Die
    <2>5. CASE LockStale(u)
      BY <2>5 DEF LockStale, Step
    <2>6. CASE ReclaimLock(u)
      BY <2>6 DEF ReclaimLock, Step
    <2>7. CASE RemakeLock(u)
      BY <2>7 DEF RemakeLock, Step, Refuse, Exit, Die
    <2>8. CASE WritePid(u)
      BY <2>8 DEF WritePid, Step
    <2> QED
      BY <1>2, <2>1, <2>2, <2>3, <2>4, <2>5, <2>6, <2>7, <2>8 DEF Locks
  <1>3. CASE Apply(u)
    <2>1. CASE Stage(u)
      BY <2>1 DEF Stage, Step
    <2>2. CASE Verified(u)
      BY <2>2 DEF Verified, Step
    <2>3. CASE Rejected(u)
      BY <2>3 DEF Rejected, Exit, Die
    <2>4. CASE BeginInstall(u)
      BY <2>4 DEF BeginInstall, Step
    <2>5. CASE LinkBackup(u)
      BY <2>5 DEF LinkBackup, Step
    <2>6. CASE CopyBackup(u)
      BY <2>6 DEF CopyBackup, Step, Refuse, Exit, Die
    <2>7. CASE RecordSum(u)
      BY <2>7 DEF RecordSum, Step
    <2>8. CASE BeginCutover(u)
      BY <2>8 DEF BeginCutover, Step
    <2>9. CASE Swap(u)
      BY <2>9 DEF Swap, Step, Slot!Next, Slot!Offer
    <2>10. CASE AwaitConfirm(u)
      BY <2>10 DEF AwaitConfirm, Exit, Die
    <2>11. CASE DeployFails(u)
      BY <2>11 DEF DeployFails, Step
    <2> QED
      BY <1>3, <2>1, <2>2, <2>3, <2>4, <2>5, <2>6, <2>7, <2>8, <2>9, <2>10, <2>11 DEF Apply
  <1>4. CASE Restore(u)
    <2>1. CASE UndoInstall(u)
      BY <2>1 DEF UndoInstall, Step, Slot!Next, Slot!Withdraw
    <2>2. CASE BackupUnusable(u)
      BY <2>2 DEF BackupUnusable, Refuse, Exit, Die
    <2>3. CASE RestoreBackup(u)
      BY <2>3 DEF RestoreBackup, Step, Slot!Next, Slot!Withdraw
    <2>4. CASE DropBackup(u)
      BY <2>4 DEF DropBackup, Step, Slot!Next, Slot!Accept
    <2>5. CASE ClearSum(u)
      BY <2>5 DEF ClearSum, Step
    <2>6. CASE Finish(u)
      BY <2>6 DEF Finish, Exit, Die, Slot!Next, Slot!Accept
    <2> QED
      BY <1>4, <2>1, <2>2, <2>3, <2>4, <2>5, <2>6 DEF Restore
  <1>5. CASE Blocked(u)
    BY <1>5 DEF Blocked, Refuse, Exit, Die
  <1>6. CASE Proceed(u)
    BY <1>6 DEF Proceed, Step
  <1> QED
    BY <1>2, <1>3, <1>4, <1>5, <1>6 DEF Work

LEMMA SlotStep ==
  IInv /\ [Next]_vars => [Slot!Next]_<<accepted, Candidate>>
  <1> SUFFICES ASSUME IInv, [Next]_vars
               PROVE  Slot!Next \/ UNCHANGED <<accepted, Candidate>>
    OBVIOUS
  <1>1. ASSUME NEW u \in Updaters, Work(u)
        PROVE  Slot!Next \/ UNCHANGED <<accepted, Candidate>>
    BY <1>1, SlotStepOf
  <1>2. CASE RecoverByHand
    BY <1>2 DEF IInv, FileInv, RecoverByHand, rest, Candidate, Slot!Next, Slot!Withdraw
  <1>3. ASSUME UNCHANGED <<active, accepted>>
        PROVE  UNCHANGED <<accepted, Candidate>>
    BY <1>3 DEF Candidate
  <1>4. ASSUME NEW u \in Updaters, Stopped(u)
        PROVE  UNCHANGED <<active, accepted>>
    BY <1>4 DEF Stopped, files
  <1>5. ASSUME NEW u \in Updaters, NEW c \in Commands, NEW p \in Packages,
               Start(u, c, p)
        PROVE  UNCHANGED <<active, accepted>>
    BY <1>5 DEF Start, files, rest
  <1>6. CASE Rot \/ RemoveLock \/ UNCHANGED vars
    BY <1>3, <1>6 DEF Rot, RemoveLock, vars, files, rest
  <1> QED
    BY <1>1, <1>2, <1>3, <1>4, <1>5, <1>6 DEF Next

(* The script, killed anywhere and started again, implements the abstract  *)
(* slot: a package takes the active name only once verified, and leaves it *)
(* to the accepted one or as the accepted one (docs/airgap.md 459-481).    *)
THEOREM Refinement == Spec => ImplementsSlot
  <1>1. Init => accepted \in Good \cup {NoFile} /\ Candidate = NoFile
    BY DEF Init, Candidate
  <1>2. IInv /\ [Next]_vars => [Slot!Next]_<<accepted, Candidate>>
    BY SlotStep
  <1> QED
    BY Invariance, <1>1, <1>2, PTL DEF Spec, ImplementsSlot, Slot!Spec, Slot!Init, Candidate
=============================================================================
