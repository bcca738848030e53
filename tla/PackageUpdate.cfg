SPECIFICATION Spec
CONSTANTS
  u1 = u1
  u2 = u2
  p = p
  q = q
  bad = bad
  NoFile = NoFile
  Torn = Torn
  NoLock = NoLock
  NoPid = NoPid
  DeadPid = DeadPid
  Updaters <- TwoUpdaters
  Packages <- AllPackages
  Good <- Sound
  MaxFaults = 2
INVARIANTS
  TypeOK
  OneUpdater
  AcceptedKept
PROPERTIES
  ImplementsSlot
  ExitTells
  RefusalJustified
\* A command waits to remove a stale lock while another one does: the script
\* asks for one update at a time.
CHECK_DEADLOCK FALSE
