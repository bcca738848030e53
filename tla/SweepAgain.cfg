SPECIFICATION OFairSpec
CONSTANTS
  a = a
  Targets <- One
  Made <- Any
  Fallible <- AnyCall
  Locked <- Nothing
  MaxFaults = 2
INVARIANTS
  TypeOK
  OnlyUnreadMissed
  OnlyUndatedAccused
PROPERTIES
  SweepCleans
  SweepConverges
  SweepEnds
\* A sweep that left nothing is not started again.
CHECK_DEADLOCK FALSE
