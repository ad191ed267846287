SPECIFICATION FairSpec
CONSTANTS
  Starts = {s1, s2, s3}
  Tick = tick
  None = none
CHECK_DEADLOCK FALSE
INVARIANTS
  NothingArmedAfterRelease
  GateIsKept
PROPERTIES
  EveryStartSettles
