SPECIFICATION FairSpec
CONSTANTS
  a = a
  b = b
  c = c
  Jobs = {a, b, c}
  Keep = {b}
  NoJob = NoJob
  AtTime <- MCAtTime
  Every = 2
  MaxClock = 5
  MaxEdits = 3
  MaxExternal = 1
INVARIANTS TimerCovers DiskInSync OneShotUnlessDisturbed
PROPERTIES EverySpacing OneShotDone
CHECK_DEADLOCK FALSE
