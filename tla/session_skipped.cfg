SPECIFICATION Spec
CONSTANTS
  s1 = s1
  s2 = s2
  t1 = t1
  t2 = t2
  k1 = k1
  k2 = k2
  Sessions = {s1}
  Direct = {}
  Turns = {t1, t2}
  Tasks = {k1}
  Nobody = Nobody
  Window = 2
  MaxMsgs = 2
  MaxTotal <- Lengths
  MaxFacts = 0
  MaxNew = 0
  MaxCrashes = 0
INVARIANT OffsetSummarised
CHECK_DEADLOCK FALSE
