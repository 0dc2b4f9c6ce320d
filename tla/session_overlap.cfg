SPECIFICATION FairSpec
CONSTANTS
  s1 = s1
  s2 = s2
  t1 = t1
  t2 = t2
  k1 = k1
  k2 = k2
  Sessions = {s1, s2}
  Direct = {}
  Turns = {t1}
  Tasks = {k1, k2}
  Nobody = Nobody
  Window = 2
  MaxMsgs = 2
  MaxTotal <- Lengths
  MaxFacts = 2
  MaxNew = 1
  MaxCrashes = 1
INVARIANTS OffsetWithin NoDoubleSummary
PROPERTIES MemoryKept NewAnswered
CHECK_DEADLOCK FALSE
