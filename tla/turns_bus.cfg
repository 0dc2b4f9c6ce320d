SPECIFICATION FairSpec
CONSTANTS
  c1 = c1
  c2 = c2
  Chats = {c1, c2}
  Cli = {c2}
  Threads = {th1}
  ThreadOf <- MCThreadOf
  NoChat = NoChat
  th1 = th1
  m1 = m1
  Msgs = {m1, m2}
  Source <- MCSource
  Subs = {s1}
  Directs = {d1}
  Target <- MCTarget
  Nobody = Nobody
  MaxSends = 1
INVARIANTS LockSerializes AnsweredUnlessMixed
PROPERTIES StopStops ServesInTurn AllServed
CHECK_DEADLOCK FALSE
