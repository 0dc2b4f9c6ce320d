SPECIFICATION Spec
CONSTANTS
  c1 = c1
  d1 = d1
  Chats = {c1}
  Direct = {}
  NoChat = NoChat
  MaxSaved = 2
  MaxFlows = 1
INVARIANT MotionCurrent
CHECK_DEADLOCK FALSE
