SPECIFICATION FairSpec
CONSTANTS
  c1 = c1
  d1 = d1
  Chats = {c1, d1}
  Direct = {d1}
  NoChat = NoChat
  MaxSaved = 1
  MaxFlows = 1
INVARIANTS MotionCalibrated StatusJustified
PROPERTIES AnsweredUnlessCut FinishEnds
CHECK_DEADLOCK FALSE
