SPECIFICATION Spec
CONSTANTS
  Chats = {c1, c2}
  NoChat = NoChat
  Direct = {c2}
  MaxRuns = 2
INVARIANTS
  DriverStoppable
  StoppedMeansOver
  StatusJustified
PROPERTIES
  StopEnds
