SPECIFICATION Spec
CONSTANTS
  Messages <- MCMessages
  Devices = {"arm", "other_device"}
  Controllers = {"arm"}
  Recipe = TRUE
  HandMade <- MCHandMade
  HostChanges = {"plug", "ros2", "calibrate"}
  Mishaps = 1
  Chatter = 2
INVARIANTS ReadyFacts ReadyLoads InstallInOrder
PROPERTY HandedOff
CHECK_DEADLOCK FALSE
