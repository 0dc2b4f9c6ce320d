SPECIFICATION Spec
CONSTANTS
  Order <- MCOrder
  MaxCalls = 2
  MaxFaults = 2
  MaxRuns = 1
INVARIANTS
  MovedAsCalibrated
  PortGivenBack
  SavedSound
PROPERTIES
  CallsEnd
CHECK_DEADLOCK FALSE
