SPECIFICATION Spec
CONSTANTS
  Starters = {"a", "b"}
  MaxBytes = 1
  MaxStarts = 2
  MaxPackets = 1
  MaxFaults = 1
PROPERTIES PacketsArrive 
CHECK_DEADLOCK FALSE
