SPECIFICATION Spec
CONSTANTS
  Starters = {"a"}
  MaxBytes = 2
  MaxStarts = 2
  MaxPackets = 3
  MaxFaults = 1
INVARIANTS TypeOK PacketsInOrder  EachKeyIsThere
CHECK_DEADLOCK FALSE
