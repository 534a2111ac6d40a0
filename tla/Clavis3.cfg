SPECIFICATION Spec
CONSTANTS
  MaxKeys = 2
  MaxCalls = 2
  MaxStarts = 2
  MaxFaults = 1
INVARIANTS TypeOK ReleasedInStep
PROPERTIES KeysAreReleased
CHECK_DEADLOCK FALSE
