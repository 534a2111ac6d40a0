CONSTANTS
  N = 2
  MaxChanges = 4
  MaxStops = 1
  MaxLost = 1
SPECIFICATION LiveSpec
CHECK_DEADLOCK FALSE
INVARIANTS TypeOK  FlagsAreAsTold
PROPERTIES EveryCallReturns LinkComesUp
