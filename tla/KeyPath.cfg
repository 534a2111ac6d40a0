SPECIFICATION Spec
CONSTANTS
  Calls = {r1, r2}
  Routes <- MCRoutes
  MaxKeys = 2
  MaxDirect = 1
  MaxLost = 1
INVARIANTS TypeOK   
PROPERTIES EveryCallReturns
CHECK_DEADLOCK FALSE
