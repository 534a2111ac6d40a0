SPECIFICATION Spec
CONSTANTS
  Ends = {"bob"}
  KeyBits = 2
  BlockBits = 3
  MaxBlocks = 3
  MaxCalls = 2
  MaxLost = 1
INVARIANTS TypeOK NoBitTwice
PROPERTIES FeedsOneStream KeysArrive
CHECK_DEADLOCK FALSE
