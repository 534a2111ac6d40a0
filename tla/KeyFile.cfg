SPECIFICATION Spec
CONSTANTS
  RecordSize = 2
  MaxBytes = 6
INVARIANTS EachRecordOnce
CHECK_DEADLOCK FALSE
