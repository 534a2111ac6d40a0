\* No call is lost and the transmitter has no limit.
SPECIFICATION Spec
CONSTANTS
  Initiators = {"alice", "bob"}
  FrameLimits = {0}
  NoReport = NoReport
  MaxPulses = 2
  MaxSessions = 1
  MaxLost = 0
PROPERTIES EndSessionReturns
CHECK_DEADLOCK FALSE
