\* Either device runs two sessions; two pulse trains are fired, without a limit
\* or one per session; one RPC is lost.
SPECIFICATION Spec
CONSTANTS
  Initiators = {"alice", "bob"}
  FrameLimits = {0, 1}
  NoReport = NoReport
  MaxPulses = 2
  MaxSessions = 2
  MaxLost = 1
INVARIANTS TypeOK InStep SiftedInOrder
CHECK_DEADLOCK FALSE
