\* One session, which may be ended at either device.
SPECIFICATION Spec
CONSTANTS
  Initiators = {"alice", "bob"}
  FrameLimits = {0, 1}
  NoReport = NoReport
  MaxPulses = 2
  MaxSessions = 1
  MaxLost = 1
PROPERTIES FramesAreSifted ReceiverStops
CHECK_DEADLOCK FALSE
