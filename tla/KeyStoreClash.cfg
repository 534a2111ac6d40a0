CONSTANTS
  a = a
  b = b
  d1 = d1
  k1 = k1
  k2 = k2
  k3 = k3
  k4 = k4
  Sites = {a, b}
  Peer <- MCPeer
  YieldingSite = b
  Initiators = {a, b}
  Clients = {c1}
  Devices = {d1}
  PSK = {k1, k2, k3, k4}
  Stream <- ThreeKeys
  EmptyPSK = EmptyPSK
  NoEntry = NoEntry
  ArchiveSites = {a, b}
  CacheThreshold = 1
  MaxId = 3
  MaxFailures = 1
  MaxRestarts = 0
SPECIFICATION LiveSpec
CHECK_DEADLOCK FALSE
INVARIANTS TypeOK OneHome  SameKeyAtBothEnds
PROPERTIES SharesKeys ReservationsAreFinal EveryCallReturns
