CONSTANTS
  a = a
  b = b
  d1 = d1
  k1 = k1
  k2 = k2
  k3 = k3
  k4 = k4
  Sites = {a, b}
  Peer <- MCPeer
  YieldingSite = b
  Initiators = {a}
  Clients = {c1, c2}
  Devices = {d1}
  PSK = {k1, k2, k3, k4}
  Stream <- ThreeKeys
  EmptyPSK = EmptyPSK
  NoEntry = NoEntry
  ArchiveSites = {a, b}
  CacheThreshold = 1
  MaxId = 3
  MaxFailures = 1
  MaxRestarts = 1
SPECIFICATION Spec
CHECK_DEADLOCK FALSE
INVARIANTS OnePlacePerKey OneWayAllocation
PROPERTIES SharesKeys
