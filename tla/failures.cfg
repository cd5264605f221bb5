SPECIFICATION FairSpec
CONSTANTS
  c1 = c1
  c2 = c2
  u1 = u1
  u2 = u2
  u3 = u3
  NoIo = NoIo
  Conns = {c1, c2}
  Ups = {u1, u2}
  Streams <- Shorts
  ProxyPort = 1
  MaxResponses = 1
  ConnectFailsAtOnce = TRUE
  HeadWriteMayFail = FALSE
CHECK_DEADLOCK FALSE
INVARIANTS
  ConnectParksClient
  ClosedInPairs
PROPERTIES
  EveryConnectionEnds
  KeepsPromise
