SPECIFICATION Spec
CONSTANTS
  c1 = c1
  c2 = c2
  u1 = u1
  u2 = u2
  u3 = u3
  NoIo = NoIo
  Conns = {c1}
  Ups = {u1, u2}
  Streams <- Pairs
  ProxyPort = 1
  MaxResponses = 1
  ConnectFailsAtOnce = FALSE
  HeadWriteMayFail = FALSE
CHECK_DEADLOCK FALSE
INVARIANTS
  NoUpstreamOutlivesItsClient
