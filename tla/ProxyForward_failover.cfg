CONSTANTS
  s1 = s1
  s2 = s2
  k1 = k1
  k2 = k2
  k3 = k3
  None = None
  NPeers = 2
  Weight <- MCWeight
  MaxFails = 1
  Keepalive = 1
  Sessions <- MCOneSession
  Conns <- MCTwoConns
  Methods = {"HEAD", "POST"}
  MaxTurns = 2
SPECIFICATION Spec
PROPERTIES
  RequestEnds
