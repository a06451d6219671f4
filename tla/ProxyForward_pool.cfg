CONSTANTS
  s1 = s1
  s2 = s2
  k1 = k1
  k2 = k2
  k3 = k3
  None = None
  NPeers = 1
  Weight <- MCWeight
  MaxFails = 1
  Keepalive = 1
  Sessions <- MCTwoSessions
  Conns <- MCTwoConns
  Methods = {"GET", "POST"}
  MaxTurns = 2
SPECIFICATION Spec
SYMMETRY MCSymmetry
INVARIANTS
  TypeOK
  AtMostOnce
  OwnResponse
  PoolDetached
