CONSTANTS
  c1 = c1
  c2 = c2
  p1 = p1
  Conns <- MCConns
  Ports <- MCPorts
  HeadUnits = 1
  BodyUnits = 0
  MaxUnits = 2
  MaxReloads = 1
SPECIFICATION Spec
SYMMETRY ConnSymmetry
INVARIANTS
  TypeOK
  ShutdownReachesIdle
  IdleOwnsSocket
  AtMostOneLateRequest
  ActiveCount
PROPERTIES
  CleanExitCutsNobody
  InFlightNotShut
