CONSTANTS
  c1 = c1
  c2 = c2
  p1 = p1
  Conns <- MCOneConn
  Ports <- MCPorts
  HeadUnits = 2
  BodyUnits = 1
  MaxUnits = 4
  MaxReloads = 2
SPECIFICATION TimedSpec
PROPERTIES
  ShutdownEnds
  StaleSessionsEnd
  KeepsPromise
