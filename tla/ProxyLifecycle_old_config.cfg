CONSTANTS
  c1 = c1
  p1 = p1
  Conns <- MCConns
  Ports <- MCPorts
  HeadUnits = 2
  BodyUnits = 1
  MaxUnits = 4
  MaxReloads = 2
SPECIFICATION HistorySpec
INVARIANT NoIdleOnOldConfig
