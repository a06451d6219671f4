CONSTANTS
  NPeers = 3
  Weight <- MCWeight
  MaxFails = 2
  Keepalive = 0
SPECIFICATION Spec
INVARIANTS
  TypeOK
  WeightsBalanced
  NoDrift
PROPERTIES
  DownIsEarned
  NoStarvation
