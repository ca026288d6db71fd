SPECIFICATION FairSpec
CONSTANTS
  LoopbackInterval = 2
  ConnectInterval = 6
  MaxTransit = 1
  MaxFaults = 3
INVARIANTS TypeOK Noticed
PROPERTIES Reachable
