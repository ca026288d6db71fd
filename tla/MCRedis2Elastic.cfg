SPECIFICATION FairSpec
CONSTANTS
  Capacity = 2
  MaxRecords = 2
  MaxValues = 1
  MaxFaults = 2
INVARIANTS EInv InOrder
PROPERTIES LogsRecover AwaitedIsIndexed
CHECK_DEADLOCK FALSE
