SPECIFICATION FairSpec
CONSTANTS
  Capacity = 2
  MaxRecords = 2
  MaxValues = 1
  MaxFaults = 0
PROPERTY LogsGoOn
CHECK_DEADLOCK FALSE
