SPECIFICATION FairSpec
CONSTANTS
  QueueSize = 1
  Others = {other}
  MaxDowns = 1
  MaxArrivals = 2
  MaxCommands = 1
  MaxFlashes = 1
  MaxUnplugs = 1
INVARIANTS PInv BlocksOnlyAfterChange
PROPERTIES RoundsEnd NodeHeard CommandsDealt SessionReopens
CHECK_DEADLOCK FALSE
