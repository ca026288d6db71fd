SPECIFICATION FairFlow
CONSTANTS
  Threads = {loop, p1, p2}
  Loop = loop
  Values = {v}
  Capacity = 2
  NoValue = NoValue
  IndexBound = 6
  PipeCapacity = 1
INVARIANTS FlowIInv
PROPERTIES Delivered
CHECK_DEADLOCK FALSE
