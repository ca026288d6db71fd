SPECIFICATION FairSpec
CONSTANTS
  Fds = {f1, f2, f3}
  None = None
  Patterns = {p1, p2}
  Node = node
  MaxMessages = 3
  MaxCrashes = 2
  MaxPartials = 2
INVARIANTS ContextsValid NoLeak InOrder SubscriptionsKnown
PROPERTIES Recovers
CHECK_DEADLOCK FALSE
