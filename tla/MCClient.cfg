SPECIFICATION FairSpec
CONSTANTS
  WorkSize = 5
  OutgoingSize = 4
  IncomingSize = 3
  LoopbackInterval = 1
  AliveInterval = 2
  ConnectInterval = 3
INVARIANTS CInv LedAgrees
PROPERTIES StrandedForGood KeepsSending
