SPECIFICATION FairSpec
CONSTANTS
  Timers = {1, 2, 3}
  Repeating = {1, 2}
  Reset = {2, 3}
  Interval <- Intervals
  Fds = {f1}
  Horizon = 4
  Far = 6
  MaxBusy = 1
  MaxPipe = 2
  MaxSteps = 1
  Step = 2
INVARIANTS LInv
PROPERTIES TimersFire InputServed
