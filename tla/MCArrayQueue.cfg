SPECIFICATION Spec
CONSTANTS
  Threads = {t1, t2, t3}
  Values = {a, b}
  Capacity = 2
  NoValue = NoValue
  IndexBound = 5
INVARIANTS IInv NoDataRace
PROPERTIES JustifiedFailure ImplementsFifo
SYMMETRY Symmetry
