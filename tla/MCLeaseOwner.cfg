CONSTANTS
  Procs = {p1, p2}
  NoProc = NoProc
  Ids = {1, 2, 3, 4, 5}
  TTL = 12
  StaleAfter = 2
  Interval = 4
  Margin = 3
  RetryFloor = 1
  MaxNow = 26
  Faults = {"crash", "io", "unlock", "unreadable"}
  MaxFaults = 2
SPECIFICATION OwnerSpec
SYMMETRY Symmetric
INVARIANTS HolderExclusive SelfFenced FencedInTime
PROPERTY TakeoverOnlyExpired
CHECK_DEADLOCK FALSE
