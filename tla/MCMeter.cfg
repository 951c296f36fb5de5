CONSTANTS
  Procs = {p1, p2}
  NoProc = NoProc
  Ids = {1, 2, 3, 4, 5}
  TTL = 1
  StaleAfter = 1
  MaxNow = 3
  Faults = {"crash", "io"}
  MaxFaults = 1
  Turns = {t1}
SPECIFICATION MeterLiveSpec
INVARIANTS OneWriter
PROPERTY RoleMoves
CHECK_DEADLOCK FALSE
