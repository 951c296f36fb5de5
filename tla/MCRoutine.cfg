SPECIFICATION RoutineSpec
CONSTANTS
  Callers = {c1, c2, c3}
  threshold = 2
  ResetTimeout = 1
  MaxClock = 4
INVARIANTS ClosedBelowThreshold
