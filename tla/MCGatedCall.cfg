SPECIFICATION Spec
CONSTANTS
  h = h
  r = r
  c = c
  Procs = {h, r, c}
  Host = h
  Hooked = {h, r}
  CardSays = {"allow", "deny"}
  MaxFaults = 1
INVARIANT OneDriver
INVARIANT ToolAtMostOnce
INVARIANT RunAtMostOnce
INVARIANT NoRunLost
PROPERTY ImplementsOwnership
CHECK_DEADLOCK FALSE
