SPECIFICATION SweptSpec
CONSTANTS
  c = c
  h = h
  r = r
  Procs = {h, r}
  Host = h
  Hooked = {h, r}
  CardSays = {}
  MaxFaults = 1
INVARIANT RemoteVerdictObeyed
PROPERTY AnsweredIsResumed
CHECK_DEADLOCK FALSE
