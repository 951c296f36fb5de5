SPECIFICATION FairSpec
CONSTANTS
  Threads = {"w1", "w2"}
  Mixes <- MCMixes
  Outcomes = {"landed", "stuck"}
  Insts = {"i1", "i2"}
  Texts = {"a", "b"}
  Floor = 1
  LongWindow = 2
  CasAttempts = 2
  MaxNow = 3
  MaxStamp = 2
INVARIANT AckedOutcomeStands
INVARIANT RevisionsCounted
INVARIANT ToldOnceAndTruly
PROPERTY TerminalStays
PROPERTY CompletedKept
PROPERTY ReclaimedWasSilent
PROPERTY SilentIsReclaimed
CHECK_DEADLOCK FALSE
