SPECIFICATION LiveSpec
CONSTANTS
  d = d
  Dispatchers = {d}
  NumTriggers = 1
  Types = {"a"}
  Listens <- AllListen
  MaxHop = 0
  Batch = 1
  MaxEvents = 3
  MaxPublished = 1
  MaxDay = 2
  Faults = {"midnight", "crash", "claim", "finish", "cursor", "interrupt", "slow", "suspend", "stray"}
  MaxFaults = 1
INVARIANT FiresOnce
INVARIANT HopBudget
INVARIANT NothingSkipped
PROPERTY OutcomeFinal
PROPERTY EventuallySettled
CHECK_DEADLOCK FALSE
