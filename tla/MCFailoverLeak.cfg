SPECIFICATION LiveSpec
CONSTANTS
  Turns = {t1, t2}
  Backends = {b1}
  NoBackend = none
  Flaky = {b1}
  Traffics <- LimitedChats
  Threshold = 2
  Cooldown = 1
PROPERTY WindowEnds
