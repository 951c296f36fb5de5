SPECIFICATION LiveSpec
CONSTANTS
  Turns = {t1, t2}
  Backends = {b1, b2}
  NoBackend = none
  Flaky = {b1}
  Traffics <- MCTraffics
  Threshold = 2
  Cooldown = 1
INVARIANTS ServedWhileOneWorks
PROPERTY Recovers
