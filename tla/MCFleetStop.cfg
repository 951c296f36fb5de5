CONSTANTS
    u1 = u1
    u2 = u2
    Units = {u1, u2}
    NoUnit = NoUnit
    MaxParallel = 1
    Mixes <- StopMixes
SPECIFICATION LiveSpec
CHECK_DEADLOCK FALSE
PROPERTIES
    StoppedIsReaped
