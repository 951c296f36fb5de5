CONSTANTS
    Sessions = {s}
    Turns = {t1, t2}
    Viewers = {v1, v2}
    NoTurn = NoTurn
    JournalSize = 2
    MaxEvents = 3
SPECIFICATION LiveSpec
CHECK_DEADLOCK FALSE
INVARIANTS
    Findable
    StreamExact
PROPERTIES
    SparesWatched
    UnwatchedEnds
    FinishedReaped
    Unblocks
