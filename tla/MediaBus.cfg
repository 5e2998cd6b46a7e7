SPECIFICATION MediaSpec
CONSTANTS
    Players = 2
    EventsSize = 1
    MaxChanges = 3
    IgnoreLists <- FirstOrNone
    Fails = TRUE
CHECK_DEADLOCK FALSE
INVARIANTS
    KnowsThePlayers
    MostRecentWins
