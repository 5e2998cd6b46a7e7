SPECIFICATION FairSpec
CONSTANTS
    ui = ui
    Client = {ui}
    QueueDepth = 1
    MaxChanges = 2
    MaxConnects = 2
CHECK_DEADLOCK FALSE
INVARIANT
    NoEventDropped
PROPERTY
    ClientsCatchUp
