SPECIFICATION Spec
CONSTANTS
    mine = mine
    yours = yours
    first = first
    second = second
    Account = {mine, yours}
    Flow = {first, second}
    MaxEdits = 1
    MaxLogouts = 1
    MaxLists = 1
    MaxExpiries = 1
    Job <- Jobs
    QueueDepth = 2
    MaxPercent = 2
    MaxJobs = 3
CONSTRAINT
    OneKind
CHECK_DEADLOCK FALSE
INVARIANT
    UsesOwnToken
    PortComesFree
PROPERTY
    LastVolumeIsSent
