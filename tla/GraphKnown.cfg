SPECIFICATION FairSpec
CONSTANTS
    a = a
    speakers = speakers
    phones = phones
    Ref = {a}
    NoDevice = none
    Device = {speakers, phones}
    Invocations = {}
    QueueDepth = 1
    MaxEnqueued = 0
    HandoffDepth = 1
    FeedDepth = 1
    SubDepth = 1
    Cancels = TRUE
    MaxChanges = 2
    MaxLosses = 1
CHECK_DEADLOCK FALSE
INVARIANT
    TypeOK
    KnowsTheGraph
PROPERTY
    Exits
