SPECIFICATION DispatchSpec
CONSTANTS
    a = a
    b = b
    Ref = {a, b}
    Invocations <- Inputs
    QueueDepth = 3
    MaxEnqueued = 4
CHECK_DEADLOCK FALSE
PROPERTY
    ActsOneByOne
