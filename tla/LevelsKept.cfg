SPECIFICATION Spec
CONSTANTS
    a = a
    b = b
    Ref = {a, b}
    MaxPercent = 2
    Initial <- HalfWay
    Ops = {"adjust", "set", "toggle", "apply"}
    Fails = TRUE
    FeedSize = 2
    MaxCalls = 2
    MaxOutside = 2
CONSTRAINT SharedAlone
SYMMETRY Symmetry
CHECK_DEADLOCK FALSE
INVARIANTS
    TypeOK
    Settles
    Heard
    TogglesAlike
PROPERTY
    DetentCounts
