SPECIFICATION FairSpec
CONSTANTS
    side = side
    pad = pad
    Control = {side, pad}
    Buttons = {pad}
    Knobs = {}
    MaxLayer = 1
    HoldThreshold = 3
    DoublePressWindow = 2
    Config <- TwoProfiles
    InitialConfig <- DoubleOnPad
    LearnTimeout = 2
    LearnAllowed = TRUE
    DropOldest = FALSE
    Unplugs = FALSE
    InboxSize = 2
    InputUntil = 2
    MaxTime = 5
CHECK_DEADLOCK FALSE
PROPERTIES
    DeferredPressEnds
    LongPressHolds
    LearnEnds
