SPECIFICATION Spec
CONSTANTS
    side = side
    pad = pad
    Control = {side, pad}
    Buttons = {side, pad}
    Knobs = {pad}
    MaxLayer = 1
    HoldThreshold = 2
    DoublePressWindow = 1
    Config <- TwoProfiles
    InitialConfig <- DoubleOnPad
    LearnTimeout = 1
    LearnAllowed = TRUE
    DropOldest = TRUE
    Unplugs = TRUE
    InboxSize = 1
    InputUntil = 2
    MaxTime = 4
CHECK_DEADLOCK FALSE
INVARIANTS
    TypeOK
    MapsAgree
    LearnIsQuiet
    TimerWorks
    HeldOnce
    PinnedLayer
PROPERTY
    InTimePressKept
