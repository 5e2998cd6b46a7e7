SPECIFICATION Spec
CONSTANTS
    side = side
    pad = pad
    Control = {side, pad}
    Buttons = {side, pad}
    Knobs = {}
    MaxLayer = 1
    HoldThreshold = 3
    DoublePressWindow = 2
    Config <- OnlyDuck
    InitialConfig <- DuckOnLayer1
    LearnTimeout = 2
    LearnAllowed = FALSE
    DropOldest = FALSE
    Unplugs = FALSE
    InboxSize = 2
    InputUntil = 4
    MaxTime = 7
CHECK_DEADLOCK FALSE
INVARIANTS
    RestsOnLatchedLayer
    DuckEnds
