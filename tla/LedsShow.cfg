SPECIFICATION FairSpec
CONSTANTS
    ring = ring
    Control = {ring}
    Value = {"on", "off"}
    Off = "off"
    Interval = 1
    Flash = 2
    MaxUnplugs = 1
    MaxInputs = 2
CHECK_DEADLOCK FALSE
INVARIANTS
    TypeOK
    BeliefsHold
    PortsClosed
PROPERTIES
    Shows
    CloseEnds
