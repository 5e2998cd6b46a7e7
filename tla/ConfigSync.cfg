SPECIFICATION Spec
CONSTANTS
    music = music
    voice = voice
    Nothing = Nothing
    Torn = Torn
    reload = reload
    Reload = {reload}
    Asked = Asked
    QueueDepth = 1
    Target = {music, voice}
    MaxEdits = 2
    MaxStops = 1
SYMMETRY Symmetry
CONSTRAINT ClientOrCallers
CHECK_DEADLOCK FALSE
INVARIANTS
    TypeOK
    InSync
    StaleIsTold
PROPERTY
    HandlersKeepEdits
