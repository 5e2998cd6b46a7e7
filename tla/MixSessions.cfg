SPECIFICATION Spec
CONSTANTS
    music = music
    voice = voice
    game = game
    music1 = music1
    music2 = music2
    voice1 = voice1
    duckVoice = duckVoice
    duckGame = duckGame
    Ref = {music1, music2, voice1}
    App = {music, voice, game}
    AppOf <- Owners
    Soloed = {music, voice}
    Control = {duckVoice, duckGame}
    DuckTarget <- Targets
    DuckPercent <- Depths
    MaxPercent = 2
    Present = {music1, voice1}
    Fails = TRUE
    MaxOutside = 1
CONSTRAINT OneKind
CHECK_DEADLOCK FALSE
INVARIANTS
    TypeOK
    SoloRestores
    DuckRestores
