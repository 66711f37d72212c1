CONSTANTS
    t1 = t1
    t2 = t2
    red = red
    cat = cat
    Tile = {t1, t2}
    Color = {red, cat}
    Solid = {red}
    Clear = Clear
    White = White
    Veil = Veil
    Inline = FALSE
    MaxFrames = 5
    MaxLateFrames = 2
    MaxChanges = 1
    MaxDisconnects = 1
    MaxFaults = 1
SPECIFICATION MCSpec
CHECK_DEADLOCK FALSE
INVARIANTS
    FrameRebuildsPicture
    PatchesOfOneFrame
    NoLostUpdate
PROPERTIES
    OneFrameAtATime
    Converges
