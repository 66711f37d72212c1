CONSTANTS
    u1 = u1
    u2 = u2
    Upload = {u1, u2}
    Sizes <- MCSizes
    Space <- MCSpace
    Long = {2}
    Colon = {2}
    MaxChunks <- MCMaxChunks
    MaxClock = 2
SPECIFICATION UploadSpec
CHECK_DEADLOCK FALSE
INVARIANTS
    PartsAreRight
    FilesAreOwn
