CONSTANTS
    Width <- MCWidth
    Height <- MCHeight
    Modulus = 4
    Scenes <- MCScenes
    Settings <- MCSettings
    SearchRadius = 5
    SearchMissesThreshold = 2
    MaxVectors = 2
    MaxThreads = 2
    MaxFrames = 3
SPECIFICATION Spec
INVARIANTS
    FoundOperationsAreRight
    OperationsRebuildPicture
    DrawnOnce
    SearchGivesUp
