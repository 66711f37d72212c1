CONSTANTS
    Target = {a}
    Display = {d1, d2}
    Reader = {r1, r2}
    NULL = NULL
SPECIFICATION FairSpec
CHECK_DEADLOCK FALSE
INVARIANTS
    RegistryAgrees
    PatienceProtectsPatch
    KeepAliveProtectsDisplay
PROPERTY UnusedDisplaysAreRemoved
