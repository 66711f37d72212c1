\* Two handlers in two connection threads use one session.
CONSTANTS
    s1 = s1
    u1 = u1
    u2 = u2
    NULL = NULL
    Session = {s1}
    User = {u1, u2}
    ThreadOf <- OwnThread
    MaxPosted = 2
    MaxTesting = 1
    Reused = FALSE
SPECIFICATION FairSpec
CHECK_DEADLOCK FALSE
INVARIANTS
    UseCountBalance
    AttachmentFollowsUse
PROPERTIES
    ExpirySparesCountedHolders
    GraceProtectsLookup
    UnusedSessionsAreDisposed
