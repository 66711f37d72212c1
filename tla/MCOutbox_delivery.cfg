CONSTANTS
    h1 = h1
    h3 = h3
    Handler = {h1, h3}
    NoHandler = NoHandler
    Polling = {h1}
    MaxMessages = 2
    MaxTimeouts = 1
    MaxDormant = 1
SPECIFICATION FairSpec
CHECK_DEADLOCK FALSE
INVARIANTS
    NoLostWakeup
PROPERTIES
    ImplementsChannel
    EveryMessageIsDelivered
