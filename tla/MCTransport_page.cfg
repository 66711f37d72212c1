CONSTANTS
    Methods = {"ws", "sse", "lp"}
    MaxMessages = 2
    MaxFaults = 1
    MaxVisits = 2
    MaxGets = 3
SPECIFICATION FairSpec
CHECK_DEADLOCK FALSE
INVARIANTS
    HandledOnceInOrder
    StreamsExcludeEachOther
PROPERTIES
    PageRecovers
    QueuedMessagesAreSent
