CONSTANTS
    r1 = r1
    r2 = r2
    r3 = r3
    Request = {r1, r2, r3}
    MaxVersion = 3
SPECIFICATION CacheFairSpec
CHECK_DEADLOCK FALSE
INVARIANTS
    CacheFollowsDocument
    AnswersAreCurrent
PROPERTIES
    EveryRequestIsAnswered
