CONSTANTS
    s1 = s1
    s2 = s2
    Session = {s1, s2}
    Caller = {s1}
    MaxCalls = 2
    MaxData = 3
    MaxQueue = 1
    MaxFaults = 1
SPECIFICATION BridgeSpec
CHECK_DEADLOCK FALSE
PROPERTIES
    AnswersMatchCalls
    NoGapWhileSubscribed
