CONSTANTS
    c1 = c1
    c2 = c2
    t1 = t1
    t2 = t2
    s1 = s1
    Conn = {c1, c2}
    Thread = {t1, t2}
    Viewer = {s1}
    MaxStarts = 1
SPECIFICATION FairSpec
CHECK_DEADLOCK FALSE
INVARIANTS
    ConnectionsDoNotBlock
    NothingSurvivesServer
PROPERTIES
    ShutdownCompletes
