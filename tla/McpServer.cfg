\* Calls that connect, start and join runs, wait, leave; shutdown at any time.
SPECIFICATION FairSpec
CONSTANTS
    c1 = c1
    c2 = c2
    c3 = c3
    Calls <- TwoCalls
    MaxConnects = 2
    MaxRuns = 2
    MaxDecisions = 1
INVARIANTS
    OneDriver
    EndedIsTrue
    PoolClosed
PROPERTIES
    ConnectionSpec
    NobodyHangs
CHECK_DEADLOCK FALSE
