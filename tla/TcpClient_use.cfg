\* Up to two calls of connect(), every other call at any time, from the loop thread or from another.
CONSTANTS
    c1 = c1
    c2 = c2
    Conns = {c1, c2}
    NoConn = NoConn
    InitDelay = 1
    MaxDelay = 3
    MaxConnects = 2
    MaxQueue = 3
SPECIFICATION FairSpec
INVARIANTS CarefulUseIsSafe OneAttempt StoppedStaysStopped
PROPERTY ClientConnects
