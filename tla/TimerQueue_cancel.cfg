\* Timers are added and cancelled on the loop thread and by another thread; time goes on and the loop is fair.
CONSTANTS
    a1 = a1
    a2 = a2
    u1 = u1
    Addrs = {a1, a2}
    OffAdders = {u1}
    OffCancel = TRUE
    Intervals = {0, 1}
    MaxDelay = 1
    MaxSeq = 2
    MaxTime = 2
    MaxQueue = 1
SPECIFICATION FairSpec
INVARIANTS SetsAgree TimersOwnedOnce TimerFdArmed CancelledStaysCancelled CancelHitsItsTimer
PROPERTY TimerRuns
