\* Two posting threads and the loop thread, functors that are posted for ever, an eventfd that is full at 2.
CONSTANTS
    loop = loop
    t1 = t1
    t2 = t2
    f1 = f1
    f2 = f2
    f3 = f3
    Threads = {loop, t1, t2}
    LoopThread = loop
    Functors = {f1, f2, f3}
    NoFunctor = NoFunctor
    Channels = {c1}
    WakeChnnel = WakeChnnel
    WakeMax = 2
SPECIFICATION FairSpec
INVARIANT NoLostWakeup
PROPERTIES FunctorsFIFO PostedFunctorStarts QuitEndsLoop FunctorsDoNotStarvePoll
