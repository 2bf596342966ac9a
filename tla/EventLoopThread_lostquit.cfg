\* The owner may destroy the object as soon as startLoop() has returned.
CONSTANTS
    loop = loop
    owner = owner
    f1 = f1
    f2 = f2
    Threads = {loop, owner}
    LoopThread = loop
    Owner = owner
    Functors = {f1}
    NoFunctor = NoFunctor
    Channels = {}
    WakeChnnel = WakeChnnel
    WakeMax = 2
    OwnerSyncs = FALSE
SPECIFICATION ThreadSpec
PROPERTY DestructorReturns
