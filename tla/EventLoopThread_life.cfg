\* The owner destroys the object while loop() runs, or after a loop that quits itself has ended.
CONSTANTS
    loop = loop
    owner = owner
    f1 = f1
    f2 = f2
    Threads = {loop, owner}
    LoopThread = loop
    Owner = owner
    Functors = {f1, f2}
    NoFunctor = NoFunctor
    Channels = {c1}
    WakeChnnel = WakeChnnel
    WakeMax = 2
    OwnerSyncs = TRUE
SPECIFICATION ThreadSpec
INVARIANTS OwnerFindsLoop ThreadGoneAfterDestructor
PROPERTIES StartLoopReturns DestructorReturns
