\* One side at a time uses the connection, the loop thread or two senders; the peer does what it likes.
CONSTANTS
    u1 = u1
    u2 = u2
    OffThreads = {u1, u2}
    Programs <- OneSide
    ServerDies = FALSE
    CallbacksSet = TRUE
    HighWater = 2
    MaxSend = 2
    MaxBytes = 4
    MaxQueue = 3
SPECIFICATION FairSpec
INVARIANTS WritingWhileOutput ShutdownAfterOutput DestroyedWhenClosed RemovedOnce StreamIntact
PROPERTIES ShutdownCompletes PeerEndDestroys
