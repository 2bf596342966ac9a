\* One sender on the loop thread; reading, shutdown and close are controlled from everywhere, and the server may go first.
CONSTANTS
    u1 = u1
    u2 = u2
    OffThreads = {u1}
    Programs <- BothSides
    ServerDies = TRUE
    CallbacksSet = FALSE
    HighWater = 2
    MaxSend = 2
    MaxBytes = 2
    MaxQueue = 2
SPECIFICATION Spec
INVARIANT SentInOrder
