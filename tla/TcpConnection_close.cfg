\* Nothing but the peer ends the connection.
CONSTANTS
    u1 = u1
    u2 = u2
    OffThreads = {}
    Programs <- SendOnly
    ServerDies = FALSE
    CallbacksSet = FALSE
    HighWater = 2
    MaxSend = 1
    MaxBytes = 1
    MaxQueue = 2
SPECIFICATION Spec
PROPERTY CloseAssertion
