SPECIFICATION Spec
CONSTANTS
    Byte = {0, 1}
    Zero = 0
    InitialSize = 2
    CheapPrepend = 2
    ExtraSize = 2
    MaxData = 3
    MaxReadable = 4
INVARIANTS
    ReadableIsQueue
    HeaderRoom
    MemoryBounded
