CONSTANTS
    BlockSize = 16
    HeaderSize = 2
    MinChunkSize = 1
    Requests <- MCRequests
    Threads <- TwoThreads
SPECIFICATION Spec
INVARIANT AllocationsDisjoint
CHECK_DEADLOCK FALSE
