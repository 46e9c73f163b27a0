CONSTANTS
    BlockSize = 16
    HeaderSize = 2
    MinChunkSize = 1
    Requests <- MCRequests
    Threads <- OneThread
SPECIFICATION Spec
INVARIANTS
    BlockConsistent
    AllocationsDisjoint
    OnlyLastLinkStrays
\* The model stops at the first access outside the headers.
CHECK_DEADLOCK FALSE
