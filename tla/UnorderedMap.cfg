CONSTANTS
    MaxNodes = 3
    Keys <- MCKeys
    Vals <- MCVals
    Elems <- MCElems
    Blank <- MCBlank
    Queues <- MCQueues
    Plain = 2
    bucket_count = 2
    hash_func <- MCHash
    MaxIndex = 2
SPECIFICATION FairSpec
INVARIANTS
    ListsConsistent
    CallsCorrect
    PointerStays
PROPERTY CallReturns
