CONSTANTS
    Keys <- MCKeys
    Vals <- MCVals
    StartSize = 1
    MaxCount = 4
    Junk <- MCJunk
SPECIFICATION Spec
INVARIANTS
    HeapSound
    DebugCheckAccepts
PROPERTY RefinesBagQueue
