CONSTANTS
    MAX_PROC_NUM = 5
    Priorities <- TwoLevels
    Targets <- SomeThreads
    CountGarbage <- NoGarbage
    Careful = TRUE
    MaxEntries = 5
SPECIFICATION FiniteThreadsSpec
INVARIANT ReadyListIsHeap
PROPERTIES
    RefinesScheduler
    SpawnedGetTheirTurn
