\* Callers do whatever the API lets them do.
CONSTANTS
    MAX_PROC_NUM = 4
    Priorities <- MCPriorities
    Targets <- MCTargets
    CountGarbage <- SomeGarbage
    Careful = FALSE
    MaxEntries = 3
SPECIFICATION Spec
INVARIANTS
    TableConsistent
    IdleFallback
    CountCovers
PROPERTY DeadNotQueuedAgain
\* The model stops at the first undefined operation.
CHECK_DEADLOCK FALSE
