\* Callers keep the contract.
CONSTANTS
    MAX_PROC_NUM = 4
    Priorities <- MCPriorities
    Targets <- MCTargets
    CountGarbage <- SomeGarbage
    Careful = TRUE
    MaxEntries = 5
SPECIFICATION FairSpec
INVARIANT ContractSafe
PROPERTIES
    DeadStaysDead
    SuspendedYields
    TopPreempts
\* With a counter that started wrong the model stops at an empty heap.
CHECK_DEADLOCK FALSE
