\* Pages of half of 64 KiB: page 2 of a table is to these tables of 3 pages what
\* page 16 is to the tables of the kernel.
CONSTANTS
    NUM_OF_PDE = 3
    NUM_OF_PTE = 3
    PAGE_SIZE = 32768
    Counts <- OneToFour
SPECIFICATION FairSpec
INVARIANTS
    TablesConsistent
    OwnersAreDisjoint
    OnlyHighPagesStray
PROPERTY CompactRequestServed
\* A call that stops the kernel is a state without successor.
CHECK_DEADLOCK FALSE
