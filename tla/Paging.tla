------------------------------- MODULE Paging -------------------------------
(***************************************************************************)
(* The page allocator of arch/i386/paging.c: alloc_pages() looks for count *)
(* consecutive free pages over the dynamic kernel page tables and marks    *)
(* them, free_pages() computes the first page back from the address.       *)
(*                                                                         *)
(* alloc_pages() is a small state machine of its own, one action per turn  *)
(* of its loops; calls do not overlap (the only caller besides the tests   *)
(* is memory::init, before there are threads).  Page tables are numbered   *)
(* from 0, which stands for entry 776 of the page directory, the first     *)
(* behind those filled at boot.                                            *)
(***************************************************************************)
EXTENDS Integers, FiniteSets, FiniteSetsExt

CONSTANTS
    NUM_OF_PDE,   \* dynamic page tables (248 in the kernel)
    NUM_OF_PTE,   \* pages of a table (1024 in the kernel)
    PAGE_SIZE,    \* bytes of a page (4096 in the kernel)
    Counts        \* the numbers of pages callers ask for

ASSUME PagingAssumption ==
    /\ NUM_OF_PDE \in Nat \ {0} /\ NUM_OF_PTE \in Nat \ {0}
    /\ PAGE_SIZE \in Nat \ {0}
    /\ Counts \subseteq Nat \ {0}

VARIABLES
    taken,        \* the pages <<pde, pte>> whose taken[] flag is set
    free,         \* num_of_free_pages of every table
    live,         \* what callers hold: the address and the count of each allocation
    pc,           \* where alloc_pages() is
    count,        \* its argument
    collected,    \* num_pages_collected
    crosses,      \* page_table_crosses
    pde, i,       \* the loop counters of the search, then of the marking
    keepGoing,    \* whether the last run of pages ended without a taken page
    pde_start, pte_start,
    marked,       \* pages marked so far
    strayed       \* offsets in a table for which free_pages() freed other pages

vars == <<taken, free, live, pc, count, collected, crosses, pde, i, keepGoing,
          pde_start, pte_start, marked, strayed>>

Tables == 0 .. (NUM_OF_PDE - 1)
Pages == Tables \X (0 .. (NUM_OF_PTE - 1))

\* The n consecutive pages from page pte of table pde on, over table borders.
PagesFrom(d, t, n) ==
    {<<(d * NUM_OF_PTE + t + k) \div NUM_OF_PTE, (t + k) % NUM_OF_PTE>> : k \in 0 .. (n - 1)}

-----------------------------------------------------------------------------
(* Addresses, relative to the first dynamic table.                         *)

\* Slip: a table is counted as one page less.
virtual_addr_short(d, t) == PAGE_SIZE * (NUM_OF_PTE - 1) * d + PAGE_SIZE * t

virtual_addr(d, t) == PAGE_SIZE * NUM_OF_PTE * d + PAGE_SIZE * t

calc_pd_offset(start) == start \div (NUM_OF_PTE * PAGE_SIZE)

\* Slip: a cast to a signed 16-bit number, of which the sign is lost.
calc_pt_offset_15(start) == ((start % (NUM_OF_PTE * PAGE_SIZE)) % 32768) \div PAGE_SIZE

\* (uint16_t)rem / PAGE_SIZE: the cast binds tighter than the division.
calc_pt_offset(start) == ((start % (NUM_OF_PTE * PAGE_SIZE)) % 65536) \div PAGE_SIZE

-----------------------------------------------------------------------------
\* init_higher_half_pagedirectory_info(): every dynamic page is free.
Init ==
    /\ taken = {}
    /\ free = [d \in Tables |-> NUM_OF_PTE]
    /\ live = {}
    /\ pc = "idle"
    /\ count = 0 /\ collected = 0 /\ crosses = 0
    /\ pde = 0 /\ i = 0 /\ keepGoing = TRUE
    /\ pde_start = 0 /\ pte_start = 0
    /\ marked = 0
    /\ strayed = {}

Call(n) ==
    /\ pc = "idle" /\ strayed = {}
    /\ pc' = "sweep"
    /\ count' = n
    /\ collected' = 0
    /\ marked' = 0
    /\ UNCHANGED <<taken, free, live, crosses, pde, i, keepGoing, pde_start, pte_start, strayed>>

\* while(num_pages_collected != count && possible): possible never turns FALSE,
\* because the test pde == NUM_OF_PDE is inside the loop that pde ends.
\* num_pages_collected is not reset.
Sweep ==
    /\ pc = "sweep"
    /\ collected # count
    /\ pc' = "table"
    /\ crosses' = 0
    /\ pde' = 0
    /\ UNCHANGED <<taken, free, live, count, collected, i, keepGoing, pde_start,
                   pte_start, marked, strayed>>

\* The head of the loop over the tables; a full table is skipped and the pages
\* collected before it are kept.
EnterTable ==
    /\ pc = "table"
    /\ \/ /\ pde \notin Tables
          /\ pc' = "sweep"
          /\ UNCHANGED <<pde, i>>
       \/ /\ pde \in Tables /\ free[pde] = 0
          /\ pde' = pde + 1
          /\ UNCHANGED <<pc, i>>
       \/ /\ pde \in Tables /\ free[pde] # 0
          /\ i' = 0
          /\ pc' = "run"
          /\ UNCHANGED pde
    /\ UNCHANGED <<taken, free, live, count, collected, crosses, keepGoing,
                   pde_start, pte_start, marked, strayed>>

\* Where the inner loop that starts at page i stops: at a taken page, at the
\* end of the table or with enough pages.
RunEnd ==
    Min({j \in i .. NUM_OF_PTE :
            j = NUM_OF_PTE \/ collected + (j - i) = count \/ <<pde, j>> \in taken})

\* The taken page ends the run; what was collected in earlier tables is lost.
RunBroken ==
    /\ RunEnd < NUM_OF_PTE
    /\ collected + (RunEnd - i) # count
    /\ keepGoing' = FALSE
    /\ collected' = IF crosses > 0 THEN 0 ELSE collected
    /\ crosses' = 0
    /\ i' = RunEnd + 1

RunComplete ==
    /\ RunEnd = NUM_OF_PTE \/ collected + (RunEnd - i) = count
    /\ keepGoing' = TRUE
    /\ collected' = collected + (RunEnd - i)
    /\ UNCHANGED crosses
    /\ i' = RunEnd

\* One turn of while(i < NUM_OF_PTE).
Run ==
    /\ pc = "run"
    /\ i < NUM_OF_PTE
    /\ collected # count
    /\ pte_start' = IF crosses = 0 THEN i ELSE pte_start
    /\ RunBroken \/ RunComplete
    /\ UNCHANGED <<taken, free, live, pc, count, pde, pde_start, marked, strayed>>

\* Slip: a run over several tables is taken to begin in the last of them.
FirstTableForgets == pde

\* The table in which the run that ends in table pde begins.
FirstTable == pde - crosses

\* Behind that loop: enough pages, or on to the next table.
LeaveTable ==
    /\ pc = "run"
    /\ i = NUM_OF_PTE \/ collected = count
    /\ \/ /\ collected = count
          /\ pde_start' = FirstTable
          /\ pc' = "mark"
          /\ UNCHANGED <<crosses, pde>>
       \/ /\ collected # count
          /\ crosses' = IF keepGoing THEN crosses + 1 ELSE crosses
          /\ pde' = pde + 1
          /\ pc' = "table"
          /\ UNCHANGED pde_start
    /\ UNCHANGED <<taken, free, live, count, collected, i, keepGoing, pte_start, marked,
                   strayed>>

\* The page that the marking loop is at.
Marking == <<pde_start + (pte_start + marked) \div NUM_OF_PTE,
             (pte_start + marked) % NUM_OF_PTE>>

\* The table whose num_of_free_pages a marked page is subtracted from.
MarkedTable == Marking[1]

\* One turn of the marking loop.  A page that is taken stops the kernel
\* ("Should not happen - inf loop now..."), a table behind the last one is a
\* write outside pagedir_info.
Mark ==
    /\ pc = "mark"
    /\ marked < count
    /\ \/ /\ Marking \in Pages \ taken
          /\ taken' = taken \cup {Marking}
          /\ free' = [free EXCEPT ![MarkedTable] = @ - 1]
          /\ marked' = marked + 1
          /\ UNCHANGED pc
       \/ /\ Marking \in taken
          /\ pc' = "hang"
          /\ UNCHANGED <<taken, free, marked>>
       \/ /\ Marking \notin Pages
          /\ pc' = "outOfBounds"
          /\ UNCHANGED <<taken, free, marked>>
    /\ UNCHANGED <<live, count, collected, crosses, pde, i, keepGoing, pde_start, pte_start,
                   strayed>>

\* The address goes to the caller; the locals of the call are gone.
Return ==
    /\ pc = "mark"
    /\ marked = count
    /\ live' = live \cup {[addr |-> virtual_addr(pde_start, pte_start), count |-> count]}
    /\ pc' = "idle"
    /\ count' = 0 /\ collected' = 0 /\ crosses' = 0 /\ pde' = 0 /\ i' = 0
    /\ keepGoing' = TRUE /\ pde_start' = 0 /\ pte_start' = 0 /\ marked' = 0
    /\ UNCHANGED <<taken, free, strayed>>

\* The pages of the allocation that begins at address addr.
PagesOf(a) ==
    LET first == a.addr \div PAGE_SIZE
    IN  PagesFrom(first \div NUM_OF_PTE, first % NUM_OF_PTE, a.count)

\* Slip: the borders of tables are not seen when pages are counted back.
FreedInOneTable(pages, d) == IF \E p \in pages : p[1] < d THEN 0
                             ELSE Cardinality({p \in pages : p[1] >= d})

\* By how much free_pages() increases num_of_free_pages of table d.
FreedIn(pages, d) == Cardinality({p \in pages : p[1] = d})

\* free_pages(), called with what alloc_pages() returned and was asked for.
\* Nothing is called after it freed pages of somebody else.
FreePages(a) ==
    LET pages == PagesFrom(calc_pd_offset(a.addr), calc_pt_offset(a.addr), a.count) IN
    /\ pc = "idle" /\ strayed = {}
    /\ taken' = taken \ pages
    /\ free' = [d \in Tables |-> free[d] + FreedIn(pages, d)]
    /\ live' = live \ {a}
    /\ strayed' = IF pages = PagesOf(a) THEN {} ELSE {(a.addr \div PAGE_SIZE) % NUM_OF_PTE}
    /\ UNCHANGED <<pc, count, collected, crosses, pde, i, keepGoing, pde_start,
                   pte_start, marked>>

Step == Sweep \/ EnterTable \/ Run \/ LeaveTable \/ Mark \/ Return

Next ==
    \/ \E n \in Counts : Call(n)
    \/ Step
    \/ \E a \in live : FreePages(a)

Spec == Init /\ [][Next]_vars

\* A call runs on by itself.
FairSpec == Spec /\ WF_vars(Step)

-----------------------------------------------------------------------------
(* Properties.                                                             *)

TypeOK ==
    /\ taken \subseteq Pages
    /\ free \in [Tables -> Nat]
    /\ strayed \subseteq 0 .. (NUM_OF_PTE - 1)
    /\ pc \in {"idle", "sweep", "table", "run", "mark", "hang", "outOfBounds"}
    /\ collected \in 0 .. count
    /\ crosses \in 0 .. NUM_OF_PDE
    /\ pde_start \in Tables

\* No two callers share a page, and between calls exactly the pages callers hold
\* are taken: alloc_pages() marks what it returns, free_pages() finds it again,
\* until it is given an address that it gets wrong.
OwnersAreDisjoint ==
    strayed = {} =>
        /\ \A a, b \in live : a # b => PagesOf(a) \cap PagesOf(b) = {}
        /\ pc = "idle" => taken = UNION {PagesOf(a) : a \in live}

\* free_pages() frees the pages of somebody else only for an allocation that
\* begins 64 KiB or more behind the begin of a table, page 16 in the kernel: the
\* cast to 16 bits in calc_pt_offset() comes before the division.
OnlyHighPagesStray == \A t \in strayed : t * PAGE_SIZE >= 65536

\* num_of_free_pages, which decides whether a table is searched, agrees with the
\* flags after every step of marking and freeing.
FreeCountExact ==
    strayed = {} =>
        \A d \in Tables : free[d] = NUM_OF_PTE - Cardinality({p \in taken : p[1] = d})

\* There are count consecutive free pages.
Fits == \E p \in Pages : PagesFrom(p[1], p[2], count) \subseteq Pages \ taken

\* No free page lies before a taken one.
Compact ==
    \A p \in taken, q \in Pages \ taken :
        p[1] * NUM_OF_PTE + p[2] < q[1] * NUM_OF_PTE + q[2]

\* A request that fits is served, over any number of table borders, as long as
\* there are no holes, and a request of one page even then.  With holes the
\* search may add up pages that are not consecutive, and stop the kernel
\* ("Should not happen") or search for ever.
CompactRequestServed ==
    (pc = "sweep" /\ Fits /\ (Compact \/ count = 1)) ~> (pc = "idle")

\* Until free_pages() strays, the tables are well-formed and the counters of
\* alloc_pages() and free_pages() agree with the flags after every single page,
\* also within a run that crosses a table border.
TablesConsistent == TypeOK /\ FreeCountExact

=============================================================================
