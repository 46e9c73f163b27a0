# bodos in TLA+

bodos is a small i386 kernel: threads, a priority scheduler driven by the timer
interrupt, a page allocator, a kernel heap, a few containers, a text screen with
a keyboard, and logging over a serial port. This directory holds TLA+ models of
these parts, the TLC runs that check them and proofs that TLAPS checks. Paths
below are relative to `src/src/`; `kernel/include/kernel/` is abbreviated
`include/` and `kernel/arch/i386/` is abbreviated `i386/`.

## 1. The system and its parts

| Part | State | Operations | Hard about it |
|---|---|---|---|
| Process table, process API (`include/proc/proc.h`, `kernel/kernel/proc/proc.cpp`, `i386/proc/proc_x86.cpp`) | status, priority, stack and `_taken` flag of 1024 slots; `currpid` | `processes::init`, `kthread_create`, `ready`, `suspend`, `kill`, `userret` | status and ready list are changed by different functions, and `ready` changes only the list |
| Scheduler (`kernel/kernel/sched/sched.cpp`) | none of its own | `timerObserver`, `resched` | runs in an interrupt and in threads; pops without asking whether there is anything |
| Ready list / priority queue (`include/containers/queue.h`) | array `_mem`, `_size`, `_count`; a second counter in `ReadyList` | `insert`, `dequeue`, `erase`, `top` with `swim`, `sink`, `increase_mem` | growth, off-by-one in the layout, ties, two counters |
| Context switch, interrupt gate (`i386/proc/ctxswitch.s`, `stack.cpp`, `isr_irq.s`, `interrupt_x86.s`) | the stacks, `_sp` of every entry, interrupt flag and masks | interrupt entry and return, `disable`, `restore`, `ctxswitch` | interrupts inside the scheduler, a thread that frees its own stack |
| Interrupt dispatch (`i386/irq.c`), timer (`timer.cpp`), boot (`init.cpp`, `kernel.cpp`) | request, service and mask registers of two controllers; gates, handlers, observers | `irq_remap`, `irq_install`, `irq_handler`, the order of the initialisers | acknowledgements with nested and parked handlers; interrupts are on before there is a process table |
| Kernel heap (`kernel/kernel/mem/allocator.cpp`, `kmalloc.cpp`) | a row of chunks with linked headers | `kmalloc`, `kfree` | split and merge repair links of a third chunk; no protection from preemption |
| Page allocator (`i386/paging.c`) | `taken[]` flags and `num_of_free_pages` of 248 tables | `alloc_pages`, `free_pages` | a search with three interacting counters over table borders; 16-bit arithmetic |
| Containers `queue<T>`, `unordered_map` (`queue.h`, `unordered_map.h`) | linked nodes in the kernel heap, buckets | `insert`, `erase_item`, `erase_idx`, `dequeue`, `find`, `erase` | links of neighbours, nodes read after they were freed, pointers handed out |
| Terminal, cursor, keyboard (`tty.c`, `cursor.c`, `keyboard.c`) | row, column, screen, cursor registers | `terminal_putchar`, scrolling, `move_cursor`, key interrupt | shared by threads and an interrupt without a lock |
| `kprintf`, serial port (`kernel/kernel/kprintf.c`, `i386/serialport.c`) | the buffer of an argument; line control, divisor and transmitter of the port | `kprintf_level`, `serial_write` | formats, a fixed buffer, a device with a busy bit and a register that changes its meaning |
| Descriptor tables, `boot.s`, libc | - | - | bit layouts, written once |

How they interact. The timer interrupt enters through the gate in `isr_irq.s`,
is acknowledged in `irq_handler`, and calls the one observer, which calls
`resched`. Threads reach `resched` by `kthread_create(..., do_resched)` and by
`kill`. `resched` compares the running process with the root of the ready list,
exchanges them, and calls `ctxswitch` with the two `_sp` fields. A thread
function returns into `userret`, which kills the thread. The process table, the
stacks and the array of the ready list live in the kernel heap, and the kernel
heap lives in pages of the page allocator, which is called once for it. Threads
write to the terminal and, through `kprintf`, to the serial port; the keyboard
interrupt echoes to the same terminal.

What makes each part correct: exactly the runnable processes are queued, the
best one runs, there is always a process to fall back on, the dead stay dead
(scheduler); the largest key comes out and nothing is lost (queue); a
thread continues on its own stack where it left it (context switch); every
interrupt is taken and acknowledged once (dispatch); owners are disjoint, memory
is conserved, calls end (both allocators); a container does what a sequence or a
map does (containers); what is written appears, in order and once (output).

## 2. Modules

| Module | Models | State and actions |
|---|---|---|
| `Scheduler` | process table, ready list, scheduler | One action per API call or timer interrupt. The ready list is a bag of pids, `count` is `ReadyList::_count`, which need not agree with it and is never initialised: `garbage` is what it held before. `Resched(st, pr, rl, c)` is `resched()` from the table the calling operation leaves. `fault` records the first undefined operation (pop of an empty heap, `kfree(NULL)`), where the model stops |
| `Heap` | index arithmetic of `priority_queue` | operators only |
| `PriorityQueue` | `priority_queue<K, V>` | One action per call and per recursive call of `swim` and `sink`; `erase` builds a second queue (`pmem`, `psize`, `pcount`) as in the code |
| `BagQueue` | what a priority queue promises | abstract: insert, take a largest, erase a value |
| `HeapScheduler` | `Scheduler` with the real heap as ready list | as `Scheduler`; a whole `swim`, `sink` or `erase` is a recursive function of the array, and ties are broken by the heap |
| `ContextSwitch` | interrupt gate, `resched`, `ctxswitch`, the steps of a thread's own `kill` | stacks of frames with the interrupt flag that the gate, `pushf` or `create_stack` put there, `esp`, `_sp` of every thread, the interrupt flag; one action per stretch of code between two places where an interrupt may fall |
| `Interrupts` | boot order, `irq_remap`, `irq_install`, `irq_handler`, timer observers, `disable`, `restore` | request, in-service and mask registers of the two 8259, the gates, handlers and observers installed so far, and per thread the handlers that are entered and not left. The controllers are external, modelled from the way `irq.c` programs them: fixed priorities, cascade on line 2, unspecific EOI |
| `Allocator` | `Block::allocate`, `Block::free` | headers as records at their addresses; the walk takes one step per chunk, per thread |
| `Paging` | `alloc_pages`, `free_pages` | one action per turn of a loop; `pc` is the place in the function |
| `LinkedQueue` | `queue<T>` | several queues over one heap of nodes (`next`, `value`, the set of allocated nodes); one action per turn of a loop |
| `UnorderedMap` | `unordered_map`, on the buckets of `LinkedQueue` | insert, find and erase of the map as sequences of calls of a bucket, a plain queue beside them in the same heap, and a caller that keeps the pointer of `find()` and writes through it |
| `Terminal` | `tty.c`, `cursor.c`, `keyboard.c` | several writing threads, statement by statement, load by load and port write by port write; the key interrupt runs as a whole between any two of these steps. `terminal_scroll` is one step, but whatever begins while a thread is in `terminal_putchar` counts as `torn` |
| `SerialPort` | `serial_write` | port access by port access, per thread. The port is external, modelled from its use: a holding register (`thr`), whose emptiness is bit 0x20 of the line status, and a shift register (`tsr`), which takes a byte over and sends it in steps of its own; a byte that is shifted while the divisor or the line format is wrong arrives as `Garbled` |
| `Kprintf` | `kprintf_level`, on `SerialPort` | per thread, which may call as often as it likes: the search for a conversion, the conversion into the buffer, the writing of a piece. Formats are characters; what the caller means is a sequence of tokens, from which the format and the words of the arguments are made |
| `SchedulerProofs`, `PriorityQueueProofs`, `ContextSwitchProofs`, `InterruptsProofs`, `AllocatorProofs`, `PagingProofs`, `UnorderedMapProofs`, `OutputProofs` | - | inductive invariants, lemmas, theorems and proofs about the module of the same name; `PriorityQueueProofs` also about `HeapScheduler`, `UnorderedMapProofs` about `LinkedQueue`, and `OutputProofs` about `Terminal`, `Kprintf` and `SerialPort` |
| `MC...` | - | values of the constants for TLC |

Definitions marked *Slip* are deliberately wrong variants of the definition they
precede. Substituted for it, each makes a run fail, which shows that the property
it is aimed at can notice that kind of mistake.

Three modules look at one switch of threads from different heights. `Scheduler`
takes an API call as one step, although only `resched` switches interrupts off.
`ContextSwitch` looks below that level at stacks, for the timer interrupt, the
switch and a thread's own `kill`. `Interrupts` looks at the controllers below
the gate and leaves the choice of the next thread open.

### The contract of the process API

The code accepts `ready` for a process that is already queued (its status stays
`PR_SUSPENDED` until it runs) or running, and `kill` for a process that is
queued in this way. Then entries are duplicated, counted wrongly and survive
the process. `Scheduler` therefore has a constant `Careful`. With `FALSE`
callers do whatever the code accepts. With `TRUE` they make ready only a
suspended process that is not queued, leave a process that was made ready alone
until it has run, kill only processes that own a stack (not the boot thread),
leave nullproc alone, and create threads only while there is memory for their
stacks (`getstack` does not look whether `kmalloc` found any: `StackFound`).
The properties are split accordingly.

Without the contract nullproc is a target as any other: `isvalid(0)` holds, so
`suspend(0)` and `kill(0)` take it out of the ready list, and the next `resched`
may find the heap empty. `EmptyHeapExplained` says that this and a wrong counter
while nullproc runs are the only ways to get there.

The counter. `ReadyList` has no constructor, and `_count` starts with any integer
(`CountGarbage`). If it starts above 0, an idle kernel reads an empty heap; if it
starts at -n, `resched` does not look at a heap of n entries. `CountCovers` says
that it never gets worse than that whatever the callers do, `CountExact` that
with the contract it is off by its start and nothing else.

## 3. Runs

States are distinct states. A property that is a conjunction is followed by its
parts; the type invariant of the module is one of them where `TypeOK` is named.

| Run | Bounds | Checks |
|---|---|---|
| `scheduler_any` | 4 slots, priorities 0, 10, 20, all four pids as targets, counter starting at -1, 0 or 1 (before nullproc is queued), `ready` up to a counter of 3; 966 471 states | without the contract: `TableConsistent` (`TypeOK`, `OneCurrent`, `RunnableIsQueued`), `IdleFallback` (`EmptyHeapExplained`, `IdleOnlyWhenNothingReady`), `CountCovers`, `DeadNotQueuedAgain` |
| `scheduler_careful` | as above, `ready` up to a counter of 5; 3 428 states | with the contract: `ContractSafe` (`NoFault`, `CountExact`, `NoDuplicates`, `RunsOnOwnStack`), `DeadStaysDead`; under fairness `SuspendedYields`, `TopPreempts` |
| `priority_queue` | 3 keys, 2 values, up to 4 elements, first array of 1 cell; 63 796 states | `HeapSound` (`TypeOK`, `HeapProperty`, `InBounds`), `DebugCheckAccepts`, `RefinesBagQueue` |
| `heap_scheduler` | 5 slots, priorities 5 and 10, with the contract, calls aimed at two threads; 1 817 states | `ReadyListIsHeap`, `RefinesScheduler`, and `SpawnedGetTheirTurn`, the situation of `SchedulerTester::spawnLots` |
| `paging` | 3 tables of 3 pages of 32 KiB, requests of 1 to 4 pages; 234 921 states | `TablesConsistent` (`TypeOK`, `FreeCountExact`), `OwnersAreDisjoint`, `OnlyHighPagesStray`, `CompactRequestServed` |
| `allocator` | block of 16, header of 2, smallest rest 1, requests 1, 2, 5, one thread; 11 986 states | `BlockConsistent` (`TypeOK`, `ChunksTileBlock`, `NoChunkLost`, `Coalesced`), `AllocationsDisjoint`, `OnlyLastLinkStrays` |
| `allocator_preempt` | the same with two threads | fails: two threads get the same chunk |
| `context_switch` | nullproc, boot thread, 2 threads, interrupts and calls accepted with up to 2 frames on the stack; 167 155 states | `StacksConsistent` (`TypeOK`, `WaitingIsResumable`), `OnOwnStack`, `FreedStackIsLeft`, `InterruptsComeBack` |
| `interrupts` | lines 0, 1 and 8, two threads, two handlers entered per thread; 58 784 states | `ControllersConsistent` (`TypeOK`, `NothingHeldBack`), `BootOrderSafe`, `OnlyReschedIsInterrupted`, `RaisedIsTaken` |
| `containers` | 3 nodes, 3 keys of which two share a bucket, 2 values, 2 buckets and a plain queue; 153 675 states | `ListsConsistent` (`TypeOK`, `NodesAccounted`, `BucketsAreMap`), `CallsCorrect` (`QueueCallsCorrect`, `MapCallsCorrect`), `PointerStays`, `CallReturns` |
| `terminal` | 2 threads (symmetric) and the keyboard, screen of 2 by 2, a `size_t` of 16 and a byte of 4 values, 4 characters; 585 234 states | `StaysInBuffer` (`TypeOK`, `OnlyTornWritesStray`), `ScreenShowsText`, `CursorFollows` |
| `kprintf` | 2 threads that call again and again, one with any of five messages, the other with one; buffer of 11 characters that has no end at first; 166 383 states | `ArgumentStaysInBuffer` (`KprintfTypeOK`, `OnlyStringsOverrun`), `PrintsTheFormat`, `BytesArrive`, `SomeCallReturns` |

Why the bounds are enough.

- Scheduler: two threads beside the boot thread and nullproc allow every pair of
  roles a rule speaks of (running, best queued, another queued, idle),
  duplicates, a full table, and a process suspended by another and by itself;
  the priorities are that of nullproc and values at and above that of the boot
  thread. The starts of the counter are the three signs; with a counter of 3 the
  heap holds four entries and more. With the heap, five slots are the fewest in
  which a process can be passed over for as long as the others of its priority
  live.
- Queue: four elements give a heap of three levels with one and with two
  children, and two growths.
- Paging: three tables are needed for a run over a whole table and for a full
  table between two others. With pages of 32 KiB page 2 of a table is where page
  16 is in the kernel, the first whose offset does not fit into 16 bits.
- Allocator: 16 bytes hold up to five chunks, so that merges have both
  neighbours.
- Context switch: with two frames on the stack one more interrupt or call is
  accepted, so that an interrupted thread, an interrupt on the way back from the
  first, and a call or switch lie on one another.
- Interrupts: the timer, a second line of the master and one of the slave; two
  frames let a handler be interrupted behind `resched`, two threads let it be
  parked.
- Containers: three nodes allow an erase at the head, in the middle and at the
  end, of several equal elements, and a heap that is full.
- Terminal: four characters, one of them a newline, fill the last line and scroll
  with the next one, or scroll at a newline, and reach both cursor registers; two
  threads and the keyboard meet in every pair of statements. Threads are told
  apart only by what they do, so that exchanging them is a symmetry.
- `kprintf`: the messages have characters, strings, `%d`, `%du`, `%f` and a letter
  that is unknown, a percent sign before a space and at the end, text behind an
  `u`, a string that fits and one that does not, a 0, and a number of ten digits,
  which just fits the buffer. Pieces of no, one, two and three bytes are what the
  two registers of the port tell apart; repeated calls let one thread keep the
  port busy while the other waits. A format is what a
  caller writes for a sequence of tokens, and `WellFormed` asks that the two can
  be told apart: a percent sign in a text comes before a space or ends the
  format, and a text behind `%d` does not begin with `u`.

Larger instances of one thread hide what two threads do: `AllocationsDisjoint`
holds for `allocator` and fails for `allocator_preempt`. Nothing in `kmalloc`
keeps the timer out, and `resched` itself may allocate, when the ready list
grows.

What the passing properties leave open, and the code does not guarantee:

- `DeadStaysDead` needs the contract: `ready` followed by `kill` before the
  process ran leaves an entry in the ready list, and `resched` runs the dead
  process on a freed stack. Without the contract there is only
  `DeadNotQueuedAgain`: no call puts a dead process into the list. The counter
  of the ready list is exact only under the contract; `ReadyList::erase`
  decrements it once even if two entries went.
- `IdleFallback` and `ContractSafe` allow a read of an empty heap where the
  counter did not start at 0, and `TopPreempts` asks for a start that is not
  negative: the code does not initialise it.
- `OnOwnStack` and `StacksConsistent` hold up to an interrupt between
  `restore()` and the exchange of the stacks in which `resched` decides for a
  third thread (`raced`); then a place on the old thread's stack is saved as the
  new one's `_sp`.
- A thread whose own `kill` is interrupted between `suspend` and `PR_DEAD` is
  never resumed and keeps its stack; `FreedStackIsLeft` covers the converse.
- `CompactRequestServed` promises an answer to requests that fit, when there are
  no holes or one page is asked for. With holes `alloc_pages` adds up pages that
  are not consecutive (the count survives full tables and whole sweeps) and then
  meets a taken page, which stops the kernel, or leaves the last table. A request
  that does not fit is never answered: the test `pde == NUM_OF_PDE` is inside
  the loop that `pde < NUM_OF_PDE` controls.
- The page properties hold until an allocation that begins at page 16 or later
  of a table is freed (`strayed`): in `calc_pt_offset` the cast to 16 bits comes
  before the division, and the wrong pages are freed.
- The allocator's properties hold up to the first access outside the headers.
  `OnlyLastLinkStrays` says where that can come from: a last chunk given out
  whole gets a `next` link behind the block.
- `DebugCheckAccepts` excludes queues of one element, for which `is_correct`
  compares the root with a dead cell.
- `SpawnedGetTheirTurn` needs threads that end. Among four or more processes of
  one priority that do not, the heap may pass over one for ever; the plan in
  `src/src/TODO` for round robin within a priority would cure that.
- `ScreenShowsText` and `OnlyTornWritesStray` except a `terminal_putchar` that
  begins within another one, be it that of a key or of another thread (`torn`):
  between an increment and the comparison that follows it, the row or the column
  passes its limit unnoticed and characters leave the buffer. `CursorFollows`
  excepts a key, or a move of another thread, between the first load of row or
  column for `move_cursor` and its last port write (`stale`).
- `BytesArrive` excepts calls of `serial_write` that overlap, which lose bytes,
  and lets the last two bytes of a piece go out at the wrong speed: bit 0x20 says
  that the port can take a byte, not that it has sent the ones before, so the
  next call sets the divisor while one is being shifted and one waits.
- `OnlyStringsOverrun`: `%s` copies without a limit; a `%f` prints the buffer
  whether or not it has an end, and leaves its words to a `%s` behind it
  (`MayOverrun`).
- `PrintsTheFormat` speaks of supported conversions. `itoa` writes no digit for 0,
  `%d` prints a negative number as an unsigned one and `%f` prints what the
  buffer held (TODOs in `kprintf.c`), and an unknown letter is taken for an int;
  nothing is claimed of these (`Supported`).
- `SomeCallReturns` is about the threads together. While one calls `kprintf`
  again and again, another may find the port taken every time it looks, and may
  not get the processor at all.
- `CallReturns` of the containers excepts a full heap: `operator new` returns
  `NULL` and the constructor writes through it (`InsertNoMemory`).
- `getstack` adds bytes to a pointer to words; the models have no addresses of
  stack words.

### Fairness

`Scheduler!FairSpec` and `HeapScheduler!FairSpec` assume weak fairness of `Tick`,
that the timer keeps firing: IRQ 0 is never masked except inside `resched`, and
`ContextSwitch` and `Interrupts` check that every path through `resched` unmasks
it. Nothing is assumed of callers. `FiniteThreadsSpec` adds strong fairness of
`UserRet`: a thread that runs again and again returns in the end, which is true
of the thread functions of `SchedulerTester`. In `Paging`, `ContextSwitch` and
`UnorderedMap` a function that has begun goes on (weak fairness of `Step`); that
is the processor. In `Kprintf` the transmitter empties, and the processor comes
back again and again to some thread that is in `kprintf` (weak fairness of the
steps of all threads together): the scheduler is one of strict priorities and
not fair among equals, so nothing is assumed of a given thread. In `Interrupts` code goes on,
and an interrupt that the controllers offer again and again is accepted (strong
fairness, as the interrupt flag comes and goes).

Deadlock is checked except where the model stops at an undefined operation or
where the code stops the kernel (`Scheduler`, `Allocator`, `Paging`).

## 4. Proofs

The theorems hold for every value of the constants that satisfies the named
assumptions of the modules (`ConstantsAssumption`, `QueueAssumption`,
`SwitchAssumption`, `LinesAssumption`, `AllocatorAssumption`,
`PagingAssumption`, `TerminalAssumption`, `MapAssumption`,
`HeapSchedulerAssumption`, `KprintfAssumption`), which TLC evaluates in the runs.
Priorities are any integers, as in the code. Inductive invariants that TLC can
evaluate were checked by it before they were proved; those of `HeapScheduler`,
`UnorderedMap` and `Kprintf` speak of sequences that are chosen, not computed,
and rest on their proofs and on the runs of the properties they imply.

The provers have no induction over data. Where a property depends on what a
recursive function computes (`swim` and `sink`, the place of a character, the
nodes of a list, `itoa`, `FlattenSeq`), the proof takes the least counterexample
in a set of natural numbers instead (`LeastElement`, from the well-foundedness of
`<`): first that the recursive definition has a solution up to every bound, then
that any two agree, then what it computes.

| Module | Theorem | Property | Holds for |
|---|---|---|---|
| `SchedulerProofs` | `TypeCorrect`, `StatusAgreesWithList`, `IdleProcess` | `TypeOK`, `TableConsistent`, `IdleFallback` | all slots, priorities and callers, no contract |
| | `DeadAreNotQueued` | `DeadNotQueuedAgain` (action property) | the same |
| | `CountNeverHides` | `CountCovers` | the same, `_count` starting with any integer |
| | `CarefulSafe`, `KillIsFinal` | `ContractSafe`, `DeadStaysDead` (action property) | the contract, `_count` starting with any integer |
| `PriorityQueueProofs` | `HeapCorrect`, `DebugCheckPasses` | `HeapSound`, `DebugCheckAccepts` | all keys, values, capacities |
| | `ImplementsBagQueue` | `RefinesBagQueue` | the same |
| | `ReadyListStaysHeap`, `HeapImplementsScheduler` | `ReadyListIsHeap`, `RefinesScheduler` of `HeapScheduler` | all slots, priorities and callers, no contract |
| `ContextSwitchProofs` | `WaitersResume`, `RunsOnOwnStack`, `FreedStackUnused` | `StacksConsistent`, `OnOwnStack`, `FreedStackIsLeft` | all threads and depths of the stacks |
| `InterruptsProofs` | `NothingStaysInService`, `BootOrder`, `NestingBehindResched` | `ControllersConsistent`, `BootOrderSafe`, `OnlyReschedIsInterrupted` | all lines, threads, depths of nesting |
| `AllocatorProofs` | `BlockStaysConsistent`, `OwnersDoNotOverlap`, `OnlyThatLinkStrays`, `BytesLieApart` | `BlockConsistent`, `AllocationsDisjoint`, `OnlyLastLinkStrays`, `BytesApart` | all block, header and rest sizes; one caller at a time (`OneCaller`) |
| `PagingProofs` | `CountersAgree`, `PagesHaveOneOwner`, `CastIsTheOnlyFault` | `TablesConsistent`, `OwnersAreDisjoint`, `OnlyHighPagesStray` | all numbers of tables and pages, page sizes, requests |
| `UnorderedMapProofs` | `ListsStayConsistent`, `CallsDoWhatTheyShould`, `FoundPointerStays` | `ListsConsistent`, `CallsCorrect`, `PointerStays` | all numbers of nodes, buckets, keys and values, any hash |
| `OutputProofs` | `WritesStayInBuffer`, `CursorIsBehindText`, `ScreenIsEndOfText` | `StaysInBuffer`, `CursorFollows`, `ScreenShowsText` | all screens, bytes, characters and numbers of threads |
| | `NoByteIsLost` | `BytesArrive` | all messages, targets and numbers of threads |
| | `FormatIsPrinted`, `ArgumentFits` | `PrintsTheFormat`, `ArgumentStaysInBuffer` | all sequences of well-formed calls of all threads, any buffer that holds ten digits, with any contents |

**Scheduler.** `AnyInv` is a predicate `Sound` on the quantities an operation
hands to `resched` plus the facts about `currpid`; stating it on a table, a list
and a `currpid` instead of on the variables lets one lemma about `Resched` serve
all five callers, which leave different tables. `RunnableIsQueued` is not
inductive by itself: the process that loses the processor is `PR_RUNNABLE` and
queued only because it was `PR_CURR`, and nullproc must not be lost on the way,
so `OneCurrent`, the priority 0 of nullproc and "if nullproc runs it is `PR_CURR`"
are carried along. `EmptyHeapExplained` is then a case split at the pop: with an
empty heap nullproc is not runnable, so it is suspended or dead, or it runs, and
then the counter was not 0. `CountCovers` speaks of the cardinality
of the set of entries; its lemmas say by how much inserting, popping and erasing
change it, and the start of the counter is only an offset to all of them. `CarefulInv` adds that each pid is at most once in the list and that
only suspended or runnable processes are, which is what makes `kill` final: the
erase in `suspend` covers every case in which the victim could be queued.
`DeadAreNotQueued` needs none of this but `Untouched`: a slot that was never
taken has no status and no entry, so a dead process is never the one that
`kthread_create` picks.

**Heap.** While `swim` is at work the array is a heap except between `pos` and
its parent, and the children of `pos` are below its parent; while `sink` is at
work it is a heap except between `pos` and its children, and those are below the
parent of `pos`. Both statements survive a swap. The same predicate is used for
the queue that `erase` builds. For the refinement, the bag is the number of live
cells that hold each element. Swaps and growth permute the live cells, so they
are stutters; that is a bijection between sets of cells (`CopiesCounted`), not a
sum. That `dequeue` takes a largest element follows from `HeapProperty` by the
least counterexample (`RootIsLargest`). `Erasing` ties the second queue of
`erase` to the first: it holds what was copied so far, without the value, and
the count that the call returns is the number of copies dropped.

**Heap as ready list.** `HeapScheduler` does a whole `swim`, `sink` or `erase` in
one step. Their functions are shown to exist and to end in a heap with the same
elements, by the least position or size for which they do not. The elements are
taken from `Fit`: processes of the table with their present priorities, so that
the keys in the array are the priorities the scheduler compares. `kthread_create`
writes a priority, but only of a free slot, which is not in the list. The bag of
the abstract scheduler is the number of cells that hold a pid, and the root is
one of the largest it may choose from. So every run of the heap scheduler is one
of `Scheduler`, and the theorems about `Scheduler` hold for it.

**Context switch.** Up to `raced`, every stack that is not in use ends in a frame
that `ctxswitch` or `create_stack` pushed, and `_sp` names that place. This
needs which frames may lie on which (`Levels`), that no other stack is in the
middle of a switch (`OthersSettled`), that on the stack in use only the code that
runs, or one frame that an interrupt behind `restore` left, can be, and then from
the owner of that stack to `currpid` (`WhoseStack`), and that a thread within its
own `kill` is where its status says (`KillProgress`, `FreedAreDead`). Where the
interrupt flag comes from does not matter to these; that it comes back on every
path is `InterruptsComeBack`.

**Interrupts.** `NothingHeldBack` speaks of moments when interrupts are on. The
invariant says for every moment which line is in service: none, or the one of
the top frame of the running thread, which still owes its acknowledgement
(`Serves`); every other frame of every thread is calm, past its acknowledgement
or, for the timer, acknowledged on entry. `disable` always finds every line open,
and keeps that in the frame, so that `restore` opens every line again.

**Allocator.** `Row(hdr)` says that the headers from address 0 to the end of the
block are linked both ways, each ending where the next begins; it is stated on a
header function, so that split and merge are lemmas about functions. `Walking`
places the walk of `allocate` on a header or on the stray link. The hypothesis
`OneCaller` is not for convenience: `allocator_preempt` shows that two callers
break the property. `BytesLieApart` draws the conclusion a caller cares about:
the bytes of two allocations have a header between them.

**Paging.** The invariant `Accounted` says that the taken pages are those of the
allocations that are held, disjointly, plus the pages marked so far by the call
in progress, which are all free before it marks them. That holds whatever the
search counted, because `alloc_pages` stops the kernel at a taken page. The
rest is arithmetic: the address that `alloc_pages` returns leads back to the
table and, if the offset fits into 16 bits, to the page (`AddressFacts`).

**Terminal.** As long as no `terminal_putchar` begins within another one at most one
thread is in it, row and column are within their limits at every statement but
those between an increment and the comparison after it, where they are at most
one too far, and what that thread has loaded is still true (`At`, `InPlace`).
For the cursor, unless `stale` at most one thread is in `move_cursor`
(`CursorMoves`); if in addition nobody is on the way to it (`NoneWrites`), then
row and column no longer change, and `CursorAt` says load by load and port write
by port write which half is there already. A thread that is still writing will
move the cursor itself, and nothing needs to be known until then.
For the screen, `Place` gives every character of the text its place on an
endless sheet, and `Sheet` the character at a place; appending a character
changes one place and leaves the others (`PlaceAppend`, `SheetAppend`).
`ScreenAt`, with `ScreenOf` for the one thread within, says at every statement of `terminal_putchar` which part of the sheet
the screen shows, and what is still missing on it: the character that was not
yet put, the line that was not yet scrolled.

**Containers.** A list is a sequence of distinct nodes that its links lead
through (`IsList`, `Linked`); while the destructor of a queue runs, its list
begins at the node it has come to (`Roots`). The loops of the code, and the walk
that the properties use, follow the same links, so both lead to this sequence.
`Good` says of the lists that they share no node and are the allocated ones
(`Shape`), that every bucket holds pairs of its hash and no key twice
(`Buckets`), that the counters agree (`Counted`), that the pointer of `find()`
leads to the pair of its key (`Pointer`), and how far the call in progress is
(`Progress`): what a loop has passed, and for `erase`, which equal elements it
has dropped already (`Erased`). A call of the map is one call of a bucket, or
two (`MapLoop`, `MapDone`, `MapAnswer`).

**Serial port.** Unless two calls overlapped: at most one thread is in
`serial_write` (`Alone`), before the loop the data port leads to the latch and in
the loop the port is configured (`Latch`), and between the test of the status bit
and the write of a byte the holding register is empty (`Holding`). `Flight` says
what can be in the two registers when a thread has still l bytes to send: what
was given and has not left, in order, each byte followed by at most as many of
its piece as are still to come. A byte is spoiled only when its thread is behind
its loop, so with l = 0, and then at most one byte follows it.

**kprintf.** The format is the tokens one behind the other, so that every place
in it lies in one token (`PlaceInToken`): `search_next_arg` finds no formatter in
a text, and at a conversion the right letter and length
(`NoFormatterInText`, `FormatterOfConversion`). The invariant `CallInv` says that
a call is behind the k-th token, for some k (`Got`): the arguments of the first k
tokens are taken, unless there was a `%f` among them (`Aligned`), the buffer holds
what the last of them made, and if the call is supported what they mean is printed
or about to be. With a `%f` the arguments that follow belong to other conversions;
all that is known then is that they are among those given, and that is enough for
the buffer, because a number of any argument has at most ten digits. `itoa`, which divides by ten until nothing is left, is
compared with `Numeral`, which has a digit for every power of ten up to the
number (`ItoaIsNumeral`).

Only model-checked:

- all liveness (`SuspendedYields`, `TopPreempts`, `SpawnedGetTheirTurn`,
  `CompactRequestServed`, `InterruptsComeBack`, `RaisedIsTaken`,
  `CallReturns`, `SomeCallReturns`): fairness and `ENABLED` are outside of the prover.

Every invariant and every action property of a passing run, and both
refinements, are theorems.

## 5. Not modelled

- `boot.s`, the bit layouts of the GDT and the IDT, the contents of page tables
  and directory: written once, without a decision. `Interrupts` has which gates
  exist, from when on.
- The words of a stack frame and the register saving of the assembly, beyond
  which frame is pushed where.
- The arithmetic of the string hash: the hash is a constant function from keys,
  as `unordered_map` uses it. The destructor of the map.
- `memset`, colours of the screen, statistics counters, printing functions of
  the containers.
- `timer_wait`, `enable`, `getirmask`, `ProcEntryTable::erase` and
  `setPriority`: they have no caller.
- `scratch/alloc.h`, a prototype of the allocator for a host system, and the
  in-kernel tests, which were read for what they promise.

## 6. Plan

1. Done: all modules of section 2, and the theorems of section 4: every safety
   property of the runs that pass.
2. Preemption below `Scheduler`: the steps of `insert` and `erase` of the ready
   list and of `kill` of another thread interleaved with the timer interrupt;
   the kernel heap shared by threads and `resched`, with the stack that a full
   process table loses.
