----------------------------- MODULE Scheduler -----------------------------
(***************************************************************************)
(* The process table, the ready list and the scheduler of the kernel:      *)
(* kernel/proc/proc.cpp, kernel/sched/sched.cpp and kthread_create of      *)
(* arch/i386/proc/proc_x86.cpp.                                            *)
(*                                                                         *)
(* One action is one call of the API (kthread_create, ready, suspend,      *)
(* kill, userret) by the running process, or one timer interrupt.  The     *)
(* ready list is a bag of pids: it may hold the same pid more than once,   *)
(* as the priority queue of the code may.  Which of several entries of     *)
(* equal priority is taken is left open here; module HeapScheduler fixes   *)
(* it to what the binary heap does.                                        *)
(***************************************************************************)
EXTENDS Integers, FiniteSets

CONSTANTS
    MAX_PROC_NUM,   \* slots of the process table (1024 in proc.h)
    Priorities,     \* the priorities threads are created with
    Targets,        \* the pids callers pass to ready, suspend and kill, nullproc's too
    CountGarbage,   \* what ReadyList::_count may hold before the first insert
    Careful,        \* TRUE: callers respect the contract stated below
    MaxEntries      \* bound of the model: ready() is not called with _count above it

Pid == 0 .. (MAX_PROC_NUM - 1)

NULLPROC == 0       \* created first by processes::init, so slot 0
MAIN == 1           \* the boot thread, slot 1

ASSUME ConstantsAssumption ==
    /\ MAX_PROC_NUM \in Nat /\ MAX_PROC_NUM >= 2
    /\ Priorities \subseteq Int
    /\ Targets \subseteq Pid
    /\ CountGarbage \subseteq Int
    /\ Careful \in BOOLEAN
    /\ MaxEntries \in Nat

VARIABLES
    status,      \* ProcEntry::_status of every slot
    priority,    \* ProcEntry::_priority of every slot
    stackmem,    \* ProcEntry::_stackmem is not NULL
    taken,       \* the slots whose _taken flag is set
    readyList,   \* how many entries of the ready list name each pid
    count,       \* ReadyList::_count
    currpid,     \* the running process
    fault,       \* the first undefined operation the kernel ran into
    garbage      \* history: what _count held before the first insert

vars == <<status, priority, stackmem, taken, readyList, count, currpid, fault, garbage>>

ProcStatus == {"CURR", "RUNNABLE", "SUSPENDED", "DEAD", "NA"}

Faults == {"none", "emptyHeap", "freeNull"}

-----------------------------------------------------------------------------
(* The ready list.                                                         *)

\* The entries of a ready list, told apart: the k-th entry of pid p is <<p, k>>.
Entries(rl) == UNION {{p} \X (1 .. rl[p]) : p \in Pid}

Queued(rl) == {p \in Pid : rl[p] > 0}

\* ReadyList::insert on the queue; _count is incremented by the caller.
Inserted(rl, id) == [rl EXCEPT ![id] = @ + 1]

\* priority_queue::dequeue of an entry of id.
Popped(rl, id) == [rl EXCEPT ![id] = @ - 1]

\* priority_queue::erase removes every entry of id.
Erased(rl, id) == [rl EXCEPT ![id] = 0]

\* Slip: _count is decremented whether or not an entry went, and once more.
ErasedCountTwice(rl, c, id) == c - 2

\* ReadyList::erase decrements _count once, however many entries went.
ErasedCount(rl, c, id) == IF rl[id] > 0 THEN c - 1 ELSE c

\* Slip: the order of the heap is inverted.
Lowest(rl, pr) == {p \in Queued(rl) : \A q \in Queued(rl) : pr[q] >= pr[p]}

\* The pids that top() may name: those of the highest priority queued.
Highest(rl, pr) == {p \in Queued(rl) : \A q \in Queued(rl) : pr[q] <= pr[p]}

-----------------------------------------------------------------------------
(* resched(), from the table st, the priorities pr, the ready list rl and   *)
(* its counter c that the calling operation leaves behind.                  *)

\* Slip: the status of the running process is not looked at.
KeepsCpuAnyStatus(st, pr, rl, c) ==
    \/ c = 0
    \/ \E p \in Highest(rl, pr) : pr[currpid] > pr[p]

\* The early return: the running process keeps the processor.
KeepsCpu(st, pr, rl, c) ==
    /\ st[currpid] = "CURR"
    /\ \/ c = 0
       \/ \E p \in Highest(rl, pr) : pr[currpid] > pr[p]

\* peek() and pop() do not look whether the heap holds anything.
ReadsEmptyHeap(st, rl, c) ==
    /\ Queued(rl) = {}
    /\ ~ (st[currpid] = "CURR" /\ c = 0)

\* A process that still held the processor becomes runnable.
Preempted(st) ==
    [st EXCEPT ![currpid] = IF @ = "CURR" THEN "RUNNABLE" ELSE @]

\* Slip: the preempted process is not put back.
NotRequeued(st, rl) == rl

\* The preempted process goes back to the ready list, others do not.
Requeued(st, rl) ==
    IF st[currpid] = "RUNNABLE" THEN Inserted(rl, currpid) ELSE rl

Switch(st, pr, rl, c) ==
    LET old == Preempted(st) IN
    \E next \in Highest(rl, pr) :
        /\ currpid' = next
        /\ readyList' = Requeued(old, Popped(rl, next))
        /\ count' = IF old[currpid] = "RUNNABLE" THEN c ELSE c - 1
        /\ status' = [old EXCEPT ![next] = "CURR"]

Resched(st, pr, rl, c) ==
    \/ /\ KeepsCpu(st, pr, rl, c)
       /\ status' = st
       /\ readyList' = rl
       /\ count' = c
       /\ UNCHANGED <<currpid, fault>>
    \/ /\ ReadsEmptyHeap(st, rl, c)
       /\ fault' = "emptyHeap"
       /\ status' = st
       /\ readyList' = rl
       /\ count' = c
       /\ UNCHANGED currpid
    \/ /\ ~ KeepsCpu(st, pr, rl, c)
       /\ Switch(st, pr, rl, c)
       /\ UNCHANGED fault

\* The code after a call of resched() is not reached by a process that lost
\* the processor; no operation below has any.

-----------------------------------------------------------------------------
(* Who calls, and on what terms.                                           *)

\* nullproc only spins: every API call is made by another process.
CallerRuns == fault = "none" /\ currpid # NULLPROC

\* Slip: a dead slot counts as a process.
isvalidTaken(id) == id \in taken

isvalid(id) == status[id] \in {"RUNNABLE", "CURR", "SUSPENDED"}

\* ready() queues a process and leaves its status PR_SUSPENDED.
Pending(id) == status[id] = "SUSPENDED" /\ readyList[id] > 0

(***************************************************************************)
(* The contract under which the scheduler is sound, which the code neither *)
(* states nor checks: only a suspended process that is not yet queued is   *)
(* made ready, a queued but still PR_SUSPENDED process is left alone until *)
(* it has run, only a process with a stack of its own is killed, nullproc  *)
(* is neither suspended nor killed, and threads are created only while     *)
(* there is memory for their stacks.                                       *)
(***************************************************************************)
MayReady(id) == Careful => status[id] = "SUSPENDED" /\ readyList[id] = 0
MaySuspend(id) == Careful => ~ Pending(id) /\ id # NULLPROC
MayKill(id) == Careful => ~ Pending(id) /\ stackmem[id] /\ id # NULLPROC

\* Whether kmalloc() gives getstack() memory; nobody looks whether it did.
StackFound == IF Careful THEN {TRUE} ELSE BOOLEAN

-----------------------------------------------------------------------------
(* processes::init: nullproc through kthread_create, then the boot thread,  *)
(* which is running and owns no heap-allocated stack.                       *)
Init ==
    /\ status = [p \in Pid |-> CASE p = NULLPROC -> "RUNNABLE"
                                 [] p = MAIN -> "CURR"
                                 [] OTHER -> "NA"]
    /\ priority = [p \in Pid |-> IF p = NULLPROC THEN 0 ELSE 10]
    /\ stackmem = [p \in Pid |-> p = NULLPROC]
    /\ taken = {NULLPROC, MAIN}
    /\ readyList = [p \in Pid |-> IF p = NULLPROC THEN 1 ELSE 0]
    /\ garbage \in CountGarbage
    /\ count = garbage + 1
    /\ currpid = MAIN
    /\ fault = "none"

\* The timer interrupt: timerObserver calls resched().
Tick ==
    /\ fault = "none"
    /\ Resched(status, priority, readyList, count)
    /\ UNCHANGED <<priority, stackmem, taken, garbage>>

\* The first slot that ProcEntryTable::insert finds free.
FreeSlots == {i \in Pid \ taken : \A j \in Pid : j < i => j \in taken}

\* What kthread_create does after ProcEntryTable::insert.
MaybeResched(do_resched, st, pr, rl, c) ==
    IF do_resched
    THEN Resched(st, pr, rl, c)
    ELSE /\ status' = st
         /\ readyList' = rl
         /\ count' = c
         /\ UNCHANGED <<currpid, fault>>

KthreadCreate(prio, start_status, do_resched) ==
    /\ CallerRuns
    /\ \E i \in FreeSlots, found \in StackFound :
          LET pr == [priority EXCEPT ![i] = prio]
              st == [status EXCEPT ![i] = start_status]
              queue == start_status = "RUNNABLE"
          IN  /\ taken' = taken \cup {i}
              /\ priority' = pr
              /\ stackmem' = [stackmem EXCEPT ![i] = found]
              /\ MaybeResched(do_resched, st, pr,
                              IF queue THEN Inserted(readyList, i) ELSE readyList,
                              IF queue THEN count + 1 ELSE count)
    /\ UNCHANGED garbage

\* All slots taken: insert returns -1, the stack just allocated is lost.
KthreadCreateFails(do_resched) ==
    /\ CallerRuns
    /\ FreeSlots = {}
    /\ MaybeResched(do_resched, status, priority, readyList, count)
    /\ UNCHANGED <<priority, stackmem, taken, garbage>>

Ready(id) ==
    /\ CallerRuns
    /\ MayReady(id)
    /\ isvalid(id)
    /\ status[id] # "RUNNABLE"
    /\ count < MaxEntries
    /\ readyList' = Inserted(readyList, id)
    /\ count' = count + 1
    /\ UNCHANGED <<status, priority, stackmem, taken, currpid, fault, garbage>>

\* Slip: suspend() forgets the ready list.
SuspendedListKept(id) == readyList

\* What suspend() leaves of the ready list and of its counter.
SuspendedList(id) ==
    IF status[id] = "RUNNABLE" THEN Erased(readyList, id) ELSE readyList

SuspendedCount(id) ==
    IF status[id] = "RUNNABLE" THEN ErasedCount(readyList, count, id) ELSE count

\* suspend() does not call resched(): a process that suspends itself runs on
\* until the next timer interrupt.
Suspend(id) ==
    /\ CallerRuns
    /\ MaySuspend(id)
    /\ isvalid(id)
    /\ status' = [status EXCEPT ![id] = "SUSPENDED"]
    /\ readyList' = SuspendedList(id)
    /\ count' = SuspendedCount(id)
    /\ UNCHANGED <<priority, stackmem, taken, currpid, fault, garbage>>

\* suspend(), PR_DEAD, release(), resched(); release() frees the stack and
\* does not look whether there is one.
KillEffect(id) ==
    LET st == [status EXCEPT ![id] = "DEAD"] IN
    /\ isvalid(id)
    /\ \/ /\ stackmem[id]
          /\ stackmem' = [stackmem EXCEPT ![id] = FALSE]
          /\ Resched(st, priority, SuspendedList(id), SuspendedCount(id))
       \/ /\ ~ stackmem[id]
          /\ fault' = "freeNull"
          /\ status' = st
          /\ readyList' = SuspendedList(id)
          /\ count' = SuspendedCount(id)
          /\ UNCHANGED <<stackmem, currpid>>
    /\ UNCHANGED <<priority, taken, garbage>>

Kill(id) == CallerRuns /\ MayKill(id) /\ KillEffect(id)

\* A thread function returns into userret: kill(getpid()).  The boot thread
\* was not started by kthread_create and never returns there.
UserRet ==
    /\ CallerRuns
    /\ currpid # MAIN
    /\ MayKill(currpid)
    /\ KillEffect(currpid)

Next ==
    \/ Tick
    \/ \E prio \in Priorities, start_status \in {"RUNNABLE", "SUSPENDED"},
          do_resched \in BOOLEAN : KthreadCreate(prio, start_status, do_resched)
    \/ \E do_resched \in BOOLEAN : KthreadCreateFails(do_resched)
    \/ \E id \in Targets : Ready(id) \/ Suspend(id) \/ Kill(id)
    \/ UserRet

Spec == Init /\ [][Next]_vars

\* The timer keeps firing (timer_install leaves IRQ 0 unmasked for good).
FairSpec == Spec /\ WF_vars(Tick)

-----------------------------------------------------------------------------
(* Properties.                                                             *)

TypeOK ==
    /\ status \in [Pid -> ProcStatus]
    /\ priority \in [Pid -> Int]
    /\ stackmem \in [Pid -> BOOLEAN]
    /\ taken \subseteq Pid
    /\ readyList \in [Pid -> Nat]
    /\ count \in Int
    /\ currpid \in Pid
    /\ fault \in Faults
    /\ garbage \in Int

\* At most one process is PR_CURR, and it is the one currpid names, whatever
\* mixture of creates, suspends, kills and interrupts came before: resched()
\* takes the status from the old process before it gives it to the new one.
OneCurrent == \A p \in Pid : status[p] = "CURR" => p = currpid

\* No runnable process is lost: the ready list holds every PR_RUNNABLE
\* process, although status and list are updated by different functions.
RunnableIsQueued == \A p \in Pid : status[p] = "RUNNABLE" => readyList[p] > 0

\* resched() pops without asking whether the heap is empty.  It finds nothing there
\* only if somebody suspended or killed nullproc, or if nullproc runs and the
\* counter is wrong.
EmptyHeapExplained ==
    fault = "emptyHeap" =>
        \/ status[NULLPROC] \in {"SUSPENDED", "DEAD"}
        \/ currpid = NULLPROC /\ count # 0

\* ReadyList::_count is never initialised, and erase() decrements it once for
\* several entries, so it drifts.  It never falls below what it started with plus
\* the size of the heap: if it did not start negative, the test readyCount() == 0
\* of resched() hides no ready process; if it started at -n, it reads 0 at worst
\* over a heap of n entries.
CountCovers == garbage + Cardinality(Entries(readyList)) <= count

\* nullproc runs only while no process of a positive priority is queued:
\* resched() compares priorities of the table with keys of the heap.
IdleOnlyWhenNothingReady ==
    currpid = NULLPROC => \A p \in Queued(readyList) : priority[p] <= 0

\* Under the contract no operation frees a stack that is not there, and none reads
\* an empty heap unless _count did not start at 0.
NoFault == fault = "none" \/ (fault = "emptyHeap" /\ garbage # 0)

\* ReadyList::_count is off by what it started with, and by nothing else.
CountExact == count = garbage + Cardinality(Entries(readyList))

\* Under the contract a pid is at most once in the ready list, and the process
\* that holds the processor, a dead process and a free slot are not in it.
NoDuplicates ==
    \A p \in Pid : /\ readyList[p] <= 1
                   /\ status[p] \in {"CURR", "DEAD", "NA"} => readyList[p] = 0

\* The running process has its stack: kill() frees the stack of a process only
\* when no path leads back to it.  The boot thread runs on the boot stack.
RunsOnOwnStack == currpid # MAIN => stackmem[currpid]

\* No operation queues a dead process, whoever calls what: ready() answers
\* PROC_NEX ("Failed to resume pid 3 which is correct since it does not exist!",
\* SchedulerTester.h).  An entry from before the kill() may still be there.
DeadNotQueuedAgain ==
    [][\A p \in Pid : status[p] = "DEAD" => readyList'[p] <= readyList[p]]_vars

\* kill() is final: a dead process never gets another status.
DeadStaysDead ==
    [][\A p \in Pid : status[p] = "DEAD" => status'[p] = "DEAD"]_vars

\* A process that suspended itself keeps the processor after suspend() returns,
\* but it loses it or is resumed by a scheduling decision sooner or later.
SuspendedYields ==
    \A p \in Pid :
        (currpid = p /\ status[p] = "SUSPENDED")
            ~> (currpid # p \/ status[p] = "CURR")

\* A queued process of a priority above all others gets the processor unless
\* another process takes it off the list: nobody can keep it out, but a counter
\* that started negative.
TopPreempts ==
    \A p \in Pid :
        (/\ garbage >= 0
         /\ readyList[p] > 0
         /\ \A q \in Pid \ {p} : status[q] # "NA" => priority[q] < priority[p])
            ~> (\/ currpid = p
                \/ readyList[p] = 0
                \/ \E q \in Pid \ {p} : status[q] # "NA" /\ priority[q] >= priority[p])

\* The process table and the ready list agree, without any contract: besides the
\* types, resched() leaves PR_CURR at most to the process that currpid names, and
\* whoever it or kthread_create() marks PR_RUNNABLE is in the ready list, so that
\* no process that may run is forgotten.
TableConsistent == TypeOK /\ OneCurrent /\ RunnableIsQueued

\* resched() pops without looking and relies on nullproc to fall back on: whatever
\* callers ready, suspend and kill, also nullproc, the heap is empty then only if
\* nullproc was suspended or killed or the counter is wrong while nullproc runs.
\* And nullproc runs only while nothing of a positive priority is queued.
IdleFallback == EmptyHeapExplained /\ IdleOnlyWhenNothingReady

\* What callers of ready(), suspend() and kill() that keep the contract can rely
\* on: no kfree(NULL), a pop of an empty heap only if the uninitialised
\* ReadyList::_count was not 0, a counter that is wrong by no more than that, no
\* pid queued twice or dead, and a stack for whoever runs.
ContractSafe == NoFault /\ CountExact /\ NoDuplicates /\ RunsOnOwnStack

=============================================================================
