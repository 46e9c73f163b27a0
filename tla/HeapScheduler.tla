--------------------------- MODULE HeapScheduler ---------------------------
(***************************************************************************)
(* The scheduler with the ready list it really has: the binary heap of     *)
(* containers/queue.h, whose order decides which of several processes of   *)
(* the same priority runs next.  The other state is that of Scheduler; a   *)
(* call of a heap operation is one step, because resched() disables the    *)
(* interrupts and the other operations are modelled as atomic (see module  *)
(* Scheduler).                                                             *)
(***************************************************************************)
EXTENDS Heap, FiniteSets

CONSTANTS MAX_PROC_NUM, Priorities, Targets, CountGarbage, Careful, MaxEntries

VARIABLES status, priority, stackmem, taken, heap, readyCount, currpid, fault, garbage

table == <<priority, stackmem, taken, garbage>>
schedVars == <<status, priority, stackmem, taken, heap, readyCount, currpid, fault, garbage>>

-----------------------------------------------------------------------------
(* priority_queue on its live cells 0 .. Len(h) - 1.                       *)

Length(h) == Cardinality(DOMAIN h)

\* The arrays that a permutation of m can be.
Arrays(m) == [DOMAIN m -> {m[c] : c \in DOMAIN m}]

\* swim(pos): the recursion is that of the code.
swim(m, pos) ==
    LET up[p \in DOMAIN m] ==
          [a \in Arrays(m) |->
             IF SwimStops(a, p) THEN a ELSE up[parent(p)][Swapped(a, p, parent(p))]]
    IN  up[pos][m]

sink(m, pos) ==
    LET n == Length(m)
        down[p \in DOMAIN m] ==
          [a \in Arrays(m) |->
             IF SinkStops(a, n, p) THEN a
             ELSE LET child == SinkChild(a, n, p) IN down[child][Swapped(a, p, child)]]
    IN  down[pos][m]

ReadyInsert(h, kv) ==
    LET n == Length(h) IN swim([c \in 0 .. n |-> IF c < n THEN h[c] ELSE kv], n)

\* Slip: the last element is dropped instead of moved to the root.
ReadyDequeueDropsLast(h) ==
    IF Length(h) = 1 THEN <<>> ELSE sink([c \in 0 .. (Length(h) - 2) |-> h[c]], 0)

\* The heap without its root; sink() of an empty heap does nothing.
ReadyDequeue(h) ==
    LET last == Length(h) - 1 IN
    IF last = 0 THEN <<>>
    ELSE sink([c \in 0 .. (last - 1) |-> IF c = 0 THEN h[last] ELSE h[c]], 0)

\* erase(id): the first c cells that do not hold id, inserted one by one.
ReadyErase(h, id) ==
    LET rebuilt[c \in 0 .. Length(h)] ==
            IF c = 0 THEN <<>>
            ELSE IF h[c - 1].val = id THEN rebuilt[c - 1] ELSE ReadyInsert(rebuilt[c - 1], h[c - 1])
    IN  rebuilt[Length(h)]

\* The ready list as module Scheduler sees it.
Multiplicity(id) == Cardinality({c \in DOMAIN heap : heap[c].val = id})

S == INSTANCE Scheduler
        WITH readyList <- [p \in 0 .. (MAX_PROC_NUM - 1) |-> Multiplicity(p)],
             count <- readyCount

\* The constants are those of Scheduler.
ASSUME HeapSchedulerAssumption == S!ConstantsAssumption

Entry(pr, id) == [key |-> pr[id], val |-> id]

-----------------------------------------------------------------------------
(* resched(), from what the calling operation leaves behind.               *)

\* highestReadyPrio() looks the priority up in the table.
KeepsCpu(st, pr, h, c) ==
    /\ st[currpid] = "CURR"
    /\ c # 0 => h # <<>> /\ pr[currpid] > pr[h[0].val]

\* Slip: a preempted process goes back in front of its equals.
RequeuedFirst(st, pr, h) ==
    IF st[currpid] = "RUNNABLE"
    THEN ReadyInsert(h, [key |-> pr[currpid] + 1, val |-> currpid]) ELSE h

Requeued(st, pr, h) ==
    IF st[currpid] = "RUNNABLE" THEN ReadyInsert(h, Entry(pr, currpid)) ELSE h

Switch(st, pr, h, c) ==
    LET old == S!Preempted(st)
        next == h[0].val
    IN  /\ currpid' = next
        /\ heap' = Requeued(old, pr, ReadyDequeue(h))
        /\ readyCount' = IF old[currpid] = "RUNNABLE" THEN c ELSE c - 1
        /\ status' = [old EXCEPT ![next] = "CURR"]

Leaves(st, h, c) == status' = st /\ heap' = h /\ readyCount' = c /\ UNCHANGED currpid

Resched(st, pr, h, c) ==
    \/ /\ KeepsCpu(st, pr, h, c)
       /\ Leaves(st, h, c)
       /\ UNCHANGED fault
    \/ /\ ~ KeepsCpu(st, pr, h, c)
       /\ h = <<>>
       /\ fault' = "emptyHeap"
       /\ Leaves(st, h, c)
    \/ /\ ~ KeepsCpu(st, pr, h, c)
       /\ h # <<>>
       /\ Switch(st, pr, h, c)
       /\ UNCHANGED fault

-----------------------------------------------------------------------------
SchedInit ==
    /\ heap = [c \in 0 .. 0 |-> [key |-> 0, val |-> S!NULLPROC]]
    /\ S!Init

Tick ==
    /\ fault = "none"
    /\ Resched(status, priority, heap, readyCount)
    /\ UNCHANGED table

MaybeResched(do_resched, st, pr, h, c) ==
    IF do_resched THEN Resched(st, pr, h, c) ELSE Leaves(st, h, c) /\ UNCHANGED fault

KthreadCreate(prio, start_status, do_resched) ==
    /\ S!CallerRuns
    /\ \E i \in S!FreeSlots, found \in S!StackFound :
          LET pr == [priority EXCEPT ![i] = prio]
              queue == start_status = "RUNNABLE"
          IN  /\ taken' = taken \cup {i}
              /\ priority' = pr
              /\ stackmem' = [stackmem EXCEPT ![i] = found]
              /\ MaybeResched(do_resched, [status EXCEPT ![i] = start_status], pr,
                              IF queue THEN ReadyInsert(heap, Entry(pr, i)) ELSE heap,
                              IF queue THEN readyCount + 1 ELSE readyCount)
    /\ UNCHANGED garbage

KthreadCreateFails(do_resched) ==
    /\ S!CallerRuns
    /\ S!FreeSlots = {}
    /\ MaybeResched(do_resched, status, priority, heap, readyCount)
    /\ UNCHANGED table

Ready(id) ==
    /\ S!CallerRuns
    /\ S!MayReady(id)
    /\ S!isvalid(id)
    /\ status[id] # "RUNNABLE"
    /\ readyCount < MaxEntries
    /\ heap' = ReadyInsert(heap, Entry(priority, id))
    /\ readyCount' = readyCount + 1
    /\ UNCHANGED <<status, table, currpid, fault>>

SuspendedHeap(id) == IF status[id] = "RUNNABLE" THEN ReadyErase(heap, id) ELSE heap

Suspend(id) ==
    /\ S!CallerRuns
    /\ S!MaySuspend(id)
    /\ S!isvalid(id)
    /\ Leaves([status EXCEPT ![id] = "SUSPENDED"], SuspendedHeap(id), S!SuspendedCount(id))
    /\ UNCHANGED <<table, fault>>

KillEffect(id) ==
    LET st == [status EXCEPT ![id] = "DEAD"] IN
    /\ S!isvalid(id)
    /\ \/ /\ stackmem[id]
          /\ stackmem' = [stackmem EXCEPT ![id] = FALSE]
          /\ Resched(st, priority, SuspendedHeap(id), S!SuspendedCount(id))
       \/ /\ ~ stackmem[id]
          /\ fault' = "freeNull"
          /\ Leaves(st, SuspendedHeap(id), S!SuspendedCount(id))
          /\ UNCHANGED stackmem
    /\ UNCHANGED <<priority, taken, garbage>>

Kill(id) == S!CallerRuns /\ S!MayKill(id) /\ KillEffect(id)

UserRet(p) ==
    /\ currpid = p
    /\ S!CallerRuns
    /\ p # S!MAIN
    /\ S!MayKill(p)
    /\ KillEffect(p)

SchedNext ==
    \/ Tick
    \/ \E prio \in Priorities, start_status \in {"RUNNABLE", "SUSPENDED"},
          do_resched \in BOOLEAN : KthreadCreate(prio, start_status, do_resched)
    \/ \E do_resched \in BOOLEAN : KthreadCreateFails(do_resched)
    \/ \E id \in Targets : Ready(id) \/ Suspend(id) \/ Kill(id)
    \/ \E p \in S!Pid : UserRet(p)

SchedSpec == SchedInit /\ [][SchedNext]_schedVars

\* The timer keeps firing.
FairSpec == SchedSpec /\ WF_schedVars(Tick)

\* Moreover thread functions are finite, as those of SchedulerTester: one that
\* gets the processor again and again returns in the end.
FiniteThreadsSpec == FairSpec /\ \A p \in S!Pid : SF_schedVars(UserRet(p))

-----------------------------------------------------------------------------
(* Properties.                                                             *)

\* The ready list is a heap whose keys are the priorities of the table, which
\* resched() assumes when it compares a table entry with the root.
ReadyListIsHeap ==
    /\ HeapOrdered(heap, Length(heap))
    /\ \A c \in DOMAIN heap : heap[c].key = priority[heap[c].val]

\* With the heap as its ready list the scheduler is an instance of Scheduler:
\* the root is one of the highest-priority processes, erase() removes what the
\* bag loses, and no entry gets lost in a repair.
RefinesScheduler == S!Spec

\* The waiting loop of SchedulerTester::spawnLots ends: a thread of the priority
\* of the boot thread or above that waits for the processor gets it or is taken
\* off the list, although the heap may pass over it for as long as others of its
\* priority are alive.
SpawnedGetTheirTurn ==
    \A p \in S!Pid \ {S!NULLPROC, S!MAIN} :
        (status[p] = "RUNNABLE" /\ priority[p] >= priority[S!MAIN]) ~> (status[p] # "RUNNABLE")
=============================================================================
