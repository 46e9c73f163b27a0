-------------------------- MODULE SchedulerProofs --------------------------
(***************************************************************************)
(* Proofs about module Scheduler, for every size of the process table,     *)
(* every set of priorities and every behaviour of the callers.             *)
(***************************************************************************)
EXTENDS Scheduler, FiniteSetTheorems, TLAPS

-----------------------------------------------------------------------------
(* The entries of a ready list.                                            *)

\* An entry is a pair of a pid and a number up to the multiplicity of the pid
\* (the key_val pairs that ReadyList::insert puts into the heap).
LEMMA EntriesMember ==
    ASSUME NEW rl \in [Pid -> Nat], NEW p \in Pid, NEW k \in Nat
    PROVE  <<p, k>> \in Entries(rl) <=> k \in 1 .. rl[p]
  BY DEF Entries

\* Every entry is such a pair.
LEMMA EntriesPairs ==
    ASSUME NEW rl \in [Pid -> Nat], NEW e \in Entries(rl)
    PROVE  \E p \in Pid, k \in Nat : e = <<p, k>> /\ k \in 1 .. rl[p]
  BY DEF Entries

\* ReadyList::insert adds one entry.
LEMMA InsertedCount ==
    ASSUME NEW rl \in [Pid -> Nat], NEW id \in Pid, IsFiniteSet(Entries(rl))
    PROVE  /\ Inserted(rl, id) \in [Pid -> Nat]
           /\ IsFiniteSet(Entries(Inserted(rl, id)))
           /\ Cardinality(Entries(Inserted(rl, id))) = Cardinality(Entries(rl)) + 1
  <1> DEFINE new == Inserted(rl, id)
  <1> DEFINE e == <<id, rl[id] + 1>>
  <1>1. new \in [Pid -> Nat] /\ new[id] = rl[id] + 1
                             /\ \A p \in Pid \ {id} : new[p] = rl[p]
    BY DEF Inserted
  <1>2. e \notin Entries(rl)
    BY EntriesMember
  <1>3. Entries(new) = Entries(rl) \cup {e}
    <2> HIDE DEF new
    <2>1. ASSUME NEW x \in Entries(new) PROVE x \in Entries(rl) \cup {e}
      <3>1. PICK p \in Pid, k \in Nat : x = <<p, k>> /\ k \in 1 .. new[p]
        BY <1>1, EntriesPairs
      <3>2. CASE p # id
        BY <3>1, <3>2, <1>1, EntriesMember
      <3>3. CASE p = id
        <4>1. k \in 1 .. rl[id] \/ k = rl[id] + 1
          BY <3>1, <3>3, <1>1
        <4> QED BY <4>1, <3>1, <3>3, EntriesMember
      <3> QED BY <3>2, <3>3
    <2>2. ASSUME NEW x \in Entries(rl) PROVE x \in Entries(new)
      <3>1. PICK p \in Pid, k \in Nat : x = <<p, k>> /\ k \in 1 .. rl[p]
        BY EntriesPairs
      <3>2. k \in 1 .. new[p]
        BY <3>1, <1>1
      <3> QED BY <3>1, <3>2, <1>1, EntriesMember
    <2>3. e \in Entries(new)
      BY <1>1, EntriesMember
    <2> QED BY <2>1, <2>2, <2>3
  <1>4. /\ IsFiniteSet(Entries(rl) \cup {e})
        /\ Cardinality(Entries(rl) \cup {e}) = Cardinality(Entries(rl)) + 1
    BY <1>2, FS_AddElement
  <1> QED BY <1>1, <1>3, <1>4

\* priority_queue::dequeue takes one entry away.
LEMMA PoppedCount ==
    ASSUME NEW rl \in [Pid -> Nat], NEW id \in Pid, rl[id] > 0,
           IsFiniteSet(Entries(rl))
    PROVE  /\ Popped(rl, id) \in [Pid -> Nat]
           /\ IsFiniteSet(Entries(Popped(rl, id)))
           /\ Cardinality(Entries(Popped(rl, id))) = Cardinality(Entries(rl)) - 1
  <1> DEFINE new == Popped(rl, id)
  <1>1. new \in [Pid -> Nat] /\ new[id] = rl[id] - 1
    BY DEF Popped
  <1>2. rl = Inserted(new, id)
    <2>1. \A p \in Pid : Inserted(new, id)[p] = rl[p]
      BY <1>1 DEF Inserted, Popped
    <2> QED BY <2>1, <1>1 DEF Inserted
  <1>3. Entries(new) \subseteq Entries(rl)
    <2> SUFFICES ASSUME NEW x \in Entries(new) PROVE x \in Entries(rl)
      OBVIOUS
    <2>1. PICK p \in Pid, k \in Nat : x = <<p, k>> /\ k \in 1 .. new[p]
      BY <1>1, EntriesPairs
    <2>2. k \in 1 .. rl[p]
      BY <2>1 DEF Popped
    <2> QED BY <2>1, <2>2, EntriesMember
  <1>4. IsFiniteSet(Entries(new))
    BY <1>3, FS_Subset
  <1>5. Cardinality(Entries(rl)) = Cardinality(Entries(new)) + 1
    <2> HIDE DEF new
    <2> QED BY <1>1, <1>2, <1>4, InsertedCount
  <1>6. Cardinality(Entries(new)) \in Nat
    BY <1>4, FS_CardinalityType
  <1> QED BY <1>1, <1>4, <1>5, <1>6

\* priority_queue::erase leaves fewer entries when it finds one, and exactly
\* one fewer when it finds only one.
LEMMA ErasedCounts ==
    ASSUME NEW rl \in [Pid -> Nat], NEW id \in Pid, IsFiniteSet(Entries(rl))
    PROVE  /\ Erased(rl, id) \in [Pid -> Nat]
           /\ IsFiniteSet(Entries(Erased(rl, id)))
           /\ rl[id] = 0 => Erased(rl, id) = rl
           /\ rl[id] = 1 => Cardinality(Entries(Erased(rl, id)))
                                = Cardinality(Entries(rl)) - 1
           /\ rl[id] > 0 => Cardinality(Entries(Erased(rl, id)))
                                <= Cardinality(Entries(rl)) - 1
  <1> DEFINE new == Erased(rl, id)
  <1>1. new \in [Pid -> Nat] /\ new[id] = 0
    BY DEF Erased
  <1>2. rl[id] = 0 => new = rl
    BY DEF Erased
  <1>3. ASSUME rl[id] > 0
        PROVE  /\ Entries(new) \subseteq Entries(Popped(rl, id))
               /\ IsFiniteSet(Entries(new))
               /\ Cardinality(Entries(new)) <= Cardinality(Entries(rl)) - 1
    <2>0. Popped(rl, id) \in [Pid -> Nat] /\ Popped(rl, id)[id] = rl[id] - 1
      BY <1>3 DEF Popped
    <2>1. ASSUME NEW x \in Entries(new) PROVE x \in Entries(Popped(rl, id))
      <3>1. PICK p \in Pid, k \in Nat : x = <<p, k>> /\ k \in 1 .. new[p]
        BY <1>1, EntriesPairs
      <3>2. p # id
        BY <3>1, <1>1
      <3>3. k \in 1 .. Popped(rl, id)[p]
        BY <3>1, <3>2 DEF Popped, Erased
      <3> HIDE DEF new
      <3> QED BY <3>1, <3>3, <2>0, EntriesMember
    <2>2. /\ IsFiniteSet(Entries(Popped(rl, id)))
          /\ Cardinality(Entries(Popped(rl, id))) = Cardinality(Entries(rl)) - 1
      BY <1>3, PoppedCount
    <2>3. /\ IsFiniteSet(Entries(new))
          /\ Cardinality(Entries(new)) <= Cardinality(Entries(Popped(rl, id)))
      <3> HIDE DEF new
      <3> QED BY <2>1, <2>2, FS_Subset
    <2> QED BY <2>1, <2>2, <2>3
  <1>4. ASSUME rl[id] = 1
        PROVE  Cardinality(Entries(new)) = Cardinality(Entries(rl)) - 1
    <2>1. new = Popped(rl, id)
      BY <1>4 DEF Erased, Popped
    <2> QED BY <2>1, <1>4, PoppedCount
  <1>5. rl[id] = 0 \/ rl[id] > 0
    OBVIOUS
  <1> QED BY <1>1, <1>2, <1>3, <1>4, <1>5

-----------------------------------------------------------------------------
(* What holds whatever the callers do.                                     *)

\* The inductive invariant over a table st, priorities pr, a ready list rl and
\* a running process cur.  resched() is called from the middle of kill() and
\* kthread_create(), so the parts are parameters and not the variables.
Sound(st, pr, rl, cur) ==
    /\ st \in [Pid -> ProcStatus]
    /\ pr \in [Pid -> Int]
    /\ rl \in [Pid -> Nat]
    /\ cur \in Pid
    /\ \A p \in Pid : st[p] = "CURR" => p = cur
    /\ \A p \in Pid : st[p] = "RUNNABLE" => rl[p] > 0
    /\ st[NULLPROC] # "NA"
    /\ cur = NULLPROC => st[NULLPROC] = "CURR"
    /\ cur = NULLPROC => \A p \in Queued(rl) : pr[p] <= 0
    /\ pr[NULLPROC] = 0

AnyInv ==
    /\ Sound(status, priority, readyList, currpid)
    /\ stackmem \in [Pid -> BOOLEAN]
    /\ taken \subseteq Pid
    /\ NULLPROC \in taken
    /\ count \in Int
    /\ fault \in Faults
    /\ garbage \in Int
    /\ EmptyHeapExplained

\* nullproc and the boot thread have slots.
LEMMA PidFacts == NULLPROC \in Pid /\ MAIN \in Pid /\ NULLPROC # MAIN
  BY ConstantsAssumption DEF Pid, NULLPROC, MAIN

\* Taking the first entry off the ready list and dispatching it keeps the
\* scheduler state sound (the second half of resched()).
LEMMA SwitchSound ==
    ASSUME NEW st, NEW pr, NEW rl, NEW c \in Int,
           Sound(st, pr, rl, currpid),
           ~ KeepsCpu(st, pr, rl, c),
           Switch(st, pr, rl, c)
    PROVE  Sound(status', pr, readyList', currpid') /\ count' \in Int
  <1> USE PidFacts
  <1> DEFINE old == Preempted(st)
  <1>1. PICK next \in Highest(rl, pr) :
            /\ currpid' = next
            /\ readyList' = Requeued(old, Popped(rl, next))
            /\ count' = IF old[currpid] = "RUNNABLE" THEN c ELSE c - 1
            /\ status' = [old EXCEPT ![next] = "CURR"]
    BY DEF Switch
  <1>2. next \in Pid /\ rl[next] > 0 /\ \A q \in Queued(rl) : pr[q] <= pr[next]
    BY <1>1 DEF Highest, Queued
  <1>3. /\ old \in [Pid -> ProcStatus]
        /\ \A p \in Pid : old[p] # "CURR"
        /\ \A p \in Pid \ {currpid} : old[p] = st[p]
        /\ st[currpid] = "CURR" => old[currpid] = "RUNNABLE"
        /\ st[currpid] # "CURR" => old[currpid] = st[currpid]
    BY DEF Sound, Preempted, ProcStatus
  <1>4. Popped(rl, next) = [rl EXCEPT ![next] = rl[next] - 1]
    BY DEF Popped
  <1>5. /\ readyList' \in [Pid -> Nat]
        /\ \A p \in Pid : readyList'[p] >= Popped(rl, next)[p]
        /\ old[currpid] = "RUNNABLE" => readyList'[currpid] > 0
        /\ \A p \in Pid : p # currpid \/ old[currpid] # "RUNNABLE"
                              => readyList'[p] = Popped(rl, next)[p]
    BY <1>1, <1>2, <1>3, <1>4 DEF Sound, Requeued, Inserted
  <1>6. /\ status' \in [Pid -> ProcStatus]
        /\ status'[next] = "CURR"
        /\ \A p \in Pid \ {next} : status'[p] = old[p]
    BY <1>1, <1>2, <1>3 DEF ProcStatus
  <1>7. \A p \in Pid : status'[p] = "CURR" => p = currpid'
    BY <1>1, <1>3, <1>6
  <1>8. ASSUME NEW p \in Pid, status'[p] = "RUNNABLE" PROVE readyList'[p] > 0
    <2>1. p # next /\ old[p] = "RUNNABLE"
      BY <1>8, <1>6
    <2>2. CASE p = currpid
      BY <2>1, <2>2, <1>5
    <2>3. CASE p # currpid
      <3>1. rl[p] > 0
        BY <2>1, <2>3, <1>3 DEF Sound
      <3>2. readyList'[p] = rl[p]
        BY <2>1, <2>3, <1>2, <1>4, <1>5 DEF Sound
      <3> QED BY <3>1, <3>2
    <2> QED BY <2>2, <2>3
  <1>9. status'[NULLPROC] # "NA"
    BY <1>3, <1>6 DEF Sound
  <1>10. ASSUME currpid' = NULLPROC, NEW p \in Queued(readyList')
         PROVE  pr[p] <= 0
    <2>1. p \in Pid /\ readyList'[p] > 0
      BY <1>10 DEF Queued
    <2>2. next = NULLPROC /\ pr[next] = 0
      BY <1>10, <1>1 DEF Sound
    <2>3. CASE p \in Queued(rl)
      BY <2>2, <2>3, <1>2
    <2>4. CASE p \notin Queued(rl)
      <3>1. Popped(rl, next)[p] = rl[p] \/ p = next
        BY <2>1, <1>4, <1>2 DEF Sound
      <3>2. p # next
        BY <2>4, <1>2 DEF Queued
      <3>3. p = currpid /\ old[currpid] = "RUNNABLE"
        BY <2>1, <2>4, <3>1, <3>2, <1>5 DEF Queued
      <3>4. st[currpid] # "RUNNABLE"
        BY <2>1, <2>4, <3>3 DEF Sound, Queued
      <3>5. st[currpid] = "CURR"
        BY <3>3, <3>4, <1>3
      <3>6. ~ (pr[currpid] > pr[next])
        BY <3>5, <1>1 DEF KeepsCpu
      <3> QED BY <2>2, <3>3, <3>6, <2>1 DEF Sound
    <2> QED BY <2>3, <2>4
  <1>11. currpid' = NULLPROC => status'[NULLPROC] = "CURR"
    BY <1>1, <1>6
  <1>12. count' \in Int
    BY <1>1
  <1>13. pr \in [Pid -> Int] /\ currpid' \in Pid /\ pr[NULLPROC] = 0
    BY <1>1, <1>2 DEF Sound
  <1> QED BY <1>5, <1>6, <1>7, <1>8, <1>9, <1>10, <1>11, <1>12, <1>13 DEF Sound

\* resched() keeps the scheduler state sound, on each of its return paths, and if
\* it finds the heap empty, then nullproc, which would be there otherwise, was
\* suspended or killed, or it is running.
LEMMA ReschedSound ==
    ASSUME NEW st, NEW pr, NEW rl, NEW c \in Int,
           Sound(st, pr, rl, currpid), fault = "none",
           Resched(st, pr, rl, c)
    PROVE  Sound(status', pr, readyList', currpid') /\ count' \in Int
                                                    /\ fault' \in Faults
                                                    /\ EmptyHeapExplained'
  <1>1. CASE /\ KeepsCpu(st, pr, rl, c) /\ status' = st
             /\ readyList' = rl /\ count' = c /\ UNCHANGED <<currpid, fault>>
    BY <1>1 DEF Faults, EmptyHeapExplained
  <1>2. CASE /\ ReadsEmptyHeap(st, rl, c) /\ fault' = "emptyHeap" /\ status' = st
             /\ readyList' = rl /\ count' = c /\ UNCHANGED currpid
    <2>1. rl[NULLPROC] = 0 /\ st[NULLPROC] \in ProcStatus
      BY <1>2, PidFacts DEF ReadsEmptyHeap, Queued, Sound
    <2>2. st[NULLPROC] \in {"CURR", "SUSPENDED", "DEAD"}
      BY <2>1, PidFacts DEF Sound, ProcStatus
    <2>3. st[NULLPROC] = "CURR" => currpid = NULLPROC /\ c # 0
      BY <1>2, PidFacts DEF ReadsEmptyHeap, Sound
    <2> QED BY <1>2, <2>2, <2>3 DEF Faults, EmptyHeapExplained
  <1>3. CASE /\ ~ KeepsCpu(st, pr, rl, c) /\ Switch(st, pr, rl, c)
             /\ UNCHANGED fault
    BY <1>3, SwitchSound DEF Faults, EmptyHeapExplained
  <1> QED BY <1>1, <1>2, <1>3 DEF Resched

\* What suspend() and kill() do to the table and the list before any resched().
LEMMA StoppedSound ==
    ASSUME AnyInv, NEW id \in Pid, currpid # NULLPROC,
           NEW s \in {"SUSPENDED", "DEAD"}
    PROVE  /\ Sound([status EXCEPT ![id] = s], priority, SuspendedList(id), currpid)
           /\ SuspendedCount(id) \in Int
  <1> USE PidFacts
  <1>1. SuspendedList(id) \in [Pid -> Nat]
        /\ \A p \in Pid \ {id} : SuspendedList(id)[p] = readyList[p]
    BY DEF SuspendedList, Erased, AnyInv, Sound
  <1>2. SuspendedCount(id) \in Int
    BY DEF SuspendedCount, ErasedCount, AnyInv
  <1> DEFINE st == [status EXCEPT ![id] = s]
  <1>3. st \in [Pid -> ProcStatus] /\ st[id] = s
        /\ \A p \in Pid \ {id} : st[p] = status[p]
    BY DEF AnyInv, Sound, ProcStatus
  <1>4. Sound(st, priority, SuspendedList(id), currpid)
    <2> HIDE DEF st
    <2> QED BY <1>1, <1>3 DEF AnyInv, Sound
  <1> QED BY <1>2, <1>4

\* processes::init establishes the invariant.
LEMMA InitAny == Init => AnyInv
  <1> SUFFICES ASSUME Init PROVE AnyInv
    OBVIOUS
  <1> USE PidFacts
  <1>1. count \in Int /\ garbage \in Int /\ EmptyHeapExplained
    BY ConstantsAssumption DEF Init, EmptyHeapExplained
  <1>2. /\ status \in [Pid -> ProcStatus] /\ status[NULLPROC] = "RUNNABLE"
        /\ \A p \in Pid : status[p] = "CURR" => p = MAIN
        /\ \A p \in Pid : status[p] = "RUNNABLE" => p = NULLPROC
    BY DEF Init, ProcStatus
  <1>3. /\ priority \in [Pid -> Int] /\ priority[NULLPROC] = 0
        /\ readyList \in [Pid -> Nat] /\ readyList[NULLPROC] = 1
    BY DEF Init
  <1>4. currpid = MAIN /\ fault \in Faults /\ stackmem \in [Pid -> BOOLEAN]
        /\ taken \subseteq Pid /\ NULLPROC \in taken
    BY DEF Init, Faults
  <1> QED BY <1>1, <1>2, <1>3, <1>4 DEF AnyInv, Sound

\* The state kthread_create() hands to resched(): a new entry in slot i.
LEMMA CreatedSound ==
    ASSUME AnyInv, currpid # NULLPROC, NEW i \in FreeSlots, NEW prio \in Priorities,
           NEW s \in {"RUNNABLE", "SUSPENDED"}, NEW rl,
           rl = IF s = "RUNNABLE" THEN Inserted(readyList, i) ELSE readyList
    PROVE  Sound([status EXCEPT ![i] = s], [priority EXCEPT ![i] = prio], rl, currpid)
  <1> USE PidFacts
  <1>1. i \in Pid /\ i # NULLPROC /\ prio \in Int
    BY ConstantsAssumption DEF FreeSlots, AnyInv
  <1>2. rl \in [Pid -> Nat] /\ \A p \in Pid : rl[p] >= readyList[p]
    BY <1>1 DEF AnyInv, Sound, Inserted
  <1>3. s = "RUNNABLE" => rl[i] > 0
    BY <1>1 DEF AnyInv, Sound, Inserted
  <1> DEFINE st == [status EXCEPT ![i] = s]
  <1> DEFINE pr == [priority EXCEPT ![i] = prio]
  <1>4. st \in [Pid -> ProcStatus] /\ st[i] = s
        /\ \A p \in Pid \ {i} : st[p] = status[p]
    BY <1>1 DEF AnyInv, Sound, ProcStatus
  <1>5. pr \in [Pid -> Int] /\ pr[NULLPROC] = 0
    BY <1>1 DEF AnyInv, Sound
  <1> HIDE DEF st, pr
  <1>6. \A p \in Pid : st[p] = "CURR" => p = currpid
    BY <1>4 DEF AnyInv, Sound
  <1>7. \A p \in Pid : st[p] = "RUNNABLE" => rl[p] > 0
    BY <1>2, <1>3, <1>4 DEF AnyInv, Sound
  <1>8. Sound(st, pr, rl, currpid)
    BY <1>2, <1>4, <1>5, <1>6, <1>7 DEF AnyInv, Sound
  <1> QED BY <1>8 DEF st, pr

\* Every operation and every timer interrupt preserves the invariant.
LEMMA NextAny == AnyInv /\ [Next]_vars => AnyInv'
  <1> SUFFICES ASSUME AnyInv, [Next]_vars PROVE AnyInv'
    OBVIOUS
  <1> USE PidFacts
  <1>1. CASE Tick
    BY <1>1, ReschedSound DEF Tick, AnyInv
  <1>2. ASSUME NEW prio \in Priorities, NEW s \in {"RUNNABLE", "SUSPENDED"},
               NEW r \in BOOLEAN, KthreadCreate(prio, s, r)
        PROVE  AnyInv'
    <2> DEFINE queue == s = "RUNNABLE"
    <2> DEFINE rl(i) == IF queue THEN Inserted(readyList, i) ELSE readyList
    <2> DEFINE c == IF queue THEN count + 1 ELSE count
    <2>1. PICK i \in FreeSlots, found \in StackFound :
              /\ taken' = taken \cup {i}
              /\ priority' = [priority EXCEPT ![i] = prio]
              /\ stackmem' = [stackmem EXCEPT ![i] = found]
              /\ MaybeResched(r, [status EXCEPT ![i] = s],
                              [priority EXCEPT ![i] = prio], rl(i), c)
      BY <1>2 DEF KthreadCreate
    <2>2. /\ Sound([status EXCEPT ![i] = s], priority', rl(i), currpid)
          /\ fault = "none" /\ garbage' = garbage
      BY <1>2, <2>1, CreatedSound DEF KthreadCreate, CallerRuns
    <2>3. c \in Int
      BY DEF AnyInv
    <2> HIDE DEF rl, c, queue
    <2>4. Sound(status', priority', readyList', currpid') /\ count' \in Int
                                                         /\ fault' \in Faults
                                                         /\ EmptyHeapExplained'
      <3>1. CASE r
        BY <3>1, <2>1, <2>2, <2>3, ReschedSound DEF MaybeResched, AnyInv
      <3>2. CASE ~ r
        BY <3>2, <2>1, <2>2, <2>3 DEF MaybeResched, AnyInv, EmptyHeapExplained
      <3> QED BY <3>1, <3>2
    <2>5. i \in Pid /\ stackmem' \in [Pid -> BOOLEAN] /\ taken' \subseteq Pid
      BY <2>1 DEF FreeSlots, StackFound, AnyInv
    <2> QED BY <2>1, <2>2, <2>4, <2>5 DEF AnyInv
  <1>3. ASSUME NEW r \in BOOLEAN, KthreadCreateFails(r) PROVE AnyInv'
    <2>1. CASE r
      BY <1>3, <2>1, ReschedSound DEF KthreadCreateFails, CallerRuns, MaybeResched, AnyInv
    <2>2. CASE ~ r
      BY <1>3, <2>2 DEF KthreadCreateFails, CallerRuns, MaybeResched, AnyInv, EmptyHeapExplained
    <2> QED BY <2>1, <2>2
  <1>4. ASSUME NEW id \in Targets, Ready(id) PROVE AnyInv'
    <2>1. id \in Pid
      BY ConstantsAssumption
    <2>2. /\ readyList' \in [Pid -> Nat]
          /\ \A p \in Pid : readyList'[p] >= readyList[p]
      BY <1>4, <2>1 DEF Ready, Inserted, AnyInv, Sound
    <2>3. Sound(status', priority', readyList', currpid')
      BY <1>4, <2>2 DEF Ready, CallerRuns, AnyInv, Sound
    <2> QED BY <1>4, <2>3 DEF Ready, CallerRuns, AnyInv, EmptyHeapExplained
  <1>5. ASSUME NEW id \in Targets, Suspend(id) PROVE AnyInv'
    <2>1. id \in Pid
      BY ConstantsAssumption
    <2> QED BY <1>5, <2>1, StoppedSound DEF Suspend, CallerRuns, AnyInv, EmptyHeapExplained
  <1>6. ASSUME NEW id \in Pid, CallerRuns, KillEffect(id)
        PROVE  AnyInv'
    <2> DEFINE st == [status EXCEPT ![id] = "DEAD"]
    <2>1. /\ Sound(st, priority, SuspendedList(id), currpid)
          /\ SuspendedCount(id) \in Int
      BY <1>6, StoppedSound DEF CallerRuns
    <2>2. CASE /\ stackmem' = [stackmem EXCEPT ![id] = FALSE]
               /\ Resched(st, priority, SuspendedList(id), SuspendedCount(id))
               /\ UNCHANGED <<priority, taken, garbage>>
      <3> HIDE DEF st
      <3> QED BY <1>6, <2>1, <2>2, ReschedSound DEF CallerRuns, AnyInv
    <2>3. CASE /\ fault' = "freeNull" /\ status' = st
               /\ readyList' = SuspendedList(id) /\ count' = SuspendedCount(id)
               /\ UNCHANGED <<stackmem, currpid, priority, taken, garbage>>
      <3> HIDE DEF st
      <3> QED BY <2>1, <2>3 DEF AnyInv, Faults, EmptyHeapExplained
    <2> QED BY <1>6, <2>2, <2>3 DEF KillEffect
  <1>7. CASE \E id \in Targets : Kill(id)
    BY <1>6, <1>7, ConstantsAssumption DEF Kill
  <1>8. CASE UserRet
    BY <1>6, <1>8 DEF UserRet, CallerRuns, AnyInv, Sound
  <1>9. CASE UNCHANGED vars
    BY <1>9 DEF vars, AnyInv, EmptyHeapExplained
  <1> QED BY <1>1, <1>2, <1>3, <1>4, <1>5, <1>7, <1>8, <1>9 DEF Next

\* The invariant holds for every behaviour of the callers.
THEOREM AnyInvariant == Spec => []AnyInv
  BY InitAny, NextAny, PTL DEF Spec

\* Type correctness of the process table, the ready list and the scheduler.
THEOREM TypeCorrect == Spec => []TypeOK
  <1>1. AnyInv => TypeOK
    BY DEF AnyInv, Sound, TypeOK
  <1> QED BY <1>1, AnyInvariant, PTL

\* Whatever the callers do, at most the process named by currpid is PR_CURR,
\* and every PR_RUNNABLE process is in the ready list.
THEOREM StatusAgreesWithList == Spec => []TableConsistent
  <1>1. AnyInv => TypeOK
    BY DEF AnyInv, Sound, TypeOK
  <1>2. AnyInv => OneCurrent /\ RunnableIsQueued
    BY DEF AnyInv, Sound, OneCurrent, RunnableIsQueued
  <1>3. AnyInv => TableConsistent
    BY <1>1, <1>2 DEF TableConsistent
  <1> QED BY <1>3, AnyInvariant, PTL

\* Whatever the callers do, nullproc included, resched() pops an empty heap only if
\* somebody suspended or killed nullproc, or if nullproc runs and the counter is
\* wrong; and nullproc runs only while nothing of a positive priority is queued.
THEOREM IdleProcess == Spec => []IdleFallback
  <1>1. AnyInv => IdleFallback
    BY DEF AnyInv, Sound, IdleOnlyWhenNothingReady, IdleFallback
  <1> QED BY <1>1, AnyInvariant, PTL

-----------------------------------------------------------------------------
(* The counter of the ready list.                                          *)

\* What _count started with is never touched again.
LEMMA GarbageStays == [Next]_vars => garbage' = garbage
  BY DEF Next, vars, Tick, KthreadCreate, KthreadCreateFails, Ready, Suspend, Kill,
         UserRet, KillEffect

\* Beside what the counter started with, the heap holds at most c entries.
Covered(rl, c) ==
    /\ IsFiniteSet(Entries(rl))
    /\ garbage + Cardinality(Entries(rl)) <= c

\* After processes::init the ready list holds one entry, that of nullproc.
LEMMA InitEntries ==
    Init => IsFiniteSet(Entries(readyList)) /\ Cardinality(Entries(readyList)) = 1
  <1> SUFFICES ASSUME Init
               PROVE  IsFiniteSet(Entries(readyList)) /\ Cardinality(Entries(readyList)) = 1
    OBVIOUS
  <1> USE PidFacts
  <1>1. readyList \in [Pid -> Nat] /\ readyList[NULLPROC] = 1
        /\ \A p \in Pid \ {NULLPROC} : readyList[p] = 0
    BY DEF Init
  <1>2. Entries(readyList) = {<<NULLPROC, 1>>}
    <2>1. <<NULLPROC, 1>> \in Entries(readyList)
      BY <1>1, EntriesMember
    <2>2. ASSUME NEW x \in Entries(readyList) PROVE x = <<NULLPROC, 1>>
      <3>1. PICK p \in Pid, k \in Nat : x = <<p, k>> /\ k \in 1 .. readyList[p]
        BY <1>1, EntriesPairs
      <3> QED BY <3>1, <1>1
    <2> QED BY <2>1, <2>2
  <1> QED BY <1>2, FS_Singleton

\* resched() pops one entry and puts one back, or pops one and decrements the
\* counter: it never makes the counter fall below the heap.
LEMMA ReschedCovered ==
    ASSUME NEW st, NEW pr, NEW rl, NEW c \in Int, garbage \in Int,
           Sound(st, pr, rl, currpid), Covered(rl, c), Resched(st, pr, rl, c)
    PROVE  Covered(readyList', count')
  <1>1. CASE readyList' = rl /\ count' = c
    BY <1>1
  <1>2. CASE Switch(st, pr, rl, c)
    <2> DEFINE old == Preempted(st)
    <2>1. PICK next \in Highest(rl, pr) :
              /\ readyList' = Requeued(old, Popped(rl, next))
              /\ count' = IF old[currpid] = "RUNNABLE" THEN c ELSE c - 1
      BY <1>2 DEF Switch
    <2>2. next \in Pid /\ rl[next] > 0 /\ rl \in [Pid -> Nat] /\ currpid \in Pid
      BY <2>1 DEF Highest, Queued, Sound
    <2>3. /\ Popped(rl, next) \in [Pid -> Nat]
          /\ IsFiniteSet(Entries(Popped(rl, next)))
          /\ Cardinality(Entries(Popped(rl, next))) = Cardinality(Entries(rl)) - 1
      BY <2>2, PoppedCount DEF Covered
    <2>4. Cardinality(Entries(rl)) \in Nat
      BY FS_CardinalityType DEF Covered
    <2>5. CASE old[currpid] = "RUNNABLE"
      <3>1. /\ IsFiniteSet(Entries(readyList'))
            /\ Cardinality(Entries(readyList'))
                 = Cardinality(Entries(Popped(rl, next))) + 1
        BY <2>1, <2>2, <2>3, <2>5, InsertedCount DEF Requeued
      <3> QED BY <3>1, <2>1, <2>3, <2>4, <2>5 DEF Covered
    <2>6. CASE old[currpid] # "RUNNABLE"
      BY <2>1, <2>3, <2>4, <2>6 DEF Requeued, Covered
    <2> QED BY <2>5, <2>6
  <1> QED BY <1>1, <1>2 DEF Resched

\* suspend() and kill() remove at least as many entries as they subtract.
LEMMA StoppedCovered ==
    ASSUME AnyInv, NEW id \in Pid, Covered(readyList, count)
    PROVE  Covered(SuspendedList(id), SuspendedCount(id))
  <1>1. readyList \in [Pid -> Nat] /\ count \in Int /\ garbage \in Int
    BY DEF AnyInv, Sound
  <1>2. Cardinality(Entries(readyList)) \in Nat
    BY FS_CardinalityType DEF Covered
  <1>3. /\ IsFiniteSet(Entries(Erased(readyList, id)))
        /\ readyList[id] = 0 => Erased(readyList, id) = readyList
        /\ readyList[id] > 0 => Cardinality(Entries(Erased(readyList, id)))
                                   <= Cardinality(Entries(readyList)) - 1
    BY <1>1, ErasedCounts DEF Covered
  <1>4. Cardinality(Entries(Erased(readyList, id))) \in Nat
    BY <1>3, FS_CardinalityType
  <1>5. CASE readyList[id] > 0
    BY <1>1, <1>2, <1>3, <1>4, <1>5 DEF Covered, SuspendedList, SuspendedCount, ErasedCount
  <1>6. CASE readyList[id] = 0
    BY <1>1, <1>3, <1>6 DEF Covered, SuspendedList, SuspendedCount, ErasedCount
  <1> QED BY <1>1, <1>5, <1>6

\* One more entry, one more on the counter.
LEMMA InsertedCovered ==
    ASSUME NEW rl \in [Pid -> Nat], NEW id \in Pid, NEW c \in Int, Covered(rl, c),
           garbage \in Int
    PROVE  Covered(Inserted(rl, id), c + 1)
  BY InsertedCount, FS_CardinalityType DEF Covered

\* Every step keeps the counter at or above the size of the heap.
LEMMA NextCovered ==
    AnyInv /\ Covered(readyList, count) /\ [Next]_vars => Covered(readyList', count')
  <1> SUFFICES ASSUME AnyInv, Covered(readyList, count), [Next]_vars
               PROVE  Covered(readyList', count')
    OBVIOUS
  <1>0. /\ Sound(status, priority, readyList, currpid)
        /\ readyList \in [Pid -> Nat] /\ count \in Int /\ garbage \in Int
    BY DEF AnyInv, Sound
  <1>1. CASE Tick
    BY <1>0, <1>1, ReschedCovered DEF Tick
  <1>2. ASSUME NEW prio \in Priorities, NEW s \in {"RUNNABLE", "SUSPENDED"},
               NEW r \in BOOLEAN, KthreadCreate(prio, s, r)
        PROVE  Covered(readyList', count')
    <2> DEFINE queue == s = "RUNNABLE"
    <2> DEFINE rl(i) == IF queue THEN Inserted(readyList, i) ELSE readyList
    <2> DEFINE c == IF queue THEN count + 1 ELSE count
    <2>1. PICK i \in FreeSlots :
              MaybeResched(r, [status EXCEPT ![i] = s],
                           [priority EXCEPT ![i] = prio], rl(i), c)
      BY <1>2 DEF KthreadCreate
    <2>2. Sound([status EXCEPT ![i] = s], [priority EXCEPT ![i] = prio], rl(i), currpid)
      BY <1>2, <2>1, CreatedSound DEF KthreadCreate, CallerRuns
    <2>3. i \in Pid /\ c \in Int
      BY <1>0 DEF FreeSlots
    <2>4. Covered(rl(i), c)
      BY <1>0, <2>3, InsertedCovered
    <2> HIDE DEF rl, c, queue
    <2>5. CASE r
      BY <1>0, <2>1, <2>2, <2>3, <2>4, <2>5, ReschedCovered DEF MaybeResched
    <2>6. CASE ~ r
      BY <2>1, <2>4, <2>6 DEF MaybeResched
    <2> QED BY <2>5, <2>6
  <1>3. ASSUME NEW r \in BOOLEAN, KthreadCreateFails(r) PROVE Covered(readyList', count')
    BY <1>0, <1>3, ReschedCovered DEF KthreadCreateFails, MaybeResched
  <1>4. ASSUME NEW id \in Targets, Ready(id) PROVE Covered(readyList', count')
    BY <1>0, <1>4, InsertedCovered, ConstantsAssumption DEF Ready
  <1>5. ASSUME NEW id \in Targets, Suspend(id) PROVE Covered(readyList', count')
    BY <1>5, StoppedCovered, ConstantsAssumption DEF Suspend
  <1>6. ASSUME NEW id \in Pid, CallerRuns, KillEffect(id)
        PROVE  Covered(readyList', count')
    <2>1. /\ Sound([status EXCEPT ![id] = "DEAD"], priority, SuspendedList(id), currpid)
          /\ SuspendedCount(id) \in Int
          /\ Covered(SuspendedList(id), SuspendedCount(id))
      BY <1>6, StoppedSound, StoppedCovered DEF CallerRuns
    <2>2. CASE Resched([status EXCEPT ![id] = "DEAD"], priority,
                       SuspendedList(id), SuspendedCount(id))
      BY <1>0, <2>1, <2>2, ReschedCovered
    <2>3. CASE readyList' = SuspendedList(id) /\ count' = SuspendedCount(id)
      BY <2>1, <2>3
    <2> QED BY <1>6, <2>2, <2>3 DEF KillEffect
  <1>7. CASE \E id \in Targets : Kill(id)
    BY <1>6, <1>7, ConstantsAssumption DEF Kill
  <1>8. CASE UserRet
    BY <1>6, <1>8 DEF UserRet, CallerRuns, AnyInv, Sound
  <1>9. CASE UNCHANGED vars
    BY <1>9 DEF vars
  <1> QED BY <1>1, <1>2, <1>3, <1>4, <1>5, <1>7, <1>8, <1>9 DEF Next

\* Whatever the uninitialised ReadyList::_count started with and whatever the callers
\* do, it never falls further below the size of the heap than it started.
THEOREM CountNeverHides == Spec => []CountCovers
  <1>1. Init => Covered(readyList, count)
    BY InitEntries, ConstantsAssumption DEF Covered, Init
  <1>2. AnyInv /\ Covered(readyList, count) /\ [Next]_vars => Covered(readyList, count)'
    BY NextCovered, GarbageStays DEF Covered
  <1>3. Covered(readyList, count) => CountCovers
    BY DEF Covered, CountCovers
  <1> QED BY <1>1, <1>2, <1>3, AnyInvariant, PTL DEF Spec

-----------------------------------------------------------------------------
(* What holds when the callers keep the contract.                          *)

Live == {"CURR", "RUNNABLE", "SUSPENDED"}

\* The ready list is a set of processes that may run, and what may run has a
\* stack.
Disciplined(st, rl, stk, tk) ==
    /\ \A p \in Pid : rl[p] <= 1
    /\ \A p \in Pid : st[p] \in {"CURR", "DEAD", "NA"} => rl[p] = 0
    /\ \A p \in Pid \ {MAIN} : st[p] \in Live => stk[p]
    /\ \A p \in Pid \ tk : st[p] = "NA"
    /\ st[NULLPROC] \in {"CURR", "RUNNABLE"}

Exact(rl, c) ==
    /\ IsFiniteSet(Entries(rl))
    /\ c = garbage + Cardinality(Entries(rl))

CarefulInv ==
    /\ Disciplined(status, readyList, stackmem, taken)
    /\ Exact(readyList, count)
    /\ status[currpid] \in {"CURR", "SUSPENDED"}
    /\ NoFault

\* resched() under the contract: it finds somebody to run, whom it may run, unless
\* the counter started wrong, and no dead process comes back.
LEMMA ReschedCareful ==
    ASSUME NEW st, NEW pr, NEW rl, NEW c, NEW stk, NEW tk, garbage \in Int,
           Sound(st, pr, rl, currpid), Disciplined(st, rl, stk, tk), Exact(rl, c),
           st[currpid] \in {"CURR", "SUSPENDED", "DEAD"}, fault = "none",
           Resched(st, pr, rl, c)
    PROVE  /\ Disciplined(status', readyList', stk, tk)
           /\ Exact(readyList', count')
           /\ status'[currpid'] \in {"CURR", "SUSPENDED"}
           /\ fault' = "none" \/ (fault' = "emptyHeap" /\ garbage # 0)
           /\ \A p \in Pid : st[p] = "DEAD" => status'[p] = "DEAD"
  <1> USE PidFacts
  <1>0. /\ rl \in [Pid -> Nat] /\ currpid \in Pid /\ st \in [Pid -> ProcStatus]
        /\ c \in Int /\ Cardinality(Entries(rl)) \in Nat
    BY FS_CardinalityType DEF Sound, Exact
  <1>1. CASE /\ KeepsCpu(st, pr, rl, c) /\ status' = st /\ readyList' = rl
             /\ count' = c /\ UNCHANGED <<currpid, fault>>
    BY <1>1 DEF KeepsCpu
  <1>2. CASE /\ ReadsEmptyHeap(st, rl, c) /\ fault' = "emptyHeap" /\ status' = st
             /\ readyList' = rl /\ count' = c /\ UNCHANGED currpid
    <2>1. \A p \in Pid : rl[p] = 0
      BY <1>0, <1>2 DEF Queued, ReadsEmptyHeap
    <2>2. st[NULLPROC] = "CURR"
      BY <2>1 DEF Disciplined, Sound
    <2>3. st[currpid] = "CURR" /\ c # 0
      BY <1>2, <2>2 DEF Sound, ReadsEmptyHeap
    <2>4. Entries(rl) = {}
      BY <2>1, <1>0, EntriesPairs
    <2>5. garbage # 0
      BY <2>3, <2>4, FS_EmptySet DEF Exact
    <2> QED BY <1>2, <2>3, <2>5
  <1>3. CASE /\ ~ KeepsCpu(st, pr, rl, c) /\ Switch(st, pr, rl, c)
             /\ UNCHANGED fault
    <2> DEFINE old == Preempted(st)
    <2>1. PICK next \in Highest(rl, pr) :
              /\ currpid' = next
              /\ readyList' = Requeued(old, Popped(rl, next))
              /\ count' = IF old[currpid] = "RUNNABLE" THEN c ELSE c - 1
              /\ status' = [old EXCEPT ![next] = "CURR"]
      BY <1>3 DEF Switch
    <2>2. next \in Pid /\ rl[next] = 1 /\ st[next] \in {"RUNNABLE", "SUSPENDED"}
      BY <2>1, <1>0 DEF Highest, Queued, Disciplined, ProcStatus
    <2>3. /\ old \in [Pid -> ProcStatus]
          /\ \A p \in Pid \ {currpid} : old[p] = st[p]
          /\ st[currpid] = "CURR" => old[currpid] = "RUNNABLE"
          /\ st[currpid] # "CURR" => old[currpid] = st[currpid]
      BY <1>0 DEF Preempted, ProcStatus
    <2>4. /\ Popped(rl, next) \in [Pid -> Nat]
          /\ IsFiniteSet(Entries(Popped(rl, next)))
          /\ garbage + Cardinality(Entries(Popped(rl, next))) = c - 1
          /\ Cardinality(Entries(Popped(rl, next))) \in Int
          /\ Popped(rl, next)[next] = 0
          /\ \A p \in Pid \ {next} : Popped(rl, next)[p] = rl[p]
      <3>1. /\ Popped(rl, next)[next] = 0
            /\ \A p \in Pid \ {next} : Popped(rl, next)[p] = rl[p]
        BY <1>0, <2>2 DEF Popped
      <3> QED BY <3>1, <1>0, <2>2, PoppedCount DEF Exact
    <2>5. /\ status'[next] = "CURR"
          /\ \A p \in Pid \ {next} : status'[p] = old[p]
      BY <2>1, <2>2, <2>3
    <2>6. CASE st[currpid] = "CURR"
      <3>1. rl[currpid] = 0 /\ next # currpid /\ old[currpid] = "RUNNABLE"
        BY <2>2, <2>3, <2>6, <1>0 DEF Disciplined
      <3>2. /\ readyList'[currpid] = 1
            /\ \A p \in Pid \ {currpid} : readyList'[p] = Popped(rl, next)[p]
        BY <3>1, <2>1, <2>4, <1>0 DEF Requeued, Inserted
      <3>3. Exact(readyList', count')
        BY <3>1, <2>1, <2>4, <1>0, InsertedCount DEF Requeued, Exact
      <3>4. Disciplined(status', readyList', stk, tk)
        BY <3>1, <3>2, <2>2, <2>3, <2>4, <2>5, <2>6, <1>0 DEF Disciplined, Live
      <3> QED BY <3>1, <3>3, <3>4, <2>1, <2>2, <2>3, <2>5, <1>3
    <2>7. CASE st[currpid] # "CURR"
      <3>1. old[currpid] = st[currpid] /\ old[currpid] # "RUNNABLE"
        BY <2>3, <2>7
      <3>2. readyList' = Popped(rl, next) /\ count' = c - 1
        BY <3>1, <2>1 DEF Requeued
      <3>3. Disciplined(status', readyList', stk, tk)
        BY <3>1, <3>2, <2>2, <2>3, <2>4, <2>5, <1>0 DEF Disciplined, Live
      <3>4. Exact(readyList', count')
        BY <3>2, <2>4 DEF Exact
      <3> QED BY <3>1, <3>3, <3>4, <2>1, <2>2, <2>3, <2>5, <1>3
    <2> QED BY <2>6, <2>7
  <1> QED BY <1>1, <1>2, <1>3 DEF Resched

\* suspend() and kill() of a process that is not pending take its one entry, if
\* it has one, off the list and off the counter.
LEMMA StoppedCareful ==
    ASSUME AnyInv, CarefulInv, NEW id \in Pid \ {NULLPROC}, ~ Pending(id), isvalid(id),
           NEW s \in {"SUSPENDED", "DEAD"}, NEW stk \in [Pid -> BOOLEAN],
           \A p \in Pid \ {id} : stk[p] = stackmem[p],
           s = "SUSPENDED" => stk[id] = stackmem[id]
    PROVE  /\ Disciplined([status EXCEPT ![id] = s], SuspendedList(id), stk, taken)
           /\ Exact(SuspendedList(id), SuspendedCount(id))
  <1>0. /\ readyList \in [Pid -> Nat] /\ status \in [Pid -> ProcStatus] /\ garbage \in Int
        /\ Cardinality(Entries(readyList)) \in Nat
    BY FS_CardinalityType DEF AnyInv, Sound, CarefulInv, Exact
  <1>1. /\ SuspendedList(id) \in [Pid -> Nat] /\ SuspendedList(id)[id] = 0
        /\ \A p \in Pid \ {id} : SuspendedList(id)[p] = readyList[p]
    BY <1>0 DEF SuspendedList, Erased, Pending, isvalid, CarefulInv, Disciplined
  <1>2. Exact(SuspendedList(id), SuspendedCount(id))
    <2>1. CASE status[id] = "RUNNABLE"
      <3>1. readyList[id] = 1
        BY <1>0, <2>1 DEF AnyInv, Sound, CarefulInv, Disciplined
      <3> QED BY <3>1, <2>1, <1>0, ErasedCounts
              DEF SuspendedList, SuspendedCount, ErasedCount, Exact, CarefulInv
    <2>2. CASE status[id] # "RUNNABLE"
      BY <2>2 DEF SuspendedList, SuspendedCount, CarefulInv
    <2> QED BY <2>1, <2>2
  <1> DEFINE st == [status EXCEPT ![id] = s]
  <1>3. /\ st[id] = s /\ \A p \in Pid \ {id} : st[p] = status[p]
    BY <1>0
  <1>4. id \in taken
    BY DEF isvalid, CarefulInv, Disciplined
  <1>5. ~ (st[id] = "DEAD") => stk[id] = stackmem[id] /\ status[id] \in Live
    BY <1>3 DEF isvalid, Live
  <1> HIDE DEF st
  <1>6. Disciplined(st, SuspendedList(id), stk, taken)
    BY <1>0, <1>1, <1>3, <1>4, <1>5, PidFacts DEF CarefulInv, Disciplined, Live
  <1> QED BY <1>2, <1>6 DEF st

\* Every step of callers that keep the contract preserves the invariant and
\* leaves the dead dead.
LEMMA NextCareful ==
    ASSUME Careful, AnyInv, CarefulInv, [Next]_vars
    PROVE  /\ CarefulInv'
           /\ \A p \in Pid : status[p] = "DEAD" => status'[p] = "DEAD"
  <1> DEFINE Goal == /\ CarefulInv'
                     /\ \A p \in Pid : status[p] = "DEAD" => status'[p] = "DEAD"
  <1> USE PidFacts
  <1>0. /\ Sound(status, priority, readyList, currpid)
        /\ readyList \in [Pid -> Nat] /\ status \in [Pid -> ProcStatus]
        /\ stackmem \in [Pid -> BOOLEAN] /\ currpid \in Pid
        /\ garbage \in Int /\ garbage' = garbage
        /\ Cardinality(Entries(readyList)) \in Nat
    BY GarbageStays, FS_CardinalityType DEF AnyInv, Sound, CarefulInv, Exact
  <1>1. CASE Tick
    <2>1. Resched(status, priority, readyList, count) /\ fault = "none"
          /\ stackmem' = stackmem /\ taken' = taken
      BY <1>1 DEF Tick
    <2> QED BY <1>0, <2>1, ReschedCareful DEF CarefulInv, NoFault, Exact
  <1>2. ASSUME NEW prio \in Priorities, NEW s \in {"RUNNABLE", "SUSPENDED"},
               NEW r \in BOOLEAN, KthreadCreate(prio, s, r)
        PROVE  Goal
    <2> DEFINE queue == s = "RUNNABLE"
    <2> DEFINE rl(i) == IF queue THEN Inserted(readyList, i) ELSE readyList
    <2> DEFINE c == IF queue THEN count + 1 ELSE count
    <2>1. PICK i \in FreeSlots :
              /\ taken' = taken \cup {i}
              /\ priority' = [priority EXCEPT ![i] = prio]
              /\ stackmem' = [stackmem EXCEPT ![i] = TRUE]
              /\ MaybeResched(r, [status EXCEPT ![i] = s],
                              [priority EXCEPT ![i] = prio], rl(i), c)
      BY <1>2 DEF KthreadCreate, StackFound
    <2>2. Sound([status EXCEPT ![i] = s], priority', rl(i), currpid)
      BY <1>2, <2>1, CreatedSound DEF KthreadCreate, CallerRuns
    <2>3. i \in Pid /\ i \notin taken /\ status[i] = "NA" /\ readyList[i] = 0
      BY DEF FreeSlots, CarefulInv, Disciplined
    <2>4. /\ rl(i)[i] = IF queue THEN 1 ELSE 0
          /\ \A p \in Pid \ {i} : rl(i)[p] = readyList[p]
      BY <1>0, <2>3 DEF Inserted
    <2>5. Exact(rl(i), c)
      BY <1>0, <2>3, InsertedCount DEF CarefulInv, Exact
    <2> DEFINE st == [status EXCEPT ![i] = s]
    <2>6. st[i] = s /\ \A p \in Pid \ {i} : st[p] = status[p]
      BY <1>0, <2>3
    <2>7. /\ stackmem'[i] = TRUE /\ \A p \in Pid \ {i} : stackmem'[p] = stackmem[p]
      BY <1>0, <2>1, <2>3
    <2>8. currpid # i /\ st[currpid] \in {"CURR", "SUSPENDED"}
      BY <1>0, <2>3, <2>6 DEF CarefulInv
    <2>9. \A p \in Pid : status[p] = "DEAD" => st[p] = "DEAD"
      BY <2>3, <2>6
    <2>10. fault = "none"
      BY <1>2 DEF KthreadCreate, CallerRuns
    <2> HIDE DEF st, rl
    <2>11. Disciplined(st, rl(i), stackmem', taken')
      BY <1>0, <2>1, <2>3, <2>4, <2>6, <2>7 DEF CarefulInv, Disciplined, Live
    <2>12. MaybeResched(r, st, priority', rl(i), c) /\ Sound(st, priority', rl(i), currpid)
      BY <2>1, <2>2 DEF st
    <2> HIDE DEF c, queue
    <2>13. CASE r
      <3>1. Resched(st, priority', rl(i), c)
        BY <2>12, <2>13 DEF MaybeResched
      <3> QED BY <1>0, <3>1, <2>5, <2>8, <2>9, <2>10, <2>11, <2>12, ReschedCareful
              DEF CarefulInv, NoFault, Exact
    <2>14. CASE ~ r
      <3>1. status' = st /\ readyList' = rl(i) /\ count' = c
            /\ UNCHANGED <<currpid, fault>>
        BY <2>12, <2>14 DEF MaybeResched
      <3> QED BY <1>0, <3>1, <2>5, <2>8, <2>9, <2>10, <2>11 DEF CarefulInv, NoFault, Exact
    <2> QED BY <2>13, <2>14
  <1>3. ASSUME NEW r \in BOOLEAN, KthreadCreateFails(r) PROVE Goal
    <2>1. CASE r
      BY <1>0, <1>3, <2>1, ReschedCareful
         DEF KthreadCreateFails, CallerRuns, MaybeResched, CarefulInv, NoFault, Exact
    <2>2. CASE ~ r
      BY <1>0, <1>3, <2>2 DEF KthreadCreateFails, MaybeResched, CarefulInv, NoFault, Exact
    <2> QED BY <2>1, <2>2
  <1>4. ASSUME NEW id \in Targets, Ready(id) PROVE Goal
    <2>1. id \in Pid /\ status[id] = "SUSPENDED" /\ readyList[id] = 0
      BY <1>4, ConstantsAssumption DEF Ready, MayReady
    <2>2. readyList'[id] = 1 /\ \A p \in Pid \ {id} : readyList'[p] = readyList[p]
      BY <1>0, <1>4, <2>1 DEF Ready, Inserted
    <2>3. Exact(readyList', count')
      BY <1>0, <1>4, <2>1, InsertedCount DEF Ready, CarefulInv, Exact
    <2> QED BY <1>0, <1>4, <2>1, <2>2, <2>3
            DEF Ready, CallerRuns, CarefulInv, Disciplined, NoFault, Exact
  <1>5. ASSUME NEW id \in Targets, Suspend(id) PROVE Goal
    <2>1. id \in Pid \ {NULLPROC} /\ ~ Pending(id) /\ isvalid(id)
      BY <1>5, ConstantsAssumption DEF Suspend, MaySuspend
    <2>2. /\ Disciplined(status', readyList', stackmem', taken')
          /\ Exact(readyList', count')
      BY <1>0, <1>5, <2>1, StoppedCareful DEF Suspend
    <2>3. status'[currpid'] \in {"CURR", "SUSPENDED"}
      BY <1>0, <1>5, <2>1 DEF Suspend, CarefulInv
    <2>4. \A p \in Pid : status[p] = "DEAD" => status'[p] = "DEAD"
      BY <1>0, <1>5, <2>1 DEF Suspend, isvalid
    <2> QED BY <1>0, <1>5, <2>2, <2>3, <2>4
            DEF Suspend, CallerRuns, CarefulInv, NoFault, Exact
  <1>6. ASSUME NEW id \in Pid, CallerRuns, MayKill(id), KillEffect(id)
        PROVE  Goal
    <2> DEFINE st == [status EXCEPT ![id] = "DEAD"]
    <2>1. ~ Pending(id) /\ isvalid(id) /\ stackmem[id] /\ id # NULLPROC
      BY <1>6 DEF MayKill, KillEffect
    <2>2. /\ stackmem' = [stackmem EXCEPT ![id] = FALSE]
          /\ Resched(st, priority, SuspendedList(id), SuspendedCount(id))
          /\ UNCHANGED <<priority, taken>>
      BY <1>6, <2>1 DEF KillEffect
    <2>3. /\ stackmem' \in [Pid -> BOOLEAN]
          /\ \A p \in Pid \ {id} : stackmem'[p] = stackmem[p]
      BY <1>0, <2>2
    <2>4. Sound(st, priority, SuspendedList(id), currpid)
      BY <1>6, StoppedSound DEF CallerRuns
    <2>5. /\ Disciplined(st, SuspendedList(id), stackmem', taken)
          /\ Exact(SuspendedList(id), SuspendedCount(id))
      BY <2>1, <2>3, StoppedCareful
    <2>6. st[currpid] \in {"CURR", "SUSPENDED", "DEAD"}
          /\ \A p \in Pid : status[p] = "DEAD" => st[p] = "DEAD"
      BY <1>0 DEF CarefulInv
    <2>7. fault = "none"
      BY <1>6 DEF CallerRuns
    <2> HIDE DEF st
    <2> QED BY <1>0, <2>2, <2>4, <2>5, <2>6, <2>7, ReschedCareful
            DEF CarefulInv, NoFault, Exact
  <1>7. CASE \E id \in Targets : Kill(id)
    BY <1>6, <1>7, ConstantsAssumption DEF Kill
  <1>8. CASE UserRet
    BY <1>0, <1>6, <1>8 DEF UserRet, CallerRuns
  <1>9. CASE UNCHANGED vars
    BY <1>9 DEF vars, CarefulInv, NoFault, Exact
  <1> QED BY <1>1, <1>2, <1>3, <1>4, <1>5, <1>7, <1>8, <1>9 DEF Next

\* processes::init establishes the invariant.
LEMMA InitCareful == Init => CarefulInv
  <1> SUFFICES ASSUME Init PROVE CarefulInv
    OBVIOUS
  <1> USE PidFacts
  <1>1. Exact(readyList, count) /\ NoFault
    BY InitEntries DEF Init, Exact, NoFault
  <1>2. /\ status[MAIN] = "CURR" /\ status[NULLPROC] = "RUNNABLE"
        /\ \A p \in Pid \ {MAIN, NULLPROC} : status[p] = "NA"
    BY DEF Init
  <1>3. /\ readyList[NULLPROC] = 1 /\ \A p \in Pid \ {NULLPROC} : readyList[p] = 0
        /\ stackmem[NULLPROC] = TRUE /\ taken = {NULLPROC, MAIN}
        /\ currpid = MAIN /\ fault = "none"
    BY DEF Init
  <1>4. Disciplined(status, readyList, stackmem, taken)
    BY <1>2, <1>3 DEF Disciplined, Live
  <1> QED BY <1>1, <1>2, <1>3, <1>4 DEF CarefulInv

\* Under the contract: no undefined operation but the pop of an empty heap if _count
\* did not start at 0, a counter that is off by what it started with, a ready list
\* without duplicates or dead processes, and a stack for whoever runs.
THEOREM CarefulSafe ==
    ASSUME Careful
    PROVE  Spec => []ContractSafe
  <1>1. Init => CarefulInv
    BY InitCareful
  <1>2. AnyInv /\ CarefulInv /\ [Next]_vars => CarefulInv'
    BY NextCareful
  <1>3. AnyInv /\ CarefulInv => ContractSafe
    BY DEF AnyInv, Sound, CarefulInv, Disciplined, Exact, Live,
           ContractSafe, NoFault, CountExact, NoDuplicates, RunsOnOwnStack
  <1> QED BY <1>1, <1>2, <1>3, AnyInvariant, PTL DEF Spec

\* Under the contract kill() is final: nothing changes the status of a dead
\* process again.
THEOREM KillIsFinal ==
    ASSUME Careful
    PROVE  Spec => DeadStaysDead
  <1>1. Init => CarefulInv
    BY InitCareful
  <1>2. AnyInv /\ CarefulInv /\ [Next]_vars => CarefulInv'
    BY NextCareful
  <1>3. AnyInv /\ CarefulInv /\ [Next]_vars
          => [\A p \in Pid : status[p] = "DEAD" => status'[p] = "DEAD"]_vars
    BY NextCareful
  <1> QED BY <1>1, <1>2, <1>3, AnyInvariant, PTL DEF Spec, DeadStaysDead

-----------------------------------------------------------------------------
(* Dead processes, whatever the callers do.                                *)

\* A slot that was never given out has no status and no entry.
Untouched == \A p \in Pid \ taken : status[p] = "NA" /\ readyList[p] = 0

\* resched() queues only a process that held the processor or was runnable, and
\* runs only one that is queued.
LEMMA ReschedKeepsAway ==
    ASSUME NEW st, NEW pr, NEW rl, NEW c \in Int,
           Sound(st, pr, rl, currpid), Resched(st, pr, rl, c), NEW p \in Pid
    PROVE  /\ st[p] = "DEAD" => readyList'[p] <= rl[p]
           /\ st[p] = "NA" /\ rl[p] = 0 => status'[p] = "NA" /\ readyList'[p] = 0
  <1>1. rl \in [Pid -> Nat] /\ st \in [Pid -> ProcStatus] /\ currpid \in Pid
    BY DEF Sound
  <1>2. CASE status' = st /\ readyList' = rl
    BY <1>1, <1>2
  <1>3. CASE Switch(st, pr, rl, c)
    <2> DEFINE old == Preempted(st)
    <2>1. PICK next \in Highest(rl, pr) :
              /\ readyList' = Requeued(old, Popped(rl, next))
              /\ status' = [old EXCEPT ![next] = "CURR"]
      BY <1>3 DEF Switch
    <2>2. next \in Pid /\ rl[next] > 0
      BY <2>1 DEF Highest, Queued
    <2>3. PICK less : less = Popped(rl, next)
      OBVIOUS
    <2>4. less \in [Pid -> Nat] /\ less[p] <= rl[p]
      BY <1>1, <2>2, <2>3 DEF Popped
    <2>5. st[p] \in {"DEAD", "NA"} => old[p] = st[p]
      BY <1>1 DEF Preempted
    <2>6. old \in [Pid -> ProcStatus]
      BY <1>1 DEF Preempted, ProcStatus
    <2> HIDE DEF old
    <2>7. st[p] \in {"DEAD", "NA"} => readyList'[p] = less[p]
      BY <1>1, <2>1, <2>3, <2>4, <2>5 DEF Requeued, Inserted
    <2>8. st[p] = "DEAD" => readyList'[p] <= rl[p]
      BY <2>4, <2>7
    <2>9. ASSUME st[p] = "NA", rl[p] = 0 PROVE status'[p] = "NA" /\ readyList'[p] = 0
      BY <2>9, <1>1, <2>1, <2>2, <2>4, <2>5, <2>6, <2>7
    <2> QED BY <2>8, <2>9
  <1> QED BY <1>2, <1>3 DEF Resched

\* No step queues a dead process, and slots stay untouched until they are taken.
LEMMA NextUntouched ==
    ASSUME AnyInv, Untouched, [Next]_vars
    PROVE  /\ Untouched'
           /\ \A p \in Pid : status[p] = "DEAD" => readyList'[p] <= readyList[p]
  <1> USE PidFacts
  <1> DEFINE Goal == /\ Untouched'
                     /\ \A p \in Pid : status[p] = "DEAD" => readyList'[p] <= readyList[p]
  <1>0. /\ readyList \in [Pid -> Nat] /\ status \in [Pid -> ProcStatus] /\ currpid \in Pid
        /\ count \in Int
        /\ Sound(status, priority, readyList, currpid)
    BY DEF AnyInv, Sound
  <1>1. ASSUME Resched(status, priority, readyList, count), taken' = taken PROVE Goal
    BY <1>0, <1>1, ReschedKeepsAway DEF Untouched
  <1>2. CASE Tick
    BY <1>1, <1>2 DEF Tick
  <1>3. ASSUME NEW prio \in Priorities, NEW s \in {"RUNNABLE", "SUSPENDED"},
               NEW r \in BOOLEAN, KthreadCreate(prio, s, r)
        PROVE  Goal
    <2>1. PICK i \in FreeSlots :
              /\ taken' = taken \cup {i}
              /\ MaybeResched(r, [status EXCEPT ![i] = s], [priority EXCEPT ![i] = prio],
                              IF s = "RUNNABLE" THEN Inserted(readyList, i) ELSE readyList,
                              IF s = "RUNNABLE" THEN count + 1 ELSE count)
      BY <1>3 DEF KthreadCreate
    <2>2. PICK rl : rl = IF s = "RUNNABLE" THEN Inserted(readyList, i) ELSE readyList
      OBVIOUS
    <2>3. PICK c : c = IF s = "RUNNABLE" THEN count + 1 ELSE count
      OBVIOUS
    <2>4. PICK st : st = [status EXCEPT ![i] = s]
      OBVIOUS
    <2>5. PICK pr : pr = [priority EXCEPT ![i] = prio]
      OBVIOUS
    <2>6. Sound(st, pr, rl, currpid) /\ c \in Int
      <3>1. currpid # NULLPROC /\ c \in Int
        BY <1>0, <1>3, <2>3 DEF KthreadCreate, CallerRuns
      <3>2. Sound([status EXCEPT ![i] = s], [priority EXCEPT ![i] = prio], rl, currpid)
        BY <2>2, <3>1, CreatedSound
      <3> QED BY <2>4, <2>5, <3>1, <3>2
    <2>7. i \in Pid \ taken /\ status[i] = "NA"
      BY DEF FreeSlots, Untouched
    <2>8. \A p \in Pid \ {i} : st[p] = status[p] /\ rl[p] = readyList[p]
      BY <1>0, <2>2, <2>4, <2>7 DEF Inserted
    <2>9. \A p \in Pid \ {i} : /\ st[p] = "DEAD" => readyList'[p] <= rl[p]
                               /\ st[p] = "NA" /\ rl[p] = 0
                                      => status'[p] = "NA" /\ readyList'[p] = 0
      <3>1. CASE Resched(st, pr, rl, c)
        BY <3>1, <2>6, ReschedKeepsAway
      <3>2. CASE status' = st /\ readyList' = rl
        BY <3>2, <2>8, <1>0
      <3> QED BY <2>1, <2>2, <2>3, <2>4, <2>5, <3>1, <3>2 DEF MaybeResched
    <2> QED BY <2>1, <2>7, <2>8, <2>9 DEF Untouched
  <1>4. ASSUME NEW r \in BOOLEAN, KthreadCreateFails(r) PROVE Goal
    <2>1. CASE r
      BY <1>1, <1>4, <2>1 DEF KthreadCreateFails, MaybeResched
    <2>2. CASE ~ r
      BY <1>0, <1>4, <2>2 DEF KthreadCreateFails, MaybeResched, Untouched
    <2> QED BY <2>1, <2>2
  <1>5. ASSUME NEW id \in Targets, Ready(id) PROVE Goal
    <2>1. id \in Pid /\ status[id] \in {"CURR", "SUSPENDED"}
      BY <1>5, ConstantsAssumption DEF Ready, isvalid
    <2>2. \A p \in Pid \ {id} : readyList'[p] = readyList[p]
      BY <1>0, <1>5 DEF Ready, Inserted
    <2> QED BY <1>0, <1>5, <2>1, <2>2 DEF Ready, Untouched
  <1>6. ASSUME NEW id \in Pid, isvalid(id), NEW s
        PROVE  \A p \in Pid : /\ SuspendedList(id)[p] <= readyList[p]
                              /\ SuspendedList(id)[p] \in Nat
                              /\ status[p] = "DEAD" => p # id
                              /\ p \notin taken => p # id
                              /\ p # id => [status EXCEPT ![id] = s][p] = status[p]
    BY <1>0, <1>6 DEF SuspendedList, Erased, isvalid, Untouched
  <1>7. ASSUME NEW id \in Targets, Suspend(id) PROVE Goal
    <2>1. id \in Pid /\ isvalid(id) /\ taken' = taken /\ readyList' = SuspendedList(id)
          /\ status' = [status EXCEPT ![id] = "SUSPENDED"]
      BY <1>7, ConstantsAssumption DEF Suspend
    <2> QED BY <1>0, <1>6, <2>1 DEF Untouched
  <1>8. ASSUME NEW id \in Pid, CallerRuns, KillEffect(id) PROVE Goal
    <2>1. PICK st : st = [status EXCEPT ![id] = "DEAD"]
      OBVIOUS
    <2>2. PICK rl : rl = SuspendedList(id)
      OBVIOUS
    <2>3. PICK c : c = SuspendedCount(id)
      OBVIOUS
    <2>4. Sound(st, priority, rl, currpid) /\ c \in Int
      BY <1>8, <2>1, <2>2, <2>3, StoppedSound DEF CallerRuns
    <2>5. isvalid(id) /\ taken' = taken
          /\ (Resched(st, priority, rl, c) \/ (status' = st /\ readyList' = rl))
      BY <1>8, <2>1, <2>2, <2>3 DEF KillEffect
    <2>6. \A p \in Pid : /\ rl[p] <= readyList[p] /\ rl[p] \in Nat
                         /\ status[p] = "DEAD" => st[p] = "DEAD"
                         /\ p \notin taken => st[p] = status[p]
      BY <1>0, <1>6, <2>1, <2>2, <2>5
    <2>7. \A p \in Pid : /\ st[p] = "DEAD" => readyList'[p] <= rl[p]
                         /\ st[p] = "NA" /\ rl[p] = 0
                                => status'[p] = "NA" /\ readyList'[p] = 0
      <3>1. CASE Resched(st, priority, rl, c)
        BY <3>1, <2>4, ReschedKeepsAway
      <3>2. CASE status' = st /\ readyList' = rl
        BY <3>2, <2>6
      <3> QED BY <2>5, <3>1, <3>2
    <2>8. \A p \in Pid : readyList'[p] \in Nat
      <3>1. AnyInv'
        BY NextAny
      <3> QED BY <3>1 DEF AnyInv, Sound
    <2> QED BY <1>0, <2>5, <2>6, <2>7, <2>8 DEF Untouched
  <1>9. CASE \E id \in Targets : Kill(id)
    BY <1>8, <1>9, ConstantsAssumption DEF Kill
  <1>10. CASE UserRet
    BY <1>0, <1>8, <1>10 DEF UserRet, CallerRuns
  <1>11. CASE UNCHANGED vars
    BY <1>0, <1>11 DEF vars, Untouched
  <1> QED BY <1>2, <1>3, <1>4, <1>5, <1>7, <1>9, <1>10, <1>11 DEF Next

\* ready() and resched() never queue a dead process, even for callers that keep
\* to no contract.
THEOREM DeadAreNotQueued == Spec => DeadNotQueuedAgain
  <1>1. Init => Untouched
    BY PidFacts DEF Init, Untouched
  <1>2. AnyInv /\ Untouched /\ [Next]_vars => Untouched'
    BY NextUntouched
  <1>3. AnyInv /\ Untouched /\ [Next]_vars
          => [\A p \in Pid : status[p] = "DEAD" => readyList'[p] <= readyList[p]]_vars
    BY NextUntouched
  <1> QED BY <1>1, <1>2, <1>3, AnyInvariant, PTL DEF Spec, DeadNotQueuedAgain

=============================================================================
