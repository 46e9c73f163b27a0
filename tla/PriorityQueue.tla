--------------------------- MODULE PriorityQueue ---------------------------
(***************************************************************************)
(* priority_queue<K, V> of containers/queue.h, one action per call or per  *)
(* recursive call of swim() and sink().  A call runs to its end before the *)
(* next one starts.  increase_mem() and erase() move the array; erase()    *)
(* rebuilds the queue in a second object, whose fields are the p-variables.*)
(***************************************************************************)
EXTENDS Heap, FiniteSets

CONSTANTS
    Keys,        \* the priorities
    Vals,        \* the pids
    StartSize,   \* capacity of a new queue (5 in the default constructor)
    MaxCount     \* bound of the model: insert() is not called beyond it

KeyVal == [key : Keys, val : Vals]

\* What a cell of a new array holds; key_val() initialises nothing.
CONSTANT Junk

ASSUME QueueAssumption ==
    /\ Keys \subseteq Int
    /\ StartSize \in Nat /\ StartSize >= 1
    /\ MaxCount \in Nat
    /\ Junk \in KeyVal

VARIABLES
    mem, size, count,       \* the array, _size and _count of the queue
    pmem, psize, pcount,    \* the same of the queue erase() builds
    pc,                     \* the function at work
    pos,                    \* the argument of swim() or sink()
    i,                      \* the loop counter of erase()
    val,                    \* the argument of erase()
    kv,                     \* what the call took, if it was dequeue()
    erased                  \* what the call returned, if it was erase()

queue == <<mem, size, count>>
built == <<pmem, psize, pcount>>
vars == <<mem, size, count, pmem, psize, pcount, pc, pos, i, val, kv, erased>>

NewMem(n) == [c \in 0 .. (n - 1) |-> Junk]

\* Slip: the copy loop of increase_mem() stops one cell short.
GrownShort(m, s, n) ==
    [c \in 0 .. (2 * s - 1) |-> IF c < n - 1 THEN m[c] ELSE Junk]

\* increase_mem(_size * 2) copies the live cells.
Grown(m, s, n) == [c \in 0 .. (2 * s - 1) |-> IF c < n THEN m[c] ELSE Junk]

\* The capacity in which insert() writes the next element.
Room(s, n) == IF n = s THEN 2 * s ELSE s

\* The array with elem written behind the live cells.
Appended(m, s, n, elem) ==
    [(IF Room(s, n) > s THEN Grown(m, s, n) ELSE m) EXCEPT ![n] = elem]

Init ==
    /\ mem = NewMem(StartSize) /\ size = StartSize /\ count = 0
    /\ pmem = NewMem(StartSize) /\ psize = StartSize /\ pcount = 0
    /\ pc = "idle"
    /\ pos = 0
    /\ i = 0
    /\ val = Junk.val
    /\ kv = Junk
    /\ erased = 0

\* insert(elem) up to the call of swim().
Insert(elem) ==
    /\ pc = "idle"
    /\ count < MaxCount
    /\ mem' = Appended(mem, size, count, elem)
    /\ size' = Room(size, count)
    /\ count' = count + 1
    /\ pos' = count
    /\ pc' = "swim"
    /\ kv' = Junk /\ erased' = 0
    /\ UNCHANGED <<built, i, val>>

\* One call of swim(): return, or swap with the parent and go on from there.
Swim ==
    /\ pc = "swim"
    /\ \/ /\ SwimStops(mem, pos)
          /\ pc' = "idle"
          /\ UNCHANGED <<mem, pos>>
       \/ /\ ~ SwimStops(mem, pos)
          /\ mem' = Swapped(mem, pos, parent(pos))
          /\ pos' = parent(pos)
          /\ UNCHANGED pc
    /\ UNCHANGED <<size, count, built, i, val, kv, erased>>

\* dequeue() up to the call of sink().  The code does not look whether the
\* queue is empty; that its caller never asks for it then is the business of
\* module Scheduler (NoFault).
Dequeue ==
    /\ pc = "idle"
    /\ count > 0
    /\ kv' = mem[0]
    /\ mem' = [mem EXCEPT ![0] = mem[count - 1]]
    /\ count' = count - 1
    /\ pos' = 0
    /\ pc' = "sink"
    /\ erased' = 0
    /\ UNCHANGED <<size, built, i, val>>

\* One call of sink(): return, or swap with the larger child and go on there.
Sink ==
    LET child == SinkChild(mem, count, pos) IN
    /\ pc = "sink"
    /\ \/ /\ SinkStops(mem, count, pos)
          /\ pc' = "idle"
          /\ UNCHANGED <<mem, pos>>
       \/ /\ ~ SinkStops(mem, count, pos)
          /\ mem' = Swapped(mem, pos, child)
          /\ pos' = child
          /\ UNCHANGED pc
    /\ UNCHANGED <<size, count, built, i, val, kv, erased>>

\* erase(v): a new queue, then one turn of the loop per element.
Erase(v) ==
    /\ pc = "idle"
    /\ pmem' = NewMem(StartSize) /\ psize' = StartSize /\ pcount' = 0
    /\ i' = 0
    /\ val' = v
    /\ pc' = "erase"
    /\ UNCHANGED <<queue, pos, kv, erased>>

\* The element goes into the new queue, or it is one of those to delete.
EraseTurn ==
    /\ pc = "erase"
    /\ i < count
    /\ \/ /\ mem[i].val # val
          /\ pmem' = Appended(pmem, psize, pcount, mem[i])
          /\ psize' = Room(psize, pcount)
          /\ pcount' = pcount + 1
          /\ pos' = pcount
          /\ pc' = "pswim"
       \/ /\ mem[i].val = val
          /\ UNCHANGED <<built, pos, pc>>
    /\ i' = i + 1
    /\ UNCHANGED <<queue, val, kv, erased>>

\* swim() of the new queue.
EraseSwim ==
    /\ pc = "pswim"
    /\ \/ /\ SwimStops(pmem, pos)
          /\ pc' = "erase"
          /\ UNCHANGED <<pmem, pos>>
       \/ /\ ~ SwimStops(pmem, pos)
          /\ pmem' = Swapped(pmem, pos, parent(pos))
          /\ pos' = parent(pos)
          /\ UNCHANGED pc
    /\ UNCHANGED <<queue, psize, pcount, i, val, kv, erased>>

\* The queue takes over the array of the new one; the number of deleted
\* elements is returned.  The locals of the call are gone.
EraseDone ==
    /\ pc = "erase"
    /\ i = count
    /\ mem' = pmem /\ size' = psize /\ count' = pcount
    /\ erased' = count - pcount
    /\ pmem' = NewMem(StartSize) /\ psize' = StartSize /\ pcount' = 0
    /\ pc' = "idle"
    /\ pos' = 0
    /\ i' = 0
    /\ val' = Junk.val
    /\ kv' = Junk

Next ==
    \/ \E elem \in KeyVal : Insert(elem)
    \/ Swim
    \/ Dequeue
    \/ Sink
    \/ \E v \in Vals : Erase(v)
    \/ EraseTurn
    \/ EraseSwim
    \/ EraseDone

Spec == Init /\ [][Next]_vars

\* A call that has started runs on (its caller cannot wait for anything).
Work == Swim \/ Sink \/ EraseTurn \/ EraseSwim \/ EraseDone

-----------------------------------------------------------------------------
(* Properties.                                                             *)

TypeOK ==
    /\ size \in Nat /\ psize \in Nat /\ count \in Nat /\ pcount \in Nat
    /\ mem \in [0 .. (size - 1) -> KeyVal]
    /\ pmem \in [0 .. (psize - 1) -> KeyVal]
    /\ pc \in {"idle", "swim", "sink", "erase", "pswim"}
    /\ pos \in Nat /\ i \in Nat
    /\ val \in Vals /\ kv \in KeyVal /\ erased \in Nat

\* Between calls the array is a heap: swim() and sink() repair what insert(),
\* dequeue() and the rebuilding erase() disturb.
HeapProperty == pc = "idle" => HeapOrdered(mem, count)

\* The live elements never outgrow the array they are in, neither in the queue
\* nor in the one erase() builds: insert() grows the array before it writes.
InBounds == count <= size /\ pcount <= psize

\* The live elements as a bag.
Content ==
    [e \in KeyVal |-> Cardinality({c \in 0 .. (count - 1) : mem[c] = e})]

\* The heap is a priority queue: dequeue() takes a largest key, erase() deletes
\* every pair with the value and returns their number (queue.h, "delete all
\* key-val pair wich has the given value"), growth and repair lose nothing.
Bag == INSTANCE BagQueue WITH bag <- Content
RefinesBagQueue == Bag!Spec

\* is_correct(), the debugging check of the class.  ((_count - 1) - 1) / 2 is
\* the truncating division of C: for one element the limit is 0, not -1.
is_correct ==
    LET limit == IF count = 0 THEN -1
                 ELSE IF count = 1 THEN 0 ELSE (count - 2) \div 2
    IN  \A c \in 0 .. limit :
            /\ mem[c].key >= mem[2 * c + 1].key
            /\ 2 * c + 2 < count => mem[c].key >= mem[2 * c + 2].key

\* is_correct(), which hangs the kernel when it rejects, accepts every queue the
\* operations build (ContainerTester calls it after every dequeue()), except
\* possibly one of a single element, whose root it compares with a dead cell.
DebugCheckAccepts == pc = "idle" /\ count # 1 => is_correct

\* Between calls of insert(), dequeue() and erase() no element is above its
\* parent, and at any time, also while erase() fills a second array and
\* increase_mem() changes the size, the live elements fit into their array.
HeapSound == TypeOK /\ HeapProperty /\ InBounds

=============================================================================
