---------------------------- MODULE UnorderedMap ----------------------------
(***************************************************************************)
(* bodos::unordered_map over its buckets, which are queues of pairs, beside *)
(* a queue of pairs that shares the kernel heap with them.  A caller keeps *)
(* the pointer that find() gave it and writes through it.                  *)
(***************************************************************************)
EXTENDS LinkedQueue, FiniteSets, FiniteSetsExt

CONSTANTS
    Keys, Vals,
    bucket_count,
    hash_func,     \* the hash of every key
    Plain,         \* the queue beside the map
    MaxIndex       \* bound of the model: erase_idx() is called with 0 .. MaxIndex

Pair == [first : Keys, second : Vals]
Bucket == 0 .. (bucket_count - 1)

ASSUME MapAssumption ==
    /\ bucket_count \in Nat \ {0}
    /\ hash_func \in [Keys -> Nat] /\ Keys # {} /\ Vals # {}
    /\ Queues = Bucket \cup {Plain} /\ Plain \notin Bucket
    /\ Elems \subseteq Pair /\ Blank \notin Pair /\ MaxIndex \in Nat

VARIABLES
    item_count,
    job,        \* the operation of the map under way, and its arguments
    held,       \* the key whose value a caller has a pointer to, and the pointer
    before      \* history: the contents of the map and of the queue at the call

vars == <<heap, objects, locals, item_count, job, held, before>>

NoJob == [op |-> "none", stage |-> "look", key |-> CHOOSE k \in Keys : TRUE, val |-> CHOOSE v \in Vals : TRUE]
Nobody == [key |-> CHOOSE k \in Keys : TRUE, ptr |-> NULL]
NoHistory == [map |-> {}, queue |-> <<>>]

find_bucket(key) == hash_func[key] % bucket_count
WithKey(key) == {pair \in Pair : pair.first = key}

\* Slip: pairs are equal when their values are.
EqualSecond(pair) == {other \in Pair : other.second = pair.second}

\* operator== of pairs: the pairs equal to this one.
Equal(pair) == {other \in Pair : other.first = pair.first /\ other.second = pair.second}

\* What the map holds: the pairs of all its buckets.
MapContents == UNION {Range(Contents(b)) : b \in Bucket}

Init ==
    /\ QueueInit
    /\ item_count = 0
    /\ job = NoJob
    /\ held = Nobody
    /\ before = NoHistory

-----------------------------------------------------------------------------
(* The calls.                                                              *)

Remember == before' = [map |-> MapContents, queue |-> Contents(Plain)]

\* A call of an operation of the queue beside the map.
QueueCall ==
    /\ Idle
    /\ \/ \E op \in {"insert", "erase_item", "find"}, pair \in Elems :
             Start(op, Plain, Equal(pair), 0)
       \/ \E key \in Keys : Start("find", Plain, WithKey(key), 0)
       \/ \E index \in 0 .. MaxIndex : Start("erase_idx", Plain, {}, index)
       \/ \E op \in {"dequeue", "top", "destroy"} : Start(op, Plain, {}, 0)
    /\ Remember
    /\ UNCHANGED <<heap, objects, item_count, job, held>>

\* insert(), find() and erase() first look for the key in its bucket.
MapCall(op, key, val) ==
    /\ Idle
    /\ job' = [op |-> op, stage |-> "look", key |-> key, val |-> val]
    /\ Start("find", find_bucket(key), WithKey(key), 0)
    /\ Remember
    /\ UNCHANGED <<heap, objects, item_count, held>>

\* A step of the queue operation under way.
Inner == QueueStep /\ UNCHANGED <<item_count, job, held, before>>

Found == call.at = "returned" /\ job.stage = "look" /\ ret.num # NULL
Missing == call.at = "returned" /\ job.stage = "look" /\ ret.num = NULL

Answer(result) ==
    /\ ret' = result
    /\ call' = [call EXCEPT !.at = "answered"]
    /\ UNCHANGED <<curr, prev, n>>

InsertNew ==
    /\ job.op = "insert" /\ Missing
    /\ Start("insert", find_bucket(job.key), {[first |-> job.key, second |-> job.val]}, 0)
    /\ job' = [job EXCEPT !.stage = "change"]
    /\ UNCHANGED <<heap, objects, item_count, held, before>>

InsertRefused ==
    /\ job.op = "insert" /\ Found
    /\ Answer(Success(FALSE))
    /\ UNCHANGED <<heap, objects, item_count, job, held, before>>

InsertDone ==
    /\ job.op = "insert" /\ call.at = "returned" /\ job.stage = "change"
    /\ item_count' = item_count + 1
    /\ Answer(Success(TRUE))
    /\ UNCHANGED <<heap, objects, job, held, before>>

\* find() returns the address of the value, which the caller keeps.
FindAnswered ==
    /\ job.op = "find" /\ (Found \/ Missing)
    /\ held' = IF Found THEN [key |-> job.key, ptr |-> ret.num] ELSE held
    /\ Answer(ret)
    /\ UNCHANGED <<heap, objects, item_count, job, before>>

EraseMissing ==
    /\ job.op = "erase" /\ Missing
    /\ Answer(Success(FALSE))
    /\ UNCHANGED <<heap, objects, item_count, job, held, before>>

\* erase() copies the pair: a reference would lead into the node that is freed.
EraseFound ==
    /\ job.op = "erase" /\ Found
    /\ Start("erase_item", find_bucket(job.key), Equal(value[ret.num]), 0)
    /\ job' = [job EXCEPT !.stage = "change"]
    /\ UNCHANGED <<heap, objects, item_count, held, before>>

\* With a count of 0 control would leave the function without a return value.
EraseDone ==
    /\ job.op = "erase" /\ call.at = "returned" /\ job.stage = "change" /\ ret.num > 0
    /\ item_count' = item_count - 1
    /\ Answer(Success(TRUE))
    /\ UNCHANGED <<heap, objects, job, held, before>>

\* The caller goes on, and the locals of the call are gone.  It drops a pointer whose key it has erased itself.
Resumed ==
    /\ \/ call.at = "answered"
       \/ call.at = "returned" /\ job.op = "none"
    /\ call' = NoCall /\ job' = NoJob
    /\ curr' = NULL /\ prev' = NULL /\ n' = 0 /\ ret' = Nothing
    /\ before' = NoHistory
    /\ held' = IF job.op = "erase" /\ job.key = held.key THEN Nobody ELSE held
    /\ UNCHANGED <<heap, objects, item_count>>

\* The caller writes through its pointer.
Assign(val) ==
    /\ Idle
    /\ held.ptr # NULL
    /\ value' = [value EXCEPT ![held.ptr].second = val]
    /\ UNCHANGED <<next, live, objects, locals, item_count, job, held, before>>

\* Constructor written through NULL, or the end of a function without a value.
Stopped == call.at = "fault" /\ UNCHANGED vars

Step ==
    \/ Inner
    \/ InsertNew \/ InsertRefused \/ InsertDone \/ FindAnswered
    \/ EraseMissing \/ EraseFound \/ EraseDone \/ Resumed

Next ==
    \/ QueueCall
    \/ \E key \in Keys, val \in Vals : MapCall("insert", key, val)
    \/ \E op \in {"find", "erase"}, key \in Keys : MapCall(op, key, NoJob.val)
    \/ \E val \in Vals : Assign(val)
    \/ Step
    \/ Stopped

Spec == Init /\ [][Next]_vars

\* A call that was begun goes on.
FairSpec == Spec /\ WF_vars(Step)

-----------------------------------------------------------------------------
(* Properties.                                                             *)

TypeOK ==
    /\ next \in [Node -> Node \cup {NULL, Garbage}]
    /\ value \in [Node -> Pair \cup {Blank}]
    /\ live \subseteq Node
    /\ head \in [Queues -> Node \cup {NULL}] /\ size \in [Queues -> Nat]
    /\ curr \in Node \cup {NULL} /\ prev \in Node \cup {NULL} /\ n \in Nat
    /\ item_count \in Nat

\* The nodes in use are exactly those on the lists, each on one list and once:
\* no operation of containers/queue.h loses a node, frees one that is still
\* linked or lets two lists run together, and _size is the length.
NodesAccounted ==
    call.op # "destroy" =>
        /\ live = UNION {Range(Nodes(q)) : q \in Queues}
        /\ \A q, r \in Queues : \A i \in DOMAIN Nodes(q), j \in DOMAIN Nodes(r) :
              Nodes(q)[i] = Nodes(r)[j] => q = r /\ i = j
        /\ \A q \in Queues : size[q] = Len(Nodes(q))

\* The buckets together are a finite map: a key is in its own bucket and once,
\* although erase() of the queue compares whole pairs; and between the calls
\* size() of the map is the number of its pairs.
BucketsAreMap ==
    /\ \A b \in Bucket : \A p \in Range(Nodes(b)) : find_bucket(value[p].first) = b
    /\ \A b \in Bucket : \A i, j \in 1 .. Len(Nodes(b)) :
          i # j => Contents(b)[i].first # Contents(b)[j].first
    /\ Idle => item_count = Cardinality(MapContents)

\* A call on the queue leaves the sequence, and returns the value, that
\* QueueTester expects of it, and leaves the map alone.
QueueCallsCorrect ==
    call.at = "returned" /\ call.q = Plain =>
        /\ [s |-> Contents(Plain), ret |-> ret] = Meaning(before.queue)
        /\ MapContents = before.map
        /\ call.op = "find" =>
              IF Positions(call.match, before.queue) = {} THEN ret.num = NULL
              ELSE ret.num = Nodes(Plain)[Min(Positions(call.match, before.queue))]

\* A call on the map does to it what UnorderedMapTester expects: insert() refuses
\* a key that is there, erase() removes it whatever its value has become, "return
\* nullptr if not found".
MapCallsCorrect ==
    call.at = "answered" =>
        LET present == {pair \in before.map : pair.first = job.key} IN
        /\ Contents(Plain) = before.queue
        /\ job.op = "insert" =>
              /\ ret.ok = (present = {})
              /\ MapContents = before.map \cup
                    (IF ret.ok THEN {[first |-> job.key, second |-> job.val]} ELSE {})
        /\ job.op = "erase" => ret.ok = (present # {}) /\ MapContents = before.map \ present
        /\ job.op = "find" => /\ MapContents = before.map
                              /\ IF present = {} THEN ret.num = NULL ELSE {value[ret.num]} = present

\* The pointer find() returned leads to the value of its key until that key is
\* erased, whatever is inserted into or erased from the same bucket meanwhile.
PointerStays ==
    held.ptr # NULL /\ ~ (job.op = "erase" /\ job.key = held.key) =>
        /\ held.ptr \in Range(Nodes(find_bucket(held.key)))
        /\ value[held.ptr].first = held.key

\* Every call comes back, or dies for want of memory: no list has a cycle, and
\* erase() never reaches the end of the function without a value.
CallReturns == ~ Idle ~> Idle \/ call.at = "fault"

\* The nodes that insert() took from the kernel heap and no erase or dequeue gave
\* back are the nodes of the lists, each in one list, and the buckets are a map:
\* every pair is in the bucket of its key, and no key is there twice.
ListsConsistent == TypeOK /\ NodesAccounted /\ BucketsAreMap

\* Both containers do what ContainerTester expects of every call: queue<T> is a
\* sequence and unordered_map a finite map, return values included, however the
\* value of a pair was changed through the pointer of find().
CallsCorrect == QueueCallsCorrect /\ MapCallsCorrect

=============================================================================
