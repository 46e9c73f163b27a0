---------------------------- MODULE LinkedQueue ----------------------------
(***************************************************************************)
(* bodos::queue of containers/queue.h: singly linked lists whose nodes come *)
(* from the kernel heap that all queues share.  A step is one turn of a    *)
(* loop of the code.  What kfree() leaves in a node is not looked at again *)
(* by a correct program, so that a freed node holds Garbage.               *)
(***************************************************************************)
EXTENDS Integers, Sequences, SequencesExt, FiniteSets

CONSTANTS
    Queues,      \* the queue objects
    Elems,       \* the values its callers queue
    Blank,       \* T(), what dequeue() and top() of an empty queue return
    MaxNodes     \* bound of the model: the nodes the kernel heap has room for

Node == 1 .. MaxNodes
NULL == 0
Garbage == -1

ASSUME QueueAssumption == MaxNodes \in Nat

VARIABLES
    next, value,   \* the fields of every node
    live,          \* the nodes that are allocated
    head, size,    \* _head and _size of every queue
    call,          \* the operation under way, and the values it looks for
    curr, prev,    \* its local pointers
    n,             \* its local counter: idx, or count of erase_item()
    ret            \* what it returned

heap == <<next, value, live>>
objects == <<head, size>>
locals == <<call, curr, prev, n, ret>>

\* Where the pointers lead from the head of a queue on; a cycle is cut.
Walk(q) ==
    LET to[i \in 1 .. (MaxNodes + 1)] ==
          IF i = 1 THEN head[q]
          ELSE LET p == to[i - 1] IN IF p \in Node THEN next[p] ELSE NULL
    IN  to

\* Its nodes, in order.
Nodes(q) ==
    LET to == Walk(q) IN
    [i \in 1 .. Cardinality({j \in 1 .. (MaxNodes + 1) : to[j] \in Node}) |-> to[i]]

Contents(q) == LET nodes == Nodes(q) IN [i \in 1 .. Len(nodes) |-> value[nodes[i]]]

\* What an operation may return: a success, a count or a pointer, a value.
Nothing == [ok |-> FALSE, num |-> NULL, val |-> Blank]
Success(b) == [Nothing EXCEPT !.ok = b]
Number(i) == [Nothing EXCEPT !.num = i]
Value(v) == [Nothing EXCEPT !.val = v]

Idle == call.op = "none"
NoCall == [op |-> "none", q |-> CHOOSE q \in Queues : TRUE, match |-> {}, index |-> 0, at |-> "loop"]

\* The processor is in the loop of this operation.
In(op) == call.op = op /\ call.at = "loop"

QueueInit ==
    /\ next = [p \in Node |-> Garbage] /\ value = [p \in Node |-> Blank]
    /\ live = {}
    /\ head = [q \in Queues |-> NULL] /\ size = [q \in Queues |-> 0]
    /\ call = NoCall
    /\ curr = NULL /\ prev = NULL /\ n = 0
    /\ ret = Nothing

-----------------------------------------------------------------------------
\* A call starts at the head.
Start(op, q, match, index) ==
    /\ call' = [op |-> op, q |-> q, match |-> match, index |-> index,
                 at |-> "loop"]
    /\ curr' = head[q] /\ prev' = NULL /\ n' = 0
    /\ UNCHANGED ret

Return(result) ==
    /\ ret' = result
    /\ call' = [call EXCEPT !.at = "returned"]
    /\ UNCHANGED <<curr, prev, n>>

Advance == prev' = curr /\ curr' = next[curr]

\* kfree(): the node is given back and its fields are nobody's.
FreedFields(links, ps) ==
    /\ live' = live \ ps
    /\ next' = [p \in Node |-> IF p \in ps THEN Garbage ELSE links[p]]
    /\ value' = [p \in Node |-> IF p \in ps THEN Blank ELSE value[p]]

\* Slip: the list goes on pointing at the freed node.
UnlinkedHeadOnly ==
    /\ head' = IF prev = NULL THEN [head EXCEPT ![call.q] = next[curr]] ELSE head
    /\ FreedFields(next, {curr})
    /\ size' = [size EXCEPT ![call.q] = @ - 1]

\* curr is taken out of the list and freed; its next was read before.
Unlinked ==
    /\ head' = IF prev = NULL THEN [head EXCEPT ![call.q] = next[curr]] ELSE head
    /\ FreedFields(IF prev = NULL THEN next ELSE [next EXCEPT ![prev] = next[curr]], {curr})
    /\ size' = [size EXCEPT ![call.q] = @ - 1]

-----------------------------------------------------------------------------
\* insert(): to the tail, then a new node.  Operator new hands out the first free
\* node; without one it returns NULL, which the constructor writes through.
InsertWalk ==
    /\ In("insert") /\ curr # NULL
    /\ Advance
    /\ UNCHANGED <<heap, objects, call, n, ret>>

InsertNode ==
    /\ In("insert") /\ curr = NULL
    /\ \E p \in Node \ live :
          /\ \A free \in Node \ live : p <= free
          /\ live' = live \cup {p}
          /\ \E elem \in call.match : value' = [value EXCEPT ![p] = elem]
          /\ LET links == [next EXCEPT ![p] = NULL] IN
             IF prev = NULL
             THEN head' = [head EXCEPT ![call.q] = p] /\ next' = links
             ELSE next' = [links EXCEPT ![prev] = p] /\ UNCHANGED head
    /\ size' = [size EXCEPT ![call.q] = @ + 1]
    /\ Return(Success(TRUE))

InsertNoMemory ==
    /\ In("insert") /\ curr = NULL
    /\ live = Node
    /\ call' = [call EXCEPT !.at = "fault"]
    /\ UNCHANGED <<heap, objects, curr, prev, n, ret>>

\* Slip: the node behind an erased one is passed over.
EraseItemSkips ==
    /\ In("erase_item") /\ curr # NULL
    /\ value[curr] \in call.match
    /\ Unlinked
    /\ curr' = IF next[curr] = NULL THEN NULL ELSE next[next[curr]]
    /\ n' = n + 1
    /\ UNCHANGED <<call, prev, ret>>

\* erase_item(): every node that holds the element goes.
EraseItemHit ==
    /\ In("erase_item") /\ curr # NULL
    /\ value[curr] \in call.match
    /\ Unlinked
    /\ curr' = next[curr]
    /\ n' = n + 1
    /\ UNCHANGED <<call, prev, ret>>

EraseItemPass ==
    /\ In("erase_item") /\ curr # NULL
    /\ value[curr] \notin call.match
    /\ Advance
    /\ UNCHANGED <<heap, objects, call, n, ret>>

EraseItemEnd ==
    /\ In("erase_item") /\ curr = NULL
    /\ Return(Number(n))
    /\ UNCHANGED <<heap, objects>>

\* erase_idx(): the index-th node, if there is one.
EraseIdxWalk ==
    /\ In("erase_idx") /\ curr # NULL /\ n # call.index
    /\ Advance
    /\ n' = n + 1
    /\ UNCHANGED <<heap, objects, call, ret>>

EraseIdxMiss ==
    /\ In("erase_idx") /\ curr = NULL
    /\ Return(Success(FALSE))
    /\ UNCHANGED <<heap, objects>>

EraseIdxHit ==
    /\ In("erase_idx") /\ curr # NULL /\ n = call.index
    /\ Unlinked
    /\ Return(Success(TRUE))

\* Slip: the loop does not move on.
FindWalkStays ==
    /\ In("find") /\ curr # NULL /\ value[curr] \notin call.match
    /\ UNCHANGED <<heap, objects, call, n, ret, curr, prev>>

\* find(): a pointer to the first value looked for, or NULL.
FindWalk ==
    /\ In("find") /\ curr # NULL /\ value[curr] \notin call.match
    /\ Advance
    /\ UNCHANGED <<heap, objects, call, n, ret>>

FindEnd ==
    /\ In("find")
    /\ curr # NULL => value[curr] \in call.match
    /\ Return(Number(curr))
    /\ UNCHANGED <<heap, objects>>

\* dequeue(): the head, whose successor is read before it is freed.
Dequeue ==
    /\ In("dequeue")
    /\ \/ /\ curr # NULL
          /\ Unlinked
          /\ Return(Value(value[curr]))
       \/ /\ curr = NULL
          /\ Return(Nothing)
          /\ UNCHANGED <<heap, objects>>

Top ==
    /\ In("top")
    /\ Return(IF curr = NULL THEN Nothing ELSE Value(value[curr]))
    /\ UNCHANGED <<heap, objects>>

\* The destructor: node by node, the next one read before the kfree().
DestroyNode ==
    /\ In("destroy") /\ curr # NULL
    /\ FreedFields(next, {curr})
    /\ curr' = next[curr]
    /\ UNCHANGED <<objects, call, prev, n, ret>>

\* The object is gone; its place is constructed anew.
DestroyEnd ==
    /\ In("destroy") /\ curr = NULL
    /\ head' = [head EXCEPT ![call.q] = NULL]
    /\ size' = [size EXCEPT ![call.q] = 0]
    /\ Return(Nothing)
    /\ UNCHANGED heap

QueueStep ==
    \/ InsertWalk \/ InsertNode \/ InsertNoMemory
    \/ EraseItemHit \/ EraseItemPass \/ EraseItemEnd
    \/ EraseIdxWalk \/ EraseIdxMiss \/ EraseIdxHit
    \/ FindWalk \/ FindEnd \/ Dequeue \/ Top \/ DestroyNode \/ DestroyEnd

-----------------------------------------------------------------------------
\* What the operations mean on a sequence of values: the sequence they leave and
\* what they return.
Positions(match, s) == {i \in DOMAIN s : s[i] \in match}

\* The other elements of s, in order.
Without(match, s) ==
    LET kept[i \in 0 .. Len(s)] ==
          IF i = 0 THEN <<>>
          ELSE IF s[i] \in match THEN kept[i - 1] ELSE Append(kept[i - 1], s[i])
    IN  kept[Len(s)]

Meaning(s) ==
    CASE call.op = "insert"     -> [s |-> s \o SetToSeq(call.match), ret |-> Success(TRUE)]
      [] call.op = "erase_item" -> [s |-> Without(call.match, s),
                                    ret |-> Number(Cardinality(Positions(call.match, s)))]
      [] call.op = "erase_idx"  -> IF call.index < Len(s)
                                   THEN [s |-> RemoveAt(s, call.index + 1), ret |-> Success(TRUE)]
                                   ELSE [s |-> s, ret |-> Success(FALSE)]
      [] call.op = "dequeue"    -> IF s = <<>> THEN [s |-> s, ret |-> Nothing]
                                   ELSE [s |-> Tail(s), ret |-> Value(Head(s))]
      [] call.op = "top"        -> [s |-> s, ret |-> IF s = <<>> THEN Nothing
                                              ELSE Value(Head(s))]
      [] call.op = "destroy"    -> [s |-> <<>>, ret |-> Nothing]
      [] OTHER                  -> [s |-> s, ret |-> ret]
=============================================================================
