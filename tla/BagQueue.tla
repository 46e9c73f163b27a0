------------------------------ MODULE BagQueue ------------------------------
(***************************************************************************)
(* What priority_queue<K, V> promises: a bag of key-value pairs from which *)
(* dequeue() takes one of the largest key.                                 *)
(***************************************************************************)
EXTENDS Integers, FiniteSets

CONSTANTS Keys, Vals, Junk

KeyVal == [key : Keys, val : Vals]

VARIABLES
    bag,      \* how often each pair is in the queue
    kv,       \* what the last call took, if it was dequeue()
    erased    \* what the last call returned, if it was erase()

vars == <<bag, kv, erased>>

Init == bag = [e \in KeyVal |-> 0] /\ kv = Junk /\ erased = 0

Insert(elem) ==
    /\ bag' = [bag EXCEPT ![elem] = @ + 1]
    /\ kv' = Junk /\ erased' = 0

Dequeue ==
    /\ \E e \in KeyVal :
          /\ bag[e] > 0
          /\ \A f \in KeyVal : bag[f] > 0 => f.key <= e.key
          /\ bag' = [bag EXCEPT ![e] = @ - 1]
          /\ kv' = e
    /\ erased' = 0

\* All that the queue holds with value v, each pair as often as it is there.
Copies(v) == UNION {{e} \X (1 .. bag[e]) : e \in {f \in KeyVal : f.val = v}}

Erase(v) ==
    /\ bag' = [e \in KeyVal |-> IF e.val = v THEN 0 ELSE bag[e]]
    /\ erased' = Cardinality(Copies(v))
    /\ kv' = Junk

Next ==
    \/ \E elem \in KeyVal : Insert(elem)
    \/ Dequeue
    \/ \E v \in Vals : Erase(v)

Spec == Init /\ [][Next]_vars
=============================================================================
