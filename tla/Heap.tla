-------------------------------- MODULE Heap --------------------------------
(***************************************************************************)
(* The array layout of the binary max-heap of containers/queue.h.  m maps  *)
(* the positions 0, 1, 2, ... to records with a key and a val, of which    *)
(* the first n are live.                                                   *)
(***************************************************************************)
EXTENDS Integers

odd(c) == c % 2 = 1

parent(pos) == IF odd(pos) THEN (pos - 1) \div 2 ELSE (pos - 2) \div 2

Swapped(m, i, j) == [m EXCEPT ![i] = m[j], ![j] = m[i]]

\* Slip: the root is compared too late, one level is skipped.
SwimStopsEarly(m, pos) == pos > 2 => m[parent(pos)].key >= m[pos].key

\* swim(pos) returns without a swap.
SwimStops(m, pos) == pos # 0 => m[parent(pos)].key >= m[pos].key

\* children(): the positions below pos among the n live ones.
children(n, pos) == {c \in {2 * pos + 1, 2 * pos + 2} : c < n}

\* Slip: sink() always follows the left child.
LeftChild(m, n, pos) == 2 * pos + 1

\* The child sink() compares with: the larger one, the left one of two equal.
SinkChild(m, n, pos) ==
    LET l == 2 * pos + 1
        r == 2 * pos + 2
    IN  IF r < n /\ m[l].key < m[r].key THEN r ELSE l

\* sink(pos) returns without a swap.
SinkStops(m, n, pos) ==
    children(n, pos) # {} => m[pos].key >= m[SinkChild(m, n, pos)].key

\* The heap property: no live entry is larger than its parent.
HeapOrdered(m, n) == \A i \in 1 .. (n - 1) : m[parent(i)].key >= m[i].key
=============================================================================
