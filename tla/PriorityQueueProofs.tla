------------------------ MODULE PriorityQueueProofs ------------------------
(***************************************************************************)
(* Proofs about priority_queue<K, V>: the heap property, the bounds of its *)
(* array, and that it implements a bag of which dequeue() takes a largest  *)
(* element, for every number of elements, every capacity and every set of  *)
(* keys.  With the same lemmas: the ready list of HeapScheduler is a heap, *)
(* and HeapScheduler implements Scheduler.                                 *)
(***************************************************************************)
EXTENDS PriorityQueue, HeapScheduler, FiniteSetTheorems, WellFoundedInduction, TLAPS

-----------------------------------------------------------------------------
(* Positions.                                                              *)

\* parent() goes towards the root and inverts the child positions.
LEMMA ParentFacts ==
    ASSUME NEW c \in Nat, c >= 1
    PROVE  /\ parent(c) \in Nat /\ parent(c) < c
           /\ c = 2 * parent(c) + 1 \/ c = 2 * parent(c) + 2
  BY DEF parent, odd

\* The children of a position are the two that parent() maps to it.
LEMMA ChildFacts ==
    ASSUME NEW p \in Nat, NEW c \in Nat, c >= 1, parent(c) = p
    PROVE  c = 2 * p + 1 \/ c = 2 * p + 2
  BY ParentFacts

\* parent() of either child is the node itself.
LEMMA ParentOfChild ==
    ASSUME NEW p \in Nat
    PROVE  parent(2 * p + 1) = p /\ parent(2 * p + 2) = p
  BY DEF parent, odd

-----------------------------------------------------------------------------
(* The loop invariants of swim() and sink().                               *)

\* An array of s elements of E
Array(E, m, s) == m \in [0 .. (s - 1) -> E]

\* with keys that can be compared.
Keyed(E) == \A e \in E : e.key \in Int

\* While swim(p) is at work, only p may be larger than its parent, and the
\* children of p are in order with the parent of p.
Swimming(m, n, p) ==
    /\ p < n
    /\ \A c \in 1 .. (n - 1) : c # p => m[parent(c)].key >= m[c].key
    /\ \A c \in 1 .. (n - 1) :
          p # 0 /\ parent(c) = p => m[parent(p)].key >= m[c].key

\* While sink(p) is at work, only children of p may be larger than p, and they
\* are in order with the parent of p.
Sinking(m, n, p) ==
    /\ p < n \/ p = 0
    /\ \A c \in 1 .. (n - 1) : parent(c) # p => m[parent(c)].key >= m[c].key
    /\ \A c \in 1 .. (n - 1) :
          p # 0 /\ parent(c) = p => m[parent(p)].key >= m[c].key

QueueInv ==
    /\ TypeOK
    /\ InBounds
    /\ size >= 1 /\ psize >= 1
    /\ pc = "idle" => HeapOrdered(mem, count)
    /\ pc = "swim" => Swimming(mem, count, pos)
    /\ pc = "sink" => Sinking(mem, count, pos)
    /\ pc = "erase" => HeapOrdered(pmem, pcount)
    /\ pc = "pswim" => Swimming(pmem, pcount, pos)
    /\ pc \in {"erase", "pswim"} => pcount <= i /\ i <= count

\* The pairs of the queue have keys that can be compared.
LEMMA PairsKeyed == Keyed(KeyVal)
  BY QueueAssumption DEF Keyed, KeyVal

\* A swap keeps the array an array.
LEMMA SwappedArray ==
    ASSUME NEW s \in Nat, NEW E, NEW m, Array(E, m, s),
           NEW a \in 0 .. (s - 1), NEW b \in 0 .. (s - 1)
    PROVE  /\ Array(E, Swapped(m, a, b), s)
           /\ a # b => Swapped(m, a, b)[a] = m[b]
           /\ Swapped(m, a, b)[b] = m[a]
           /\ \A c \in 0 .. (s - 1) : c # a /\ c # b => Swapped(m, a, b)[c] = m[c]
  BY DEF Array, Swapped

\* Keys can be compared.
LEMMA KeyInt ==
    ASSUME NEW s \in Nat, NEW E, Keyed(E), NEW m, Array(E, m, s), NEW c \in 0 .. (s - 1)
    PROVE  m[c].key \in Int
  BY DEF Array, Keyed

\* The swap of swim() moves the exception to the parent.
LEMMA SwimStep ==
    ASSUME NEW s \in Nat, NEW E, Keyed(E), NEW m, Array(E, m, s),
           NEW n \in Nat, n <= s, NEW p \in Nat, Swimming(m, n, p), ~ SwimStops(m, p)
    PROVE  /\ Array(E, Swapped(m, p, parent(p)), s)
           /\ parent(p) \in Nat
           /\ Swimming(Swapped(m, p, parent(p)), n, parent(p))
  <1> DEFINE q == parent(p)
  <1> DEFINE w == Swapped(m, p, q)
  <1>1. p # 0 /\ p < n /\ ~ (m[q].key >= m[p].key)
    BY DEF SwimStops, Swimming
  <1>2. q \in Nat /\ q < p
    BY <1>1, ParentFacts
  <1>3. p \in 0 .. (s - 1) /\ q \in 0 .. (s - 1)
    BY <1>1, <1>2
  <1>4. /\ Array(E, w, s) /\ w[p] = m[q] /\ w[q] = m[p]
        /\ \A c \in 0 .. (s - 1) : c # p /\ c # q => w[c] = m[c]
    <2> HIDE DEF q
    <2> QED BY <1>2, <1>3, SwappedArray
  <1>5. \A c \in 0 .. (s - 1) : m[c].key \in Int
    BY KeyInt
  <1> HIDE DEF w
  <1>6. ASSUME NEW c \in 1 .. (n - 1), c # q PROVE w[parent(c)].key >= w[c].key
    <2>1. parent(c) \in Nat /\ parent(c) < c /\ c \in 0 .. (s - 1)
          /\ parent(c) \in 0 .. (s - 1)
      BY ParentFacts
    <2>2. CASE c = p
      BY <2>2, <1>1, <1>3, <1>4, <1>5
    <2>3. CASE c # p /\ parent(c) = p
      <3>1. m[q].key >= m[c].key
        BY <1>1, <2>3 DEF Swimming
      <3> QED BY <3>1, <2>1, <2>3, <1>4, <1>6
    <2>4. CASE c # p /\ parent(c) = q
      <3>1. m[q].key >= m[c].key
        BY <2>4 DEF Swimming
      <3> QED BY <3>1, <2>1, <2>4, <1>1, <1>3, <1>4, <1>5, <1>6
    <2>5. CASE c # p /\ parent(c) # p /\ parent(c) # q
      <3>1. m[parent(c)].key >= m[c].key
        BY <2>5 DEF Swimming
      <3> QED BY <3>1, <2>1, <2>5, <1>4, <1>6
    <2> QED BY <2>2, <2>3, <2>4, <2>5
  <1>7. ASSUME NEW c \in 1 .. (n - 1), q # 0, parent(c) = q
        PROVE  w[parent(q)].key >= w[c].key
    <2>1. parent(q) \in Nat /\ parent(q) < q /\ q \in 1 .. (n - 1)
          /\ parent(q) \in 0 .. (s - 1) /\ c \in 0 .. (s - 1) /\ c # q
      BY <1>1, <1>2, <1>7, ParentFacts
    <2>2. m[parent(q)].key >= m[q].key
      BY <2>1, <1>2 DEF Swimming
    <2>3. w[parent(q)] = m[parent(q)]
      BY <2>1, <1>2, <1>4
    <2>4. CASE c = p
      BY <2>2, <2>3, <2>4, <1>4
    <2>5. CASE c # p
      <3>1. m[q].key >= m[c].key
        BY <1>7, <2>5 DEF Swimming
      <3> QED BY <3>1, <2>1, <2>2, <2>3, <2>5, <1>3, <1>4, <1>5
    <2> QED BY <2>4, <2>5
  <1>8. q < n
    BY <1>1, <1>2
  <1>9. Swimming(w, n, q)
    BY <1>6, <1>7, <1>8 DEF Swimming
  <1> QED BY <1>2, <1>4, <1>9 DEF w

\* When swim() stops, the array is a heap.
LEMMA SwimEnd ==
    ASSUME NEW m, NEW n \in Nat, NEW p \in Nat, Swimming(m, n, p), SwimStops(m, p)
    PROVE  HeapOrdered(m, n)
  BY DEF Swimming, SwimStops, HeapOrdered

\* When sink() stops, the array is a heap: the larger child is no larger.
LEMMA SinkEnd ==
    ASSUME NEW s \in Nat, NEW E, Keyed(E), NEW m, Array(E, m, s),
           NEW n \in Nat, n <= s, NEW p \in Nat, Sinking(m, n, p), SinkStops(m, n, p)
    PROVE  HeapOrdered(m, n)
  <1> SUFFICES ASSUME NEW c \in 1 .. (n - 1) PROVE m[parent(c)].key >= m[c].key
    BY DEF HeapOrdered
  <1>1. CASE parent(c) # p
    BY <1>1 DEF Sinking
  <1>2. CASE parent(c) = p
    <2>1. c = 2 * p + 1 \/ c = 2 * p + 2
      BY <1>2, ChildFacts
    <2>2. \A d \in 0 .. (s - 1) : m[d].key \in Int
      BY KeyInt
    <2>3. p \in 0 .. (s - 1) /\ c \in 0 .. (s - 1) /\ 2 * p + 1 \in 0 .. (s - 1)
      BY <2>1
    <2>4. children(n, p) # {}
      BY <2>1 DEF children
    <2>5. m[p].key >= m[SinkChild(m, n, p)].key
      BY <2>4 DEF SinkStops
    <2>6. CASE 2 * p + 2 < n /\ m[2 * p + 1].key < m[2 * p + 2].key
      <3>1. SinkChild(m, n, p) = 2 * p + 2 /\ 2 * p + 2 \in 0 .. (s - 1)
        BY <2>6 DEF SinkChild
      <3> QED BY <3>1, <1>2, <2>1, <2>2, <2>3, <2>5, <2>6
    <2>7. CASE ~ (2 * p + 2 < n /\ m[2 * p + 1].key < m[2 * p + 2].key)
      <3>1. SinkChild(m, n, p) = 2 * p + 1
        BY <2>7 DEF SinkChild
      <3> QED BY <3>1, <1>2, <2>1, <2>2, <2>3, <2>5, <2>7
    <2> QED BY <2>6, <2>7
  <1> QED BY <1>1, <1>2

\* The swap of sink() moves the exception to the larger child.
LEMMA SinkStep ==
    ASSUME NEW s \in Nat, NEW E, Keyed(E), NEW m, Array(E, m, s),
           NEW n \in Nat, n <= s, NEW p \in Nat, Sinking(m, n, p), ~ SinkStops(m, n, p)
    PROVE  /\ Array(E, Swapped(m, p, SinkChild(m, n, p)), s)
           /\ SinkChild(m, n, p) \in Nat
           /\ Sinking(Swapped(m, p, SinkChild(m, n, p)), n, SinkChild(m, n, p))
  <1> DEFINE q == SinkChild(m, n, p)
  <1> DEFINE w == Swapped(m, p, q)
  <1>1. children(n, p) # {} /\ ~ (m[p].key >= m[q].key)
    BY DEF SinkStops
  <1>2. 2 * p + 1 < n
    BY <1>1 DEF children
  <1>3. \A c \in 0 .. (s - 1) : m[c].key \in Int
    BY KeyInt
  <1>4. /\ q \in Nat /\ q < n /\ parent(q) = p /\ p < q
        /\ q = 2 * p + 1 \/ q = 2 * p + 2
        /\ m[q].key >= m[2 * p + 1].key
        /\ 2 * p + 2 < n => m[q].key >= m[2 * p + 2].key
    <2>1. 2 * p + 1 \in 0 .. (s - 1) /\ (2 * p + 2 < n => 2 * p + 2 \in 0 .. (s - 1))
      BY <1>2
    <2> QED BY <1>2, <1>3, <2>1, ParentOfChild DEF SinkChild
  <1>5. p \in 0 .. (s - 1) /\ q \in 0 .. (s - 1) /\ p # q
    BY <1>2, <1>4
  <1> HIDE DEF q
  <1>6. /\ Array(E, w, s) /\ w[p] = m[q] /\ w[q] = m[p]
        /\ \A c \in 0 .. (s - 1) : c # p /\ c # q => w[c] = m[c]
    BY <1>5, SwappedArray
  <1> HIDE DEF w
  <1>7. ASSUME NEW c \in 1 .. (n - 1), parent(c) # q PROVE w[parent(c)].key >= w[c].key
    <2>1. parent(c) \in Nat /\ parent(c) < c /\ c \in 0 .. (s - 1)
          /\ parent(c) \in 0 .. (s - 1)
      BY ParentFacts
    <2>2. CASE c = q
      BY <2>2, <1>1, <1>3, <1>4, <1>5, <1>6
    <2>3. CASE c # q /\ parent(c) = p
      <3>1. m[q].key >= m[c].key
        BY <2>3, <1>4, ChildFacts
      <3> QED BY <3>1, <2>1, <2>3, <1>6
    <2>4. CASE parent(c) # p /\ c = p
      <3>1. m[parent(p)].key >= m[q].key
        BY <2>4, <1>4 DEF Sinking
      <3> QED BY <3>1, <2>1, <2>4, <1>6, <1>7
    <2>5. CASE parent(c) # p /\ c # p /\ c # q
      <3>1. m[parent(c)].key >= m[c].key
        BY <2>5 DEF Sinking
      <3> QED BY <3>1, <2>1, <2>5, <1>6, <1>7
    <2> QED BY <2>2, <2>3, <2>4, <2>5
  <1>8. ASSUME NEW c \in 1 .. (n - 1), parent(c) = q
        PROVE  w[parent(q)].key >= w[c].key
    <2>1. m[q].key >= m[c].key
      BY <1>4, <1>8 DEF Sinking
    <2>2. c \in 0 .. (s - 1) /\ c # p /\ c # q
      BY <1>4, <1>8, ParentFacts
    <2> QED BY <2>1, <2>2, <1>4, <1>6
  <1>9. Sinking(w, n, q)
    BY <1>4, <1>7, <1>8 DEF Sinking
  <1> QED BY <1>4, <1>6, <1>9 DEF w, q

-----------------------------------------------------------------------------
(* The operations.                                                         *)

\* Behind insert()'s write the array is in bounds and swim() may start at the
\* new element.
LEMMA AppendedFacts ==
    ASSUME NEW s \in Nat, s >= 1, NEW m, Array(KeyVal, m, s), NEW n \in Nat, n <= s,
           NEW e \in KeyVal, HeapOrdered(m, n)
    PROVE  /\ Room(s, n) \in Nat /\ Room(s, n) >= 1 /\ n + 1 <= Room(s, n)
           /\ Array(KeyVal, Appended(m, s, n, e), Room(s, n))
           /\ Swimming(Appended(m, s, n, e), n + 1, n)
  <1> DEFINE t == Room(s, n)
  <1> DEFINE g == IF Room(s, n) > s THEN Grown(m, s, n) ELSE m
  <1> DEFINE w == Appended(m, s, n, e)
  <1>1. t \in Nat /\ t >= 1 /\ n + 1 <= t /\ (t > s => t = 2 * s) /\ (~ (t > s) => t = s)
    BY DEF Room
  <1>2. /\ g \in [0 .. (t - 1) -> KeyVal]
        /\ \A c \in 0 .. (n - 1) : g[c] = m[c]
    <2>1. CASE t > s
      BY <1>1, <2>1, QueueAssumption DEF Array, Grown
    <2>2. CASE ~ (t > s)
      BY <1>1, <2>2 DEF Array
    <2> QED BY <2>1, <2>2
  <1> HIDE DEF t
  <1>3. w = [g EXCEPT ![n] = e]
    BY DEF Appended
  <1> HIDE DEF g, w
  <1>4. /\ w \in [0 .. (t - 1) -> KeyVal]
        /\ \A c \in 0 .. (n - 1) : w[c] = m[c]
    BY <1>1, <1>2, <1>3
  <1>5. ASSUME NEW c \in 1 .. n, c # n PROVE w[parent(c)].key >= w[c].key
    <2>1. parent(c) \in 0 .. (n - 1) /\ c \in 0 .. (n - 1) /\ c \in 1 .. (n - 1)
      BY <1>5, ParentFacts
    <2> QED BY <2>1, <1>4 DEF HeapOrdered
  <1>6. ASSUME NEW c \in 1 .. n PROVE parent(c) # n
    BY ParentFacts
  <1>7. Swimming(w, n + 1, n)
    BY <1>5, <1>6 DEF Swimming
  <1> QED BY <1>1, <1>4, <1>7 DEF Array, w, t

\* A new queue is empty.
LEMMA NewMemFacts ==
    /\ Array(KeyVal, NewMem(StartSize), StartSize)
    /\ \A m : HeapOrdered(m, 0)
  BY QueueAssumption DEF Array, NewMem, HeapOrdered

\* After the last element has been moved to the root, sink() may start there.
LEMMA DequeuedFacts ==
    ASSUME NEW s \in Nat, NEW E, Keyed(E), NEW m, Array(E, m, s), NEW n \in Nat, n <= s, n > 0,
           HeapOrdered(m, n)
    PROVE  /\ Array(E, [m EXCEPT ![0] = m[n - 1]], s)
           /\ Sinking([m EXCEPT ![0] = m[n - 1]], n - 1, 0)
           /\ m[0] \in E
  <1> DEFINE w == [m EXCEPT ![0] = m[n - 1]]
  <1>1. /\ Array(E, w, s) /\ m[0] \in E
        /\ \A c \in 1 .. (s - 1) : w[c] = m[c]
    BY DEF Array
  <1> HIDE DEF w
  <1>2. ASSUME NEW c \in 1 .. ((n - 1) - 1), parent(c) # 0
        PROVE  w[parent(c)].key >= w[c].key
    <2>1. parent(c) \in 1 .. (s - 1) /\ c \in 1 .. (s - 1) /\ c \in 1 .. (n - 1)
      BY <1>2, ParentFacts
    <2> QED BY <2>1, <1>1 DEF HeapOrdered
  <1>3. Sinking(w, n - 1, 0)
    BY <1>2 DEF Sinking
  <1> QED BY <1>1, <1>3 DEF w

\* The constructor establishes the invariant.
LEMMA InitQueue == Init => QueueInv
  <1> SUFFICES ASSUME Init PROVE QueueInv
    OBVIOUS
  <1>1. Junk \in KeyVal /\ Junk.val \in Vals /\ StartSize \in Nat /\ StartSize >= 1
    BY QueueAssumption DEF KeyVal
  <1>2. TypeOK
    BY <1>1, NewMemFacts DEF Init, TypeOK, Array
  <1> QED BY <1>1, <1>2, NewMemFacts DEF Init, QueueInv, InBounds

\* Every call, and every step inside a call, preserves the invariant.
LEMMA NextQueue == QueueInv /\ [Next]_vars => QueueInv'
  <1> SUFFICES ASSUME QueueInv, [Next]_vars PROVE QueueInv'
    OBVIOUS
  <1>0. /\ size \in Nat /\ psize \in Nat /\ count \in Nat /\ pcount \in Nat
        /\ pos \in Nat /\ i \in Nat /\ count <= size /\ pcount <= psize
        /\ Array(KeyVal, mem, size) /\ Array(KeyVal, pmem, psize)
    BY DEF QueueInv, TypeOK, InBounds, Array
  <1>00. Junk \in KeyVal /\ Junk.val \in Vals /\ StartSize \in Nat /\ StartSize >= 1
    BY QueueAssumption DEF KeyVal
  <1>1. ASSUME NEW e \in KeyVal, Insert(e) PROVE QueueInv'
    <2>1. /\ size' \in Nat /\ size' >= 1 /\ count' <= size'
          /\ Array(KeyVal, mem', size') /\ Swimming(mem', count', pos')
      BY <1>0, <1>1, AppendedFacts DEF Insert, QueueInv
    <2>2. TypeOK'
      BY <1>0, <1>00, <1>1, <2>1 DEF Insert, QueueInv, TypeOK, Array, built
    <2>3. pcount' <= psize' /\ psize' >= 1 /\ pc' = "swim"
      BY <1>0, <1>1 DEF Insert, QueueInv, built
    <2> QED BY <2>1, <2>2, <2>3 DEF QueueInv, InBounds
  <1>2. CASE Swim
    <2>1. CASE SwimStops(mem, pos) /\ pc' = "idle" /\ UNCHANGED <<mem, pos>>
      <3>1. HeapOrdered(mem', count')
        BY <1>0, <1>2, <2>1, SwimEnd DEF Swim, QueueInv
      <3>2. TypeOK'
        BY <1>2, <2>1 DEF Swim, QueueInv, TypeOK, built
      <3> QED BY <1>2, <2>1, <3>1, <3>2 DEF Swim, QueueInv, InBounds, built
    <2>2. CASE /\ ~ SwimStops(mem, pos) /\ mem' = Swapped(mem, pos, parent(pos))
               /\ pos' = parent(pos) /\ UNCHANGED pc
      <3>1. Array(KeyVal, mem', size) /\ pos' \in Nat /\ Swimming(mem', count, pos')
        BY <1>0, <1>2, <2>2, SwimStep, PairsKeyed DEF Swim, QueueInv
      <3>2. TypeOK'
        BY <1>2, <2>2, <3>1 DEF Swim, QueueInv, TypeOK, built, Array
      <3> QED BY <1>2, <2>2, <3>1, <3>2 DEF Swim, QueueInv, InBounds, built
    <2> QED BY <1>2, <2>1, <2>2 DEF Swim
  <1>3. CASE Dequeue
    <2>1. /\ Array(KeyVal, mem', size) /\ Sinking(mem', count', 0) /\ kv' \in KeyVal
          /\ count' \in Nat /\ count' <= size
      <3>1. HeapOrdered(mem, count) /\ count > 0
        BY <1>3 DEF Dequeue, QueueInv
      <3>2. /\ Array(KeyVal, [mem EXCEPT ![0] = mem[count - 1]], size)
            /\ Sinking([mem EXCEPT ![0] = mem[count - 1]], count - 1, 0)
            /\ mem[0] \in KeyVal
        BY <1>0, <3>1, DequeuedFacts, PairsKeyed
      <3> QED BY <1>0, <1>3, <3>1, <3>2 DEF Dequeue
    <2>2. TypeOK'
      BY <1>3, <2>1 DEF Dequeue, QueueInv, TypeOK, built, Array
    <2> QED BY <1>3, <2>1, <2>2 DEF Dequeue, QueueInv, InBounds, built
  <1>4. CASE Sink
    <2>1. CASE SinkStops(mem, count, pos) /\ pc' = "idle" /\ UNCHANGED <<mem, pos>>
      <3>1. HeapOrdered(mem', count')
        BY <1>0, <1>4, <2>1, SinkEnd, PairsKeyed DEF Sink, QueueInv
      <3>2. TypeOK'
        BY <1>4, <2>1 DEF Sink, QueueInv, TypeOK, built
      <3> QED BY <1>4, <2>1, <3>1, <3>2 DEF Sink, QueueInv, InBounds, built
    <2>2. CASE /\ ~ SinkStops(mem, count, pos)
               /\ mem' = Swapped(mem, pos, SinkChild(mem, count, pos))
               /\ pos' = SinkChild(mem, count, pos) /\ UNCHANGED pc
      <3>1. Array(KeyVal, mem', size) /\ pos' \in Nat /\ Sinking(mem', count, pos')
        BY <1>0, <1>4, <2>2, SinkStep, PairsKeyed DEF Sink, QueueInv
      <3>2. TypeOK'
        BY <1>4, <2>2, <3>1 DEF Sink, QueueInv, TypeOK, built, Array
      <3> QED BY <1>4, <2>2, <3>1, <3>2 DEF Sink, QueueInv, InBounds, built
    <2> QED BY <1>4, <2>1, <2>2 DEF Sink
  <1>5. ASSUME NEW v \in Vals, Erase(v) PROVE QueueInv'
    <2>1. TypeOK'
      BY <1>0, <1>00, <1>5, NewMemFacts DEF Erase, QueueInv, TypeOK, queue, Array
    <2> QED BY <1>0, <1>00, <1>5, <2>1, NewMemFacts
            DEF Erase, QueueInv, InBounds, queue
  <1>6. CASE EraseTurn
    <2>1. CASE /\ pmem' = Appended(pmem, psize, pcount, mem[i])
               /\ psize' = Room(psize, pcount) /\ pcount' = pcount + 1
               /\ pos' = pcount /\ pc' = "pswim"
      <3>1. mem[i] \in KeyVal
        BY <1>0, <1>6 DEF EraseTurn, Array
      <3>2. /\ psize' \in Nat /\ psize' >= 1 /\ pcount' <= psize'
            /\ Array(KeyVal, pmem', psize') /\ Swimming(pmem', pcount', pos')
        BY <1>0, <1>6, <2>1, <3>1, AppendedFacts DEF EraseTurn, QueueInv
      <3>3. TypeOK'
        BY <1>0, <1>6, <2>1, <3>2 DEF EraseTurn, QueueInv, TypeOK, queue, Array
      <3>4. pcount' <= i' /\ i' <= count'
        BY <1>0, <1>6, <2>1 DEF EraseTurn, QueueInv, queue
      <3> QED BY <1>6, <2>1, <3>2, <3>3, <3>4 DEF EraseTurn, QueueInv, InBounds, queue
    <2>2. CASE UNCHANGED <<built, pos, pc>>
      <3>1. TypeOK'
        BY <1>0, <1>6, <2>2 DEF EraseTurn, QueueInv, TypeOK, queue, built
      <3>2. pcount' <= i' /\ i' <= count'
        BY <1>0, <1>6, <2>2 DEF EraseTurn, QueueInv, queue, built
      <3> QED BY <1>6, <2>2, <3>1, <3>2 DEF EraseTurn, QueueInv, InBounds, queue, built
    <2> QED BY <1>6, <2>1, <2>2 DEF EraseTurn
  <1>7. CASE EraseSwim
    <2>1. CASE SwimStops(pmem, pos) /\ pc' = "erase" /\ UNCHANGED <<pmem, pos>>
      <3>1. HeapOrdered(pmem', pcount')
        BY <1>0, <1>7, <2>1, SwimEnd DEF EraseSwim, QueueInv
      <3>2. TypeOK'
        BY <1>7, <2>1 DEF EraseSwim, QueueInv, TypeOK, queue
      <3> QED BY <1>7, <2>1, <3>1, <3>2 DEF EraseSwim, QueueInv, InBounds, queue
    <2>2. CASE /\ ~ SwimStops(pmem, pos) /\ pmem' = Swapped(pmem, pos, parent(pos))
               /\ pos' = parent(pos) /\ UNCHANGED pc
      <3>1. Array(KeyVal, pmem', psize) /\ pos' \in Nat /\ Swimming(pmem', pcount, pos')
        BY <1>0, <1>7, <2>2, SwimStep, PairsKeyed DEF EraseSwim, QueueInv
      <3>2. TypeOK'
        BY <1>7, <2>2, <3>1 DEF EraseSwim, QueueInv, TypeOK, queue, Array
      <3> QED BY <1>7, <2>2, <3>1, <3>2 DEF EraseSwim, QueueInv, InBounds, queue
    <2> QED BY <1>7, <2>1, <2>2 DEF EraseSwim
  <1>8. CASE EraseDone
    <2>1. TypeOK'
      BY <1>0, <1>00, <1>8, NewMemFacts DEF EraseDone, QueueInv, TypeOK, Array
    <2> QED BY <1>0, <1>00, <1>8, <2>1 DEF EraseDone, QueueInv, InBounds
  <1>9. CASE UNCHANGED vars
    BY <1>9 DEF vars, QueueInv, TypeOK, InBounds
  <1> QED BY <1>1, <1>2, <1>3, <1>4, <1>5, <1>6, <1>7, <1>8, <1>9 DEF Next

\* Whatever sequence of calls is made, the array is a heap between calls and
\* its live elements are inside the array.
THEOREM HeapCorrect == Spec => []HeapSound
  <1>1. QueueInv => HeapSound
    BY DEF QueueInv, HeapProperty, HeapSound
  <1> QED BY <1>1, InitQueue, NextQueue, PTL DEF Spec

\* is_correct(), which hangs the kernel when it rejects, accepts between calls
\* every queue but one of a single element: the last position that it looks at
\* has a child among the live elements.
THEOREM DebugCheckPasses == Spec => []DebugCheckAccepts
  <1>1. QueueInv => DebugCheckAccepts
    <2> SUFFICES ASSUME QueueInv, pc = "idle", count # 1
                 PROVE  is_correct
      BY DEF DebugCheckAccepts
    <2>1. count \in Nat /\ HeapOrdered(mem, count)
      BY DEF QueueInv, TypeOK
    <2>2. CASE count = 0
      BY <2>2 DEF is_correct
    <2>3. CASE count >= 2
      <3>1. SUFFICES ASSUME NEW c \in 0 .. ((count - 2) \div 2)
                     PROVE  /\ mem[c].key >= mem[2 * c + 1].key
                            /\ 2 * c + 2 < count => mem[c].key >= mem[2 * c + 2].key
        BY <2>1, <2>3 DEF is_correct
      <3>2. c \in Nat /\ 2 * c + 1 \in 1 .. (count - 1)
        BY <2>1, <2>3
      <3>3. parent(2 * c + 1) = c /\ parent(2 * c + 2) = c
        BY <3>2, ParentOfChild
      <3>4. mem[c].key >= mem[2 * c + 1].key
        BY <3>2, <3>3, <2>1 DEF HeapOrdered
      <3>5. ASSUME 2 * c + 2 < count PROVE mem[c].key >= mem[2 * c + 2].key
        <4>1. 2 * c + 2 \in 1 .. (count - 1)
          BY <3>2, <3>5, <2>1
        <4> QED BY <4>1, <3>3, <2>1 DEF HeapOrdered
      <3> QED BY <3>4, <3>5
    <2> QED BY <2>1, <2>2, <2>3
  <1> QED BY <1>1, InitQueue, NextQueue, PTL DEF Spec


-----------------------------------------------------------------------------
(* How often a pair is in an array.                                        *)

\* The cells among the first n that hold e.
Cells(m, n, e) == {c \in 0 .. (n - 1) : m[c] = e}

\* They are finitely many.
LEMMA CellsFinite ==
    ASSUME NEW m, NEW n \in Nat, NEW e
    PROVE  IsFiniteSet(Cells(m, n, e)) /\ Cardinality(Cells(m, n, e)) \in Nat
  <1>1. IsFiniteSet(0 .. (n - 1))
    BY FS_Interval
  <1>2. Cells(m, n, e) \in SUBSET (0 .. (n - 1))
    BY DEF Cells
  <1>3. IsFiniteSet(Cells(m, n, e))
    BY <1>1, <1>2, FS_Subset
  <1> QED BY <1>3, FS_CardinalityType

\* One cell more.
LEMMA CellsStep ==
    ASSUME NEW m, NEW n \in Nat, NEW e
    PROVE  Cardinality(Cells(m, n + 1, e)) =
               Cardinality(Cells(m, n, e)) + (IF m[n] = e THEN 1 ELSE 0)
  <1>1. IsFiniteSet(Cells(m, n, e)) /\ Cardinality(Cells(m, n, e)) \in Nat
    BY CellsFinite
  <1>2. n \notin Cells(m, n, e)
    BY DEF Cells
  <1>3. CASE m[n] = e
    <2>1. Cells(m, n + 1, e) = Cells(m, n, e) \cup {n}
      BY <1>3 DEF Cells
    <2>2. Cardinality(Cells(m, n, e) \cup {n}) = Cardinality(Cells(m, n, e)) + 1
      BY <1>1, <1>2, FS_AddElement
    <2> QED BY <1>3, <2>1, <2>2
  <1>4. CASE m[n] # e
    <2>1. Cells(m, n + 1, e) = Cells(m, n, e)
      BY <1>4 DEF Cells
    <2> QED BY <1>1, <1>4, <2>1
  <1> QED BY <1>3, <1>4

\* Only the live cells count.
LEMMA CellsSame ==
    ASSUME NEW m, NEW w, NEW n \in Nat, \A c \in 0 .. (n - 1) : w[c] = m[c], NEW e
    PROVE  Cells(w, n, e) = Cells(m, n, e)
  BY DEF Cells

\* A swap keeps every pair.
LEMMA CellsSwapped ==
    ASSUME NEW s \in Nat, NEW E, NEW m, Array(E, m, s), NEW n \in Nat, n <= s,
           NEW a \in 0 .. (n - 1), NEW b \in 0 .. (n - 1), NEW e
    PROVE  Cardinality(Cells(Swapped(m, a, b), n, e)) = Cardinality(Cells(m, n, e))
  <1> DEFINE w == Swapped(m, a, b)
             D == Cells(m, n, e)
             T == Cells(w, n, e)
             f == [c \in D |-> IF c = a THEN b ELSE IF c = b THEN a ELSE c]
  <1>1. a \in 0 .. (s - 1) /\ b \in 0 .. (s - 1) /\ \A c \in 0 .. (n - 1) : c \in 0 .. (s - 1)
    OBVIOUS
  <1>2. w[a] = m[b] /\ w[b] = m[a]
        /\ \A c \in 0 .. (n - 1) : c # a /\ c # b => w[c] = m[c]
    <2>1. CASE a = b
      BY <2>1, <1>1, SwappedArray
    <2>2. CASE a # b
      BY <2>2, <1>1, SwappedArray
    <2> QED BY <2>1, <2>2
  <1> HIDE DEF w
  <1>3. \A c \in 0 .. (n - 1) : c \in D <=> m[c] = e
    BY DEF Cells
  <1>4. \A c \in 0 .. (n - 1) : c \in T <=> w[c] = e
    BY DEF Cells
  <1>5. D \subseteq 0 .. (n - 1) /\ T \subseteq 0 .. (n - 1)
    BY DEF Cells
  <1> HIDE DEF D, T
  <1>6. f \in [D -> T]
    BY <1>2, <1>3, <1>4, <1>5
  <1>7. \A c, d \in D : f[c] = f[d] => c = d
    BY <1>5
  <1>8. \A d \in T : \E c \in D : f[c] = d
    <2>1. SUFFICES ASSUME NEW d \in T PROVE \E c \in D : f[c] = d
      OBVIOUS
    <2>2. CASE d = a
      <3>1. b \in D
        BY <2>2, <1>2, <1>3, <1>4
      <3>2. f[b] = d
        BY <2>2, <3>1
      <3> QED BY <3>1, <3>2
    <2>3. CASE d = b
      <3>1. a \in D
        BY <2>3, <1>2, <1>3, <1>4
      <3>2. f[a] = d
        BY <2>3, <3>1
      <3> QED BY <3>1, <3>2
    <2>4. CASE d # a /\ d # b
      <3>1. d \in D
        BY <2>4, <1>2, <1>3, <1>4, <1>5
      <3>2. f[d] = d
        BY <2>4, <3>1
      <3> QED BY <3>1, <3>2
    <2> QED BY <2>2, <2>3, <2>4
  <1> HIDE DEF f
  <1>9. f \in Bijection(D, T)
    BY <1>6, <1>7, <1>8 DEF Bijection, Injection, Surjection, IsInjective
  <1>10. ExistsBijection(D, T)
    BY <1>9 DEF ExistsBijection
  <1>11. IsFiniteSet(D)
    BY CellsFinite DEF D
  <1>12. Cardinality(T) = Cardinality(D)
    BY <1>10, <1>11, FS_Bijection
  <1> QED BY <1>12 DEF D, T, w

\* insert() adds one copy of its element.
LEMMA CellsAppended ==
    ASSUME NEW s \in Nat, s >= 1, NEW m, Array(KeyVal, m, s), NEW n \in Nat, n <= s,
           NEW x \in KeyVal, NEW e
    PROVE  Cardinality(Cells(Appended(m, s, n, x), n + 1, e)) =
               Cardinality(Cells(m, n, e)) + (IF x = e THEN 1 ELSE 0)
  <1> DEFINE g == IF Room(s, n) > s THEN Grown(m, s, n) ELSE m
             w == Appended(m, s, n, x)
             t == Room(s, n)
  <1>0. t \in Nat /\ n + 1 <= t /\ (t > s => t = 2 * s) /\ (~ (t > s) => t = s)
    BY DEF Room
  <1>1. g \in [0 .. (t - 1) -> KeyVal] /\ \A c \in 0 .. (n - 1) : g[c] = m[c]
    <2>1. CASE t > s
      BY <1>0, <2>1, QueueAssumption DEF Array, Grown
    <2>2. CASE ~ (t > s)
      BY <1>0, <2>2 DEF Array
    <2> QED BY <2>1, <2>2
  <1> HIDE DEF t
  <1>2. w = [g EXCEPT ![n] = x]
    BY DEF Appended
  <1> HIDE DEF g, w
  <1>3. w[n] = x /\ \A c \in 0 .. (n - 1) : w[c] = m[c]
    BY <1>0, <1>1, <1>2
  <1>4. Cells(w, n, e) = Cells(m, n, e)
    BY <1>3, CellsSame
  <1>5. Cardinality(Cells(w, n + 1, e)) =
            Cardinality(Cells(w, n, e)) + (IF w[n] = e THEN 1 ELSE 0)
    BY CellsStep
  <1> QED BY <1>3, <1>4, <1>5 DEF w

\* dequeue() takes one copy of the root.
LEMMA CellsDequeued ==
    ASSUME NEW s \in Nat, NEW E, NEW m, Array(E, m, s), NEW n \in Nat, n <= s, n > 0,
           NEW w, NEW l, l = n - 1, w[0] = m[l],
           \A c \in 1 .. l : w[c] = m[c], NEW e
    PROVE  Cardinality(Cells(m, n, e)) =
               Cardinality(Cells(w, l, e)) + (IF m[0] = e THEN 1 ELSE 0)
  <1>1. l \in Nat
    OBVIOUS
  <1>2. 0 \in 0 .. (n - 1) /\ l \in 0 .. (n - 1) /\ l \in 0 .. (s - 1) /\ 0 \in 0 .. (s - 1)
    BY <1>1
  <1>3. PICK u : u = Swapped(m, 0, l)
    OBVIOUS
  <1>4. u[l] = m[0] /\ \A c \in 0 .. (l - 1) : w[c] = u[c]
    BY <1>1, <1>2, <1>3 DEF Array, Swapped
  <1>5. Cells(w, l, e) = Cells(u, l, e)
    BY ONLY <1>1, <1>4, CellsSame
  <1>6. Cardinality(Cells(u, n, e)) = Cardinality(Cells(m, n, e))
    BY <1>2, <1>3, CellsSwapped
  <1>7. Cardinality(Cells(u, l + 1, e)) =
            Cardinality(Cells(u, l, e)) + (IF u[l] = e THEN 1 ELSE 0)
    BY <1>1, CellsStep
  <1>8. l + 1 = n
    BY <1>1
  <1> QED BY <1>4, <1>5, <1>6, <1>7, <1>8


\* The root of a heap is a largest element: a smallest position with a larger one
\* would have a parent with a larger one.
LEMMA RootIsLargest ==
    ASSUME NEW s \in Nat, NEW E, Keyed(E), NEW m, Array(E, m, s),
           NEW n \in Nat, n <= s, HeapOrdered(m, n)
    PROVE  \A c \in 0 .. (n - 1) : m[c].key <= m[0].key
  <1> DEFINE Bad == {c \in 0 .. (n - 1) : ~ (m[c].key <= m[0].key)}
  <1>1. SUFFICES ASSUME Bad # {} PROVE FALSE
    OBVIOUS
  <1>2. Bad \subseteq Nat
    OBVIOUS
  <1>3. PICK c \in Bad : \A d \in Bad : ~ (<<d, c>> \in OpToRel(<, Nat))
    <2> HIDE DEF Bad
    <2> QED BY <1>1, <1>2, WFMin, NatLessThanWellFounded, Zenon
  <1>4. \A d \in Bad : ~ (d < c)
    <2> HIDE DEF Bad
    <2>1. SUFFICES ASSUME NEW d \in Bad PROVE ~ (d < c)
      OBVIOUS
    <2>2. d \in Nat /\ c \in Nat
      BY <1>2
    <2> QED BY <1>3, <2>2, Zenon DEF OpToRel
  <1>5. c \in 0 .. (n - 1) /\ ~ (m[c].key <= m[0].key)
    OBVIOUS
  <1>6. \A d \in 0 .. (n - 1) : m[d].key \in Int
    BY KeyInt
  <1>7. c # 0
    BY <1>5, <1>6
  <1>8. c \in Nat /\ c >= 1 /\ c \in 1 .. (n - 1)
    BY <1>5, <1>7
  <1>9. PICK p \in Nat : p = parent(c) /\ p < c
    BY <1>8, ParentFacts
  <1>10. m[p].key >= m[c].key
    BY <1>8, <1>9 DEF HeapOrdered
  <1>11. p \in 0 .. (n - 1) /\ ~ (p \in Bad)
    <2> HIDE DEF Bad
    <2> QED BY <1>4, <1>5, <1>9
  <1>12. m[p].key <= m[0].key
    BY <1>11
  <1>13. m[p].key \in Int /\ m[c].key \in Int /\ m[0].key \in Int
    BY <1>5, <1>6, <1>9, <1>11
  <1> QED BY <1>5, <1>10, <1>12, <1>13

-----------------------------------------------------------------------------
(* The number of pairs with a value.                                       *)

\* The place of cell c among the cells with the same pair.
Rank(m, c) == Cardinality(Cells(m, c + 1, m[c]))

\* The cells of a pair have the ranks from 1 to their number, each once.
LEMMA RankFacts ==
    ASSUME NEW m, NEW n \in Nat, NEW e
    PROVE  LET D == Cells(m, n, e)
               T == 1 .. Cardinality(Cells(m, n, e))
           IN  /\ \A c \in D : Rank(m, c) \in T
               /\ \A c, d \in D : Rank(m, c) = Rank(m, d) => c = d
               /\ \A k \in T : \E c \in D : Rank(m, c) = k
  <1> DEFINE D == Cells(m, n, e)
             N == Cardinality(D)
             T == 1 .. N
             f == [c \in D |-> Rank(m, c)]
  <1>1. IsFiniteSet(D) /\ N \in Nat
    BY CellsFinite
  <1>2. \A c \in D : c \in Nat /\ c < n /\ m[c] = e
    BY DEF Cells
  <1>3. ASSUME NEW c \in D PROVE Rank(m, c) \in T
    <2>1. c \in Nat /\ c < n /\ m[c] = e /\ c + 1 \in Nat
      BY <1>2
    <2>2. PICK U : U = Cells(m, c + 1, e)
      OBVIOUS
    <2>3. IsFiniteSet(U) /\ Cardinality(U) \in Nat
      BY <2>1, <2>2, CellsFinite
    <2>4. c \in U /\ U \in SUBSET D
      BY <2>1, <2>2 DEF Cells
    <2>5. Cardinality(U) <= N
      <3> HIDE DEF D
      <3> QED BY <1>1, <2>4, FS_Subset
    <2>6. Cardinality(U) # 0
      BY <2>3, <2>4, FS_EmptySet
    <2>7. Rank(m, c) = Cardinality(U)
      BY <2>1, <2>2 DEF Rank
    <2> HIDE DEF N
    <2> QED BY <1>1, <2>3, <2>5, <2>6, <2>7
  <1>4. ASSUME NEW c \in D, NEW d \in D, c < d PROVE Rank(m, c) < Rank(m, d)
    <2>1. c \in Nat /\ d \in Nat /\ m[c] = e /\ m[d] = e /\ c + 1 \in Nat /\ d + 1 \in Nat
      BY <1>2
    <2>2. PICK U : U = Cells(m, c + 1, e)
      OBVIOUS
    <2>3. PICK V : V = Cells(m, d + 1, e)
      OBVIOUS
    <2>4. IsFiniteSet(U) /\ IsFiniteSet(V) /\ Cardinality(U) \in Nat /\ Cardinality(V) \in Nat
      BY <2>1, <2>2, <2>3, CellsFinite
    <2>5. U \cup {d} \in SUBSET V /\ d \notin U
      BY <2>1, <2>2, <2>3, <1>4 DEF Cells
    <2>6. Cardinality(U \cup {d}) = Cardinality(U) + 1
      BY <2>4, <2>5, FS_AddElement
    <2>7. Cardinality(U \cup {d}) <= Cardinality(V)
      BY <2>4, <2>5, FS_Subset
    <2>8. Rank(m, c) = Cardinality(U) /\ Rank(m, d) = Cardinality(V)
      BY <2>1, <2>2, <2>3 DEF Rank
    <2> QED BY <2>4, <2>6, <2>7, <2>8
  <1>5. \A c, d \in D : Rank(m, c) = Rank(m, d) => c = d
    <2>1. SUFFICES ASSUME NEW c \in D, NEW d \in D, Rank(m, c) = Rank(m, d)
                   PROVE  c = d
      OBVIOUS
    <2>2. c \in Nat /\ d \in Nat /\ Rank(m, c) \in Int
      BY <1>1, <1>2, <1>3
    <2>3. ~ (c < d) /\ ~ (d < c)
      BY <2>1, <2>2, <1>4
    <2> QED BY <2>2, <2>3
  <1> HIDE DEF D
  <1>6. IsFiniteSet(T) /\ Cardinality(T) = N
    BY <1>1, FS_Interval
  <1>7. f \in [D -> T]
    BY <1>3
  <1>8. f \in Injection(D, T)
    BY <1>5, <1>7 DEF Injection, IsInjective
  <1>9. f \in Surjection(D, T)
    <2> HIDE DEF f, T
    <2> QED BY <1>6, <1>8, FS_Injection DEF N
  <1>10. \A k \in T : \E c \in D : f[c] = k
    <2> HIDE DEF f, T
    <2> QED BY <1>9 DEF Surjection
  <1>11. \A k \in T : \E c \in D : Rank(m, c) = k
    BY <1>10
  <1> QED BY <1>3, <1>5, <1>11 DEF D

\* The cells among the first n whose pair has value v.
Dropped(m, n, v) == {c \in 0 .. (n - 1) : m[c].val = v}

\* The cells whose pair has value v are as many as the copies of these pairs.
LEMMA CopiesCounted ==
    ASSUME NEW s \in Nat, NEW m, Array(KeyVal, m, s), NEW n \in Nat, n <= s, NEW v,
           NEW all, all = UNION {{e} \X (1 .. Cardinality(Cells(m, n, e)))
                                    : e \in {g \in KeyVal : g.val = v}}
    PROVE  Cardinality(Dropped(m, n, v)) = Cardinality(all)
  <1> DEFINE D == Dropped(m, n, v)
             E == {g \in KeyVal : g.val = v}
             Upto(e) == 1 .. Cardinality(Cells(m, n, e))
             T == UNION {{e} \X Upto(e) : e \in E}
             f == [c \in D |-> <<m[c], Rank(m, c)>>]
  <1>1. \A c \in D : m[c] \in E /\ c \in Cells(m, n, m[c])
    BY DEF Array, Cells, Dropped
  <1>2. \A e \in E : \A c \in Cells(m, n, e) : c \in D /\ m[c] = e
    BY DEF Cells, Dropped
  <1>3. \A e : /\ \A c \in Cells(m, n, e) : Rank(m, c) \in Upto(e)
               /\ \A c, d \in Cells(m, n, e) : Rank(m, c) = Rank(m, d) => c = d
               /\ \A k \in Upto(e) : \E c \in Cells(m, n, e) : Rank(m, c) = k
    BY RankFacts
  <1>4. IsFiniteSet(D)
    <2>1. IsFiniteSet(0 .. (n - 1)) /\ D \in SUBSET (0 .. (n - 1))
      BY FS_Interval DEF Dropped
    <2> QED BY <2>1, FS_Subset
  <1> HIDE DEF D, E, Upto
  <1>5. f \in [D -> T]
    BY <1>1, <1>3
  <1>6. \A c, d \in D : f[c] = f[d] => c = d
    BY <1>1, <1>3
  <1>7. \A y \in T : \E c \in D : f[c] = y
    <2>1. SUFFICES ASSUME NEW y \in T PROVE \E c \in D : f[c] = y
      OBVIOUS
    <2>2. PICK e \in E : y \in {e} \X Upto(e)
      OBVIOUS
    <2>3. PICK k \in Upto(e) : y = <<e, k>>
      BY <2>2
    <2>4. PICK c \in Cells(m, n, e) : Rank(m, c) = k
      BY <1>3
    <2> QED BY <1>2, <2>3, <2>4
  <1> HIDE DEF f, T
  <1>8. f \in Bijection(D, T)
    BY <1>5, <1>6, <1>7 DEF Bijection, Injection, Surjection, IsInjective
  <1>9. ExistsBijection(D, T)
    BY <1>8 DEF ExistsBijection
  <1>10. Cardinality(T) = Cardinality(D)
    BY <1>4, <1>9, FS_Bijection
  <1> QED BY <1>10 DEF D, T, E, Upto


-----------------------------------------------------------------------------
(* The heap implements the bag.                                            *)

\* erase() has brought over the pairs with other values among the first i cells
\* and no pair with its own, and each of these cells is in the one place or in
\* the count of those to delete.
Erasing ==
    pc \in {"erase", "pswim"} =>
        /\ \A e \in KeyVal : Cardinality(Cells(pmem, pcount, e)) =
                                 IF e.val = val THEN 0 ELSE Cardinality(Cells(mem, i, e))
        /\ pcount + Cardinality(Dropped(mem, i, val)) = i

BagInv == QueueInv /\ Erasing


\* One cell more to look at.
LEMMA DroppedStep ==
    ASSUME NEW m, NEW n \in Nat, NEW v
    PROVE  /\ Cardinality(Dropped(m, n, v)) \in Nat
           /\ Cardinality(Dropped(m, n + 1, v)) =
                  Cardinality(Dropped(m, n, v)) + (IF m[n].val = v THEN 1 ELSE 0)
  <1>1. IsFiniteSet(0 .. (n - 1)) /\ Dropped(m, n, v) \in SUBSET (0 .. (n - 1))
    BY FS_Interval DEF Dropped
  <1>2. IsFiniteSet(Dropped(m, n, v))
    BY <1>1, FS_Subset
  <1>3. Cardinality(Dropped(m, n, v)) \in Nat
    BY <1>2, FS_CardinalityType
  <1>4. n \notin Dropped(m, n, v)
    BY DEF Dropped
  <1>5. CASE m[n].val = v
    <2>1. Dropped(m, n + 1, v) = Dropped(m, n, v) \cup {n}
      BY <1>5 DEF Dropped
    <2>2. Cardinality(Dropped(m, n, v) \cup {n}) = Cardinality(Dropped(m, n, v)) + 1
      BY <1>2, <1>4, FS_AddElement
    <2> QED BY <1>3, <1>5, <2>1, <2>2
  <1>6. CASE m[n].val # v
    <2>1. Dropped(m, n + 1, v) = Dropped(m, n, v)
      BY <1>6 DEF Dropped
    <2> QED BY <1>3, <1>6, <2>1
  <1> QED BY <1>5, <1>6

\* Of no cells, none holds anything.
LEMMA NoCells ==
    ASSUME NEW m, NEW x
    PROVE  Cardinality(Cells(m, 0, x)) = 0 /\ Cardinality(Dropped(m, 0, x)) = 0
  <1>1. Cells(m, 0, x) = {} /\ Dropped(m, 0, x) = {}
    BY DEF Cells, Dropped
  <1> QED BY <1>1, FS_EmptySet

\* swim() swaps two live cells.
LEMMA SwimCells ==
    ASSUME NEW s \in Nat, NEW E, NEW m, Array(E, m, s), NEW n \in Nat, n <= s, NEW p \in Nat,
           Swimming(m, n, p), ~ SwimStops(m, p), NEW e
    PROVE  Cardinality(Cells(Swapped(m, p, parent(p)), n, e)) = Cardinality(Cells(m, n, e))
  <1>1. p >= 1 /\ p \in 0 .. (n - 1)
    BY DEF SwimStops, Swimming
  <1>2. PICK q : q = parent(p)
    OBVIOUS
  <1>3. q \in 0 .. (n - 1)
    BY <1>1, <1>2, ParentFacts
  <1>4. Cardinality(Cells(Swapped(m, p, q), n, e)) = Cardinality(Cells(m, n, e))
    BY <1>1, <1>3, CellsSwapped
  <1> QED BY <1>2, <1>4

\* sink() swaps two live cells.
LEMMA SinkCells ==
    ASSUME NEW s \in Nat, NEW E, NEW m, Array(E, m, s), NEW n \in Nat, n <= s, NEW p \in Nat,
           ~ SinkStops(m, n, p), NEW e
    PROVE  Cardinality(Cells(Swapped(m, p, SinkChild(m, n, p)), n, e)) =
               Cardinality(Cells(m, n, e))
  <1>1. PICK q : q = SinkChild(m, n, p)
    OBVIOUS
  <1>2. q \in 0 .. (n - 1) /\ p \in 0 .. (n - 1)
    BY <1>1 DEF SinkStops, SinkChild, children
  <1>3. Cardinality(Cells(Swapped(m, p, q), n, e)) = Cardinality(Cells(m, n, e))
    BY <1>2, CellsSwapped
  <1> QED BY <1>1, <1>3

\* The rebuilding loop of erase() keeps its account.
LEMMA NextErasing == BagInv /\ [Next]_vars => Erasing'
  <1> SUFFICES ASSUME BagInv, [Next]_vars, pc' \in {"erase", "pswim"}
               PROVE  /\ \A e \in KeyVal : Cardinality(Cells(pmem', pcount', e)) =
                             IF e.val = val' THEN 0 ELSE Cardinality(Cells(mem', i', e))
                      /\ pcount' + Cardinality(Dropped(mem', i', val')) = i'
    BY DEF Erasing
  <1>1. /\ size \in Nat /\ psize \in Nat /\ count \in Nat /\ pcount \in Nat
        /\ pos \in Nat /\ i \in Nat /\ count <= size /\ pcount <= psize /\ psize >= 1
        /\ Array(KeyVal, mem, size) /\ Array(KeyVal, pmem, psize)
    BY DEF BagInv, QueueInv, TypeOK, InBounds, Array
  <1>2. ASSUME NEW v \in Vals, Erase(v)
        PROVE  pcount' = 0 /\ i' = 0
    BY <1>2 DEF Erase
  <1>3. CASE \E v \in Vals : Erase(v)
    <2>1. pcount' = 0 /\ i' = 0
      BY <1>2, <1>3
    <2>2. \A m, x : Cardinality(Cells(m, 0, x)) = 0 /\ Cardinality(Dropped(m, 0, x)) = 0
      BY NoCells
    <2> QED BY <2>1, <2>2
  <1>4. CASE EraseTurn
    <2>1. i < count /\ i' = i + 1 /\ mem' = mem /\ val' = val /\ pc = "erase"
      BY <1>4 DEF EraseTurn, queue
    <2>2. /\ \A e \in KeyVal : Cardinality(Cells(pmem, pcount, e)) =
                 IF e.val = val THEN 0 ELSE Cardinality(Cells(mem, i, e))
          /\ pcount + Cardinality(Dropped(mem, i, val)) = i
      BY <2>1 DEF BagInv, Erasing
    <2>3. PICK x : x = mem[i]
      OBVIOUS
    <2>4. x \in KeyVal
      BY <2>1, <2>3, <1>1 DEF Array
    <2>5. \A e : Cardinality(Cells(mem, i + 1, e)) =
                     Cardinality(Cells(mem, i, e)) + (IF x = e THEN 1 ELSE 0)
      BY <1>1, <2>3, CellsStep
    <2>6. /\ Cardinality(Dropped(mem, i, val)) \in Nat
          /\ Cardinality(Dropped(mem, i + 1, val)) =
                 Cardinality(Dropped(mem, i, val)) + (IF x.val = val THEN 1 ELSE 0)
      BY <1>1, <2>3, DroppedStep
    <2>7. \A e : Cardinality(Cells(mem, i, e)) \in Nat
      BY <1>1, CellsFinite
    <2>8. CASE x.val # val
      <3>1. pmem' = Appended(pmem, psize, pcount, x) /\ pcount' = pcount + 1
        BY <1>4, <2>3, <2>8 DEF EraseTurn
      <3>2. \A e : Cardinality(Cells(pmem', pcount + 1, e)) =
                       Cardinality(Cells(pmem, pcount, e)) + (IF x = e THEN 1 ELSE 0)
        BY <1>1, <2>4, <3>1, CellsAppended
      <3>3. ASSUME NEW e \in KeyVal
            PROVE  Cardinality(Cells(pmem', pcount', e)) =
                       IF e.val = val' THEN 0 ELSE Cardinality(Cells(mem', i', e))
        <4>1. Cardinality(Cells(pmem', pcount', e)) =
                  Cardinality(Cells(pmem, pcount, e)) + (IF x = e THEN 1 ELSE 0)
          BY <3>1, <3>2
        <4>2. Cardinality(Cells(mem', i', e)) =
                  Cardinality(Cells(mem, i, e)) + (IF x = e THEN 1 ELSE 0)
          BY <2>1, <2>5
        <4>3. CASE e.val = val
          BY <4>1, <4>3, <2>1, <2>2, <2>8
        <4>4. CASE e.val # val
          BY <4>1, <4>2, <4>4, <2>1, <2>2
        <4> QED BY <4>3, <4>4
      <3>4. pcount' + Cardinality(Dropped(mem', i', val')) = i'
        BY <1>1, <2>1, <2>2, <2>6, <2>8, <3>1
      <3> QED BY <3>3, <3>4
    <2>9. CASE x.val = val
      <3>1. pmem' = pmem /\ pcount' = pcount
        BY <1>4, <2>3, <2>9 DEF EraseTurn, built
      <3>2. ASSUME NEW e \in KeyVal
            PROVE  Cardinality(Cells(pmem', pcount', e)) =
                       IF e.val = val' THEN 0 ELSE Cardinality(Cells(mem', i', e))
        <4>1. Cardinality(Cells(mem', i', e)) =
                  Cardinality(Cells(mem, i, e)) + (IF x = e THEN 1 ELSE 0)
          BY <2>1, <2>5
        <4>2. CASE e.val = val
          BY <4>2, <2>1, <2>2, <3>1
        <4>3. CASE e.val # val
          BY <4>1, <4>3, <2>1, <2>2, <2>7, <2>9, <3>1
        <4> QED BY <4>2, <4>3
      <3>3. pcount' + Cardinality(Dropped(mem', i', val')) = i'
        BY <1>1, <2>1, <2>2, <2>6, <2>9, <3>1
      <3> QED BY <3>2, <3>3
    <2> QED BY <2>8, <2>9
  <1>5. CASE EraseSwim
    <2>1. pc = "pswim" /\ i' = i /\ mem' = mem /\ val' = val /\ pcount' = pcount
      BY <1>5 DEF EraseSwim, queue
    <2>2. \A e : Cardinality(Cells(pmem', pcount, e)) = Cardinality(Cells(pmem, pcount, e))
      <3>1. CASE SwimStops(pmem, pos)
        BY <1>5, <3>1 DEF EraseSwim
      <3>2. CASE ~ SwimStops(pmem, pos)
        <4>1. pmem' = Swapped(pmem, pos, parent(pos)) /\ Swimming(pmem, pcount, pos)
          BY <1>5, <3>2 DEF EraseSwim, BagInv, QueueInv
        <4> QED BY <1>1, <3>2, <4>1, SwimCells
      <3> QED BY <3>1, <3>2
    <2> QED BY <2>1, <2>2 DEF BagInv, Erasing
  <1>6. CASE UNCHANGED vars
    BY <1>6 DEF vars, BagInv, Erasing
  <1>7. CASE (\E e \in KeyVal : Insert(e)) \/ Swim \/ Dequeue \/ Sink \/ EraseDone
    BY <1>7 DEF Insert, Swim, Dequeue, Sink, EraseDone
  <1> QED BY <1>3, <1>4, <1>5, <1>6, <1>7 DEF Next


\* The bag, in terms of cells.
LEMMA ContentIs ==
    /\ Content = [e \in KeyVal |-> Cardinality(Cells(mem, count, e))]
    /\ Content' = [e \in KeyVal |-> Cardinality(Cells(mem', count', e))]
  BY DEF Content, Cells

\* A new queue is an empty bag.
LEMMA InitBag == Init => Bag!Init
  <1> SUFFICES ASSUME Init PROVE Bag!Init
    OBVIOUS
  <1>1. \A e : Cardinality(Cells(mem, 0, e)) = 0
    BY NoCells
  <1>2. Content = [e \in KeyVal |-> 0]
    BY <1>1, ContentIs DEF Init
  <1> QED BY <1>2 DEF Init, Bag!Init, Bag!KeyVal, KeyVal

\* A step that keeps every pair is none of the bag.
LEMMA SameContent ==
    ASSUME \A e \in KeyVal : Cardinality(Cells(mem', count', e)) = Cardinality(Cells(mem, count, e)),
           UNCHANGED <<kv, erased>>
    PROVE  UNCHANGED Bag!vars
  <1>1. Content' = Content
    BY ContentIs
  <1> QED BY <1>1 DEF Bag!vars

\* Every step of the heap is one of the bag or none.
LEMMA NextBag == BagInv /\ [Next]_vars => [Bag!Next]_(Bag!vars)
  <1> SUFFICES ASSUME BagInv, [Next]_vars
               PROVE  Bag!Next \/ UNCHANGED Bag!vars
    OBVIOUS
  <1>1. /\ size \in Nat /\ psize \in Nat /\ count \in Nat /\ pcount \in Nat
        /\ pos \in Nat /\ i \in Nat /\ count <= size /\ pcount <= psize /\ size >= 1
        /\ Array(KeyVal, mem, size) /\ Array(KeyVal, pmem, psize) /\ val \in Vals
    BY DEF BagInv, QueueInv, TypeOK, InBounds, Array
  <1>2. Bag!KeyVal = KeyVal
    BY DEF Bag!KeyVal, KeyVal
  <1>3. \A e : Cardinality(Cells(mem, count, e)) \in Nat
    BY <1>1, CellsFinite
  <1>4. ASSUME NEW x \in KeyVal, Insert(x) PROVE Bag!Insert(x)
    <2>1. mem' = Appended(mem, size, count, x) /\ count' = count + 1 /\ kv' = Junk /\ erased' = 0
      BY <1>4 DEF Insert
    <2>2. \A e : Cardinality(Cells(mem', count', e)) =
                     Cardinality(Cells(mem, count, e)) + (IF x = e THEN 1 ELSE 0)
      BY <2>1, <1>1, <1>4, CellsAppended
    <2>3. Content' = [Content EXCEPT ![x] = @ + 1]
      <3>1. \A e \in KeyVal : [Content EXCEPT ![x] = @ + 1][e] = Content'[e]
        BY <2>2, <1>3, ContentIs
      <3> QED BY <3>1, ContentIs
    <2> QED BY <2>1, <2>3 DEF Bag!Insert
  <1>5. ASSUME Swim PROVE UNCHANGED Bag!vars
    <2>1. count' = count /\ kv' = kv /\ erased' = erased
      BY <1>5 DEF Swim
    <2>2. \A e : Cardinality(Cells(mem', count, e)) = Cardinality(Cells(mem, count, e))
      <3>1. CASE SwimStops(mem, pos)
        BY <1>5, <3>1 DEF Swim
      <3>2. CASE ~ SwimStops(mem, pos)
        <4>1. mem' = Swapped(mem, pos, parent(pos)) /\ Swimming(mem, count, pos)
          BY <1>5, <3>2 DEF Swim, BagInv, QueueInv
        <4> QED BY <1>1, <3>2, <4>1, SwimCells
      <3> QED BY <3>1, <3>2
    <2> QED BY <2>1, <2>2, SameContent
  <1>6. ASSUME Dequeue PROVE Bag!Dequeue
    <2>1. /\ count > 0 /\ kv' = mem[0] /\ erased' = 0 /\ count' = count - 1
          /\ mem' = [mem EXCEPT ![0] = mem[count - 1]] /\ HeapOrdered(mem, count)
      BY <1>6 DEF Dequeue, BagInv, QueueInv
    <2>2. PICK x : x = mem[0]
      OBVIOUS
    <2>3. x \in KeyVal /\ 0 \in Cells(mem, count, x)
      BY <2>1, <2>2, <1>1 DEF Array, Cells
    <2>4. Cardinality(Cells(mem, count, x)) > 0
      <3>1. IsFiniteSet(Cells(mem, count, x))
        BY <1>1, CellsFinite
      <3>2. Cardinality(Cells(mem, count, x)) # 0
        BY <3>1, <2>3, FS_EmptySet
      <3> QED BY <3>2, <1>3
    <2>5. \A e : Cardinality(Cells(mem, count, e)) =
                     Cardinality(Cells(mem', count', e)) + (IF x = e THEN 1 ELSE 0)
      <3>1. PICK w : w = mem'
        OBVIOUS
      <3>2. PICK l : l = count'
        OBVIOUS
      <3>3. /\ size \in Nat /\ Array(KeyVal, mem, size) /\ count \in Nat /\ count <= size /\ count > 0
            /\ l = count - 1 /\ w[0] = mem[l] /\ \A c \in 1 .. l : w[c] = mem[c]
        BY <1>1, <2>1, <3>1, <3>2 DEF Array
      <3>4. \A e : Cardinality(Cells(mem, count, e)) =
                       Cardinality(Cells(w, l, e)) + (IF mem[0] = e THEN 1 ELSE 0)
        BY ONLY <3>3, CellsDequeued
      <3> QED BY <2>2, <3>1, <3>2, <3>4
    <2>6. \A e : Cardinality(Cells(mem', count', e)) \in Nat
      BY <2>1, <1>1, CellsFinite
    <2>7. Content' = [Content EXCEPT ![x] = @ - 1]
      <3>1. \A e \in KeyVal : [Content EXCEPT ![x] = @ - 1][e] = Content'[e]
        BY <2>5, <2>6, <1>3, ContentIs
      <3> QED BY <3>1, ContentIs
    <2>8. ASSUME NEW f \in KeyVal, Content[f] > 0 PROVE f.key <= x.key
      <3>1. Cells(mem, count, f) # {}
        BY <2>8, ContentIs, FS_EmptySet
      <3>2. PICK c \in 0 .. (count - 1) : mem[c] = f
        BY <3>1 DEF Cells
      <3>3. mem[c].key <= mem[0].key
        BY <2>1, <1>1, RootIsLargest, PairsKeyed
      <3> QED BY <3>2, <3>3, <2>2
    <2>9. Content[x] > 0
      BY <2>3, <2>4, ContentIs
    <2> QED BY <2>1, <2>2, <2>3, <2>7, <2>8, <2>9, <1>2 DEF Bag!Dequeue
  <1>7. ASSUME Sink PROVE UNCHANGED Bag!vars
    <2>1. count' = count /\ kv' = kv /\ erased' = erased
      BY <1>7 DEF Sink
    <2>2. \A e : Cardinality(Cells(mem', count, e)) = Cardinality(Cells(mem, count, e))
      <3>1. CASE SinkStops(mem, count, pos)
        BY <1>7, <3>1 DEF Sink
      <3>2. CASE ~ SinkStops(mem, count, pos)
        <4>1. mem' = Swapped(mem, pos, SinkChild(mem, count, pos))
          BY <1>7, <3>2 DEF Sink
        <4> QED BY <1>1, <3>2, <4>1, SinkCells
      <3> QED BY <3>1, <3>2
    <2> QED BY <2>1, <2>2, SameContent
  <1>8. ASSUME EraseDone PROVE Bag!Erase(val)
    <2>1. /\ pc = "erase" /\ i = count /\ mem' = pmem /\ count' = pcount
          /\ erased' = count - pcount /\ kv' = Junk
      BY <1>8 DEF EraseDone
    <2>2. /\ \A e \in KeyVal : Cardinality(Cells(mem', count', e)) =
                 IF e.val = val THEN 0 ELSE Cardinality(Cells(mem, count, e))
          /\ pcount + Cardinality(Dropped(mem, count, val)) = count
      BY <2>1 DEF BagInv, Erasing
    <2>3. Content' = [e \in KeyVal |-> IF e.val = val THEN 0 ELSE Content[e]]
      BY <2>2, ContentIs
    <2>4. Cardinality(Dropped(mem, count, val)) \in Nat
      BY <1>1, DroppedStep
    <2>5. erased' = Cardinality(Dropped(mem, count, val))
      BY <2>1, <2>2, <2>4, <1>1
    <2>6. PICK all : all = UNION {{e} \X (1 .. Cardinality(Cells(mem, count, e)))
                                     : e \in {g \in KeyVal : g.val = val}}
      OBVIOUS
    <2>7. Cardinality(Dropped(mem, count, val)) = Cardinality(all) /\ Bag!Copies(val) = all
      <3>1. Cardinality(Dropped(mem, count, val)) = Cardinality(all)
        BY <1>1, <2>6, CopiesCounted
      <3>2. Bag!Copies(val) = all
        BY <1>2, <2>6, ContentIs DEF Bag!Copies
      <3> QED BY <3>1, <3>2
    <2>8. erased' = Cardinality(Bag!Copies(val))
      BY <2>5, <2>7
    <2>9. Content' = [e \in Bag!KeyVal |-> IF e.val = val THEN 0 ELSE Content[e]]
      BY <2>3, <1>2
    <2> HIDE DEF Content, Bag!Copies, Bag!KeyVal
    <2>10. Bag!Cardinality(Bag!Copies(val)) = Cardinality(Bag!Copies(val))
      BY DEF Bag!Cardinality, Cardinality
    <2> QED BY <2>1, <2>8, <2>9, <2>10 DEF Bag!Erase
  <1>9. ASSUME UNCHANGED <<mem, count, kv, erased>> PROVE UNCHANGED Bag!vars
    BY <1>9, SameContent
  <1>10. CASE (\E v \in Vals : Erase(v)) \/ EraseTurn \/ EraseSwim \/ UNCHANGED vars
    BY <1>9, <1>10 DEF Erase, EraseTurn, EraseSwim, queue, vars
  <1>11. CASE \E x \in KeyVal : Insert(x)
    BY <1>2, <1>4, <1>11 DEF Bag!Next
  <1>12. CASE Dequeue
    BY <1>6, <1>12 DEF Bag!Next
  <1>13. CASE EraseDone
    BY <1>1, <1>8, <1>13 DEF Bag!Next
  <1> QED BY <1>5, <1>7, <1>10, <1>11, <1>12, <1>13 DEF Next

\* The heap of containers/queue.h is a priority queue: dequeue() takes an element
\* of the largest key, erase() all pairs with its value and returns their number,
\* and swim(), sink(), growth and rebuilding lose and add nothing.
THEOREM ImplementsBagQueue == Spec => RefinesBagQueue
  <1>1. Init => BagInv
    BY InitQueue DEF BagInv, Erasing, Init
  <1>2. BagInv /\ [Next]_vars => BagInv'
    BY NextQueue, NextErasing DEF BagInv
  <1>3. Spec => []BagInv
    BY <1>1, <1>2, PTL DEF Spec
  <1> QED BY <1>3, InitBag, NextBag, PTL DEF Spec, RefinesBagQueue, Bag!Spec


-----------------------------------------------------------------------------
(* The ready list of HeapScheduler: the same array, swim() and sink() run  *)
(* to their end in one step.                                               *)

\* The least number of a set.
LEMMA LeastNumber ==
    ASSUME NEW D, D \subseteq Nat, D # {}
    PROVE  \E x \in D : \A y \in D : x <= y
  <1>1. PICK x \in D : \A y \in D : ~ (<<y, x>> \in OpToRel(<, Nat))
    BY WFMin, NatLessThanWellFounded, Zenon
  <1>2. ASSUME NEW y \in D PROVE x <= y
    <2>1. x \in Nat /\ y \in Nat
      OBVIOUS
    <2>2. ~ (y < x)
      BY <1>1, <2>1, Zenon DEF OpToRel
    <2> QED BY <2>1, <2>2
  <1> QED BY <1>2

\* What the first k positions of the recursive function of swim() are.
IsUp(f, A, k) ==
    f = [p \in 0 .. (k - 1) |->
           [a \in A |-> IF SwimStops(a, p) THEN a
                        ELSE f[parent(p)][Swapped(a, p, parent(p))]]]

\* There is such a function: the recursion goes towards the root.
LEMMA UpExists ==
    ASSUME NEW n \in Nat, NEW A
    PROVE  \E f : IsUp(f, A, n)
  <1> DEFINE Bad == {k \in Nat : ~ \E f : IsUp(f, A, k)}
  <1>1. SUFFICES ASSUME Bad # {} PROVE FALSE
    OBVIOUS
  <1>2. PICK k \in Bad : \A j \in Bad : k <= j
    <2>1. Bad \subseteq Nat
      OBVIOUS
    <2> HIDE DEF Bad
    <2> QED BY <1>1, <2>1, LeastNumber
  <1>3. k \in Nat /\ ~ \E f : IsUp(f, A, k)
    OBVIOUS
  <1>4. k # 0
    <2>1. ASSUME k = 0 PROVE FALSE
      <3>1. 0 .. (k - 1) = {}
        BY <2>1
      <3>2. PICK f : f = [p \in {} |-> p]
        OBVIOUS
      <3>3. IsUp(f, A, k)
        BY <3>1, <3>2 DEF IsUp
      <3> QED BY <3>3, <1>3
    <2> QED BY <2>1
  <1>5. PICK j \in Nat : j = k - 1
    BY <1>3, <1>4
  <1>6. PICK f : IsUp(f, A, j)
    <2>1. ~ (k <= j)
      BY <1>3, <1>5
    <2>2. ~ (j \in Bad)
      BY <1>2, <2>1
    <2> QED BY <2>2
  <1> DEFINE V(p, g) == [a \in A |-> IF SwimStops(a, p) THEN a
                                     ELSE g[parent(p)][Swapped(a, p, parent(p))]]
             g == [p \in 0 .. (k - 1) |-> IF p = j THEN V(j, f) ELSE f[p]]
  <1>7. \A p \in 0 .. (j - 1) : g[p] = f[p] /\ f[p] = V(p, f)
    <2>1. f = [p \in 0 .. (j - 1) |-> V(p, f)]
      BY <1>6 DEF IsUp
    <2> HIDE DEF V
    <2>2. \A p \in 0 .. (j - 1) : p \in 0 .. (k - 1) /\ p # j
      BY <1>5
    <2> QED BY <2>1, <2>2
  <1>8. ASSUME NEW p \in 0 .. (k - 1) PROVE V(p, g) = V(p, f)
    <2>1. ASSUME NEW a \in A PROVE V(p, g)[a] = V(p, f)[a]
      <3>1. CASE SwimStops(a, p)
        BY <3>1
      <3>2. CASE ~ SwimStops(a, p)
        <4>1. p # 0
          BY <3>2 DEF SwimStops
        <4>2. parent(p) \in 0 .. (j - 1)
          BY <4>1, <1>5, ParentFacts
        <4>3. g[parent(p)] = f[parent(p)]
          BY <4>2, <1>7
        <4> HIDE DEF g
        <4> QED BY <3>2, <4>3
      <3> QED BY <3>1, <3>2
    <2> HIDE DEF g
    <2> QED BY <2>1
  <1>9. ASSUME NEW p \in 0 .. (k - 1) PROVE g[p] = V(p, g)
    <2>1. CASE p = j
      <3>1. g[p] = V(j, f)
        BY <2>1
      <3> HIDE DEF g, V
      <3> QED BY <3>1, <2>1, <1>8
    <2>2. CASE p # j
      <3>1. p \in 0 .. (j - 1)
        BY <2>2, <1>5
      <3> HIDE DEF g, V
      <3> QED BY <3>1, <1>7, <1>8
    <2> QED BY <2>1, <2>2
  <1>10. g = [p \in 0 .. (k - 1) |-> g[p]]
    OBVIOUS
  <1> HIDE DEF g
  <1>11. g = [p \in 0 .. (k - 1) |-> V(p, g)]
    <2> HIDE DEF V
    <2> QED BY <1>9, <1>10
  <1>12. IsUp(g, A, k)
    BY <1>11 DEF IsUp
  <1> QED BY <1>12, <1>3


\* How many of the first n cells have the value v.
Copies(m, n, v) == Cardinality({c \in 0 .. (n - 1) : m[c].val = v})

Ids(m, n) == [c \in 0 .. (n - 1) |-> m[c].val]

\* They are the cells of an array of values.
LEMMA CopiesAreCells ==
    ASSUME NEW m, NEW n \in Nat, NEW v
    PROVE  /\ Copies(m, n, v) = Cardinality(Cells(Ids(m, n), n, v))
           /\ Copies(m, n, v) \in Nat
           /\ \A c \in 0 .. (n - 1) : m[c].val = v => Copies(m, n, v) > 0
  <1>1. {c \in 0 .. (n - 1) : m[c].val = v} = Cells(Ids(m, n), n, v)
    BY DEF Cells, Ids
  <1>2. IsFiniteSet(Cells(Ids(m, n), n, v)) /\ Cardinality(Cells(Ids(m, n), n, v)) \in Nat
    BY CellsFinite
  <1>3. ASSUME NEW c \in 0 .. (n - 1), m[c].val = v PROVE Copies(m, n, v) > 0
    <2>1. Cells(Ids(m, n), n, v) # {}
      BY <1>1, <1>3
    <2>2. Cardinality(Cells(Ids(m, n), n, v)) # 0
      BY <2>1, <1>2, FS_EmptySet
    <2> QED BY <2>2, <1>1, <1>2 DEF Copies
  <1> QED BY <1>1, <1>2, <1>3 DEF Copies

\* A swap keeps them.
LEMMA CopiesSwapped ==
    ASSUME NEW n \in Nat, NEW E, NEW m, Array(E, m, n),
           NEW a \in 0 .. (n - 1), NEW b \in 0 .. (n - 1), NEW v
    PROVE  Copies(Swapped(m, a, b), n, v) = Copies(m, n, v)
  <1> DEFINE w == Swapped(m, a, b)
             F == {m[c].val : c \in 0 .. (n - 1)}
  <1>1. w[a] = m[b] /\ w[b] = m[a]
        /\ \A c \in 0 .. (n - 1) : c # a /\ c # b => w[c] = m[c]
    <2>1. CASE a = b
      BY <2>1, SwappedArray
    <2>2. CASE a # b
      BY <2>2, SwappedArray
    <2> QED BY <2>1, <2>2
  <1> HIDE DEF w
  <1>2. Array(F, Ids(m, n), n)
    BY DEF Array, Ids
  <1>3. Ids(w, n) = Swapped(Ids(m, n), a, b)
    <2>1. \A c \in 0 .. (n - 1) : Ids(w, n)[c] = Swapped(Ids(m, n), a, b)[c]
      BY <1>1 DEF Ids, Swapped
    <2>2. /\ Ids(w, n) = [c \in 0 .. (n - 1) |-> Ids(w, n)[c]]
          /\ Swapped(Ids(m, n), a, b) = [c \in 0 .. (n - 1) |-> Swapped(Ids(m, n), a, b)[c]]
      BY DEF Ids, Swapped
    <2> QED BY <2>1, <2>2
  <1>4. Cardinality(Cells(Swapped(Ids(m, n), a, b), n, v)) = Cardinality(Cells(Ids(m, n), n, v))
    <2> HIDE DEF F
    <2> QED BY <1>2, CellsSwapped
  <1>5. Copies(w, n, v) = Copies(m, n, v)
    BY <1>3, <1>4, CopiesAreCells
  <1> QED BY <1>5 DEF w

\* What swim() and sink() make of an array m: a heap of the same elements.
Repaired(E, r, m, n) ==
    /\ Array(E, r, n)
    /\ HeapOrdered(r, n)
    /\ \A v : Copies(r, n, v) = Copies(m, n, v)

\* swim() from a position where it may start ends in a heap, by the least position
\* from which it would not.
LEMMA SwimRun ==
    ASSUME NEW n \in Nat, NEW E, Keyed(E), NEW f, IsUp(f, [0 .. (n - 1) -> E], n),
           NEW p \in 0 .. (n - 1), NEW m, Array(E, m, n), Swimming(m, n, p)
    PROVE  Repaired(E, f[p][m], m, n)
  <1> DEFINE Bad == {q \in 0 .. (n - 1) : \E a : /\ Array(E, a, n) /\ Swimming(a, n, q)
                                                 /\ ~ Repaired(E, f[q][a], a, n)}
  <1>1. SUFFICES ASSUME Bad # {} PROVE FALSE
    OBVIOUS
  <1>2. PICK q \in Bad : \A j \in Bad : q <= j
    <2>1. Bad \subseteq Nat
      OBVIOUS
    <2> HIDE DEF Bad
    <2> QED BY <1>1, <2>1, LeastNumber
  <1>3. q \in 0 .. (n - 1) /\ q \in Nat
    OBVIOUS
  <1>4. PICK a : /\ Array(E, a, n) /\ Swimming(a, n, q)
                 /\ ~ Repaired(E, f[q][a], a, n)
    OBVIOUS
  <1>5. f[q][a] = IF SwimStops(a, q) THEN a ELSE f[parent(q)][Swapped(a, q, parent(q))]
    <2>1. f[q] = [b \in [0 .. (n - 1) -> E] |->
                    IF SwimStops(b, q) THEN b ELSE f[parent(q)][Swapped(b, q, parent(q))]]
      BY <1>3 DEF IsUp
    <2>2. a \in [0 .. (n - 1) -> E]
      BY <1>4 DEF Array
    <2> QED BY <2>1, <2>2
  <1>6. CASE SwimStops(a, q)
    <2>1. HeapOrdered(a, n)
      BY <1>3, <1>4, <1>6, SwimEnd
    <2> QED BY <2>1, <1>4, <1>5, <1>6 DEF Repaired
  <1>7. CASE ~ SwimStops(a, q)
    <2>1. PICK r : r = parent(q)
      OBVIOUS
    <2>2. PICK w : w = Swapped(a, q, r)
      OBVIOUS
    <2>3. Array(E, w, n) /\ Swimming(w, n, r)
      BY <1>3, <1>4, <1>7, <2>1, <2>2, SwimStep
    <2>4. q # 0
      BY <1>7 DEF SwimStops
    <2>5. r \in 0 .. (n - 1) /\ ~ (q <= r)
      BY <2>4, <2>1, <1>3, ParentFacts
    <2>6. ~ (r \in Bad)
      <3> HIDE DEF Bad
      <3> QED BY <2>5, <1>2
    <2>7. Repaired(E, f[r][w], w, n)
      BY <2>3, <2>5, <2>6
    <2>8. \A v : Copies(w, n, v) = Copies(a, n, v)
      BY <2>2, <2>5, <1>3, <1>4, CopiesSwapped
    <2>9. f[q][a] = f[r][w]
      BY <1>5, <1>7, <2>1, <2>2
    <2> QED BY <2>7, <2>8, <2>9, <1>4 DEF Repaired
  <1> QED BY <1>6, <1>7

\* The recursive function of sink() from position k on.
IsDown(f, A, n, k) ==
    f = [p \in k .. (n - 1) |->
           [a \in A |-> IF SinkStops(a, n, p) THEN a
                        ELSE f[SinkChild(a, n, p)][Swapped(a, p, SinkChild(a, n, p))]]]

\* Where sink() goes on is below, and live.
LEMMA ChildBelow ==
    ASSUME NEW n \in Nat, NEW a, NEW p \in Nat, ~ SinkStops(a, n, p)
    PROVE  SinkChild(a, n, p) \in (p + 1) .. (n - 1)
  BY DEF SinkStops, SinkChild, children

\* There is such a function: the recursion goes away from the root.
LEMMA DownExists ==
    ASSUME NEW n \in Nat, NEW A
    PROVE  \E f : IsDown(f, A, n, 0)
  <1> DEFINE Bad == {i0 \in Nat : i0 <= n /\ ~ \E f : IsDown(f, A, n, n - i0)}
  <1>1. SUFFICES ASSUME Bad # {} PROVE FALSE
    <2>1. ~ (n \in Bad)
      BY <1>1
    <2>2. PICK z : z = n - n
      OBVIOUS
    <2>3. \E f : IsDown(f, A, n, z)
      BY <2>1, <2>2
    <2>4. z = 0
      BY <2>2
    <2> QED BY <2>3, <2>4
  <1>2. PICK i0 \in Bad : \A j \in Bad : i0 <= j
    <2>1. Bad \subseteq Nat
      OBVIOUS
    <2> HIDE DEF Bad
    <2> QED BY <1>1, <2>1, LeastNumber
  <1>3. PICK k : k = n - i0
    OBVIOUS
  <1>4. i0 \in Nat /\ i0 <= n /\ k \in Nat /\ ~ \E f : IsDown(f, A, n, k)
    BY <1>3
  <1>5. i0 # 0
    <2>1. ASSUME i0 = 0 PROVE FALSE
      <3>1. k .. (n - 1) = {}
        BY <2>1, <1>3
      <3>2. PICK f : f = [p \in {} |-> p]
        OBVIOUS
      <3>3. IsDown(f, A, n, k)
        BY <3>1, <3>2 DEF IsDown
      <3> QED BY <3>3, <1>4
    <2> QED BY <2>1
  <1>6. PICK f : IsDown(f, A, n, k + 1)
    <2>1. i0 - 1 \in Nat /\ i0 - 1 <= n /\ ~ (i0 <= i0 - 1) /\ n - (i0 - 1) = k + 1
      BY <1>3, <1>4, <1>5
    <2>2. ~ (i0 - 1 \in Bad)
      BY <1>2, <2>1
    <2>3. \E f : IsDown(f, A, n, n - (i0 - 1))
      BY <2>1, <2>2
    <2> QED BY <2>1, <2>3
  <1> DEFINE V(p, g) == [a \in A |-> IF SinkStops(a, n, p) THEN a
                           ELSE g[SinkChild(a, n, p)][Swapped(a, p, SinkChild(a, n, p))]]
             g == [p \in k .. (n - 1) |-> IF p = k THEN V(k, f) ELSE f[p]]
  <1>7. \A p \in (k + 1) .. (n - 1) : g[p] = f[p] /\ f[p] = V(p, f)
    <2>1. f = [p \in (k + 1) .. (n - 1) |-> V(p, f)]
      BY <1>6 DEF IsDown
    <2> HIDE DEF V
    <2>2. \A p \in (k + 1) .. (n - 1) : p \in k .. (n - 1) /\ p # k
      BY <1>4
    <2> QED BY <2>1, <2>2
  <1>8. ASSUME NEW p \in k .. (n - 1) PROVE V(p, g) = V(p, f)
    <2>1. ASSUME NEW a \in A PROVE V(p, g)[a] = V(p, f)[a]
      <3>1. CASE SinkStops(a, n, p)
        BY <3>1
      <3>2. CASE ~ SinkStops(a, n, p)
        <4>1. PICK c : c = SinkChild(a, n, p)
          OBVIOUS
        <4>2. c \in (k + 1) .. (n - 1)
          BY <4>1, <3>2, <1>4, ChildBelow
        <4>3. g[c] = f[c]
          BY <4>2, <1>7
        <4> HIDE DEF g
        <4> QED BY <3>2, <4>1, <4>3
      <3> QED BY <3>1, <3>2
    <2> HIDE DEF g
    <2> QED BY <2>1
  <1>9. ASSUME NEW p \in k .. (n - 1) PROVE g[p] = V(p, g)
    <2>1. CASE p = k
      <3>1. g[p] = V(k, f)
        BY <2>1
      <3> HIDE DEF g, V
      <3> QED BY <3>1, <2>1, <1>8
    <2>2. CASE p # k
      <3>1. p \in (k + 1) .. (n - 1)
        BY <2>2, <1>4
      <3> HIDE DEF g, V
      <3> QED BY <3>1, <1>7, <1>8
    <2> QED BY <2>1, <2>2
  <1>10. g = [p \in k .. (n - 1) |-> g[p]]
    OBVIOUS
  <1> HIDE DEF g
  <1>11. g = [p \in k .. (n - 1) |-> V(p, g)]
    <2> HIDE DEF V
    <2> QED BY <1>9, <1>10
  <1>12. IsDown(g, A, n, k)
    BY <1>11 DEF IsDown
  <1> QED BY <1>12, <1>4

\* sink() from a position where it may start ends in a heap, by the last position
\* from which it would not.
LEMMA SinkRun ==
    ASSUME NEW n \in Nat, NEW E, Keyed(E), NEW f, IsDown(f, [0 .. (n - 1) -> E], n, 0),
           NEW p \in 0 .. (n - 1), NEW m, Array(E, m, n), Sinking(m, n, p)
    PROVE  Repaired(E, f[p][m], m, n)
  <1> DEFINE Bad == {j \in Nat : \E q \in 0 .. (n - 1) : \E a :
                        /\ j = n - q /\ Array(E, a, n) /\ Sinking(a, n, q)
                        /\ ~ Repaired(E, f[q][a], a, n)}
  <1>1. SUFFICES ASSUME Bad # {} PROVE FALSE
    <2>1. n - p \in Nat
      OBVIOUS
    <2>2. ~ (n - p \in Bad)
      BY <1>1
    <2> QED BY <2>1, <2>2
  <1>2. PICK j \in Bad : \A l \in Bad : j <= l
    <2>1. Bad \subseteq Nat
      OBVIOUS
    <2> HIDE DEF Bad
    <2> QED BY <1>1, <2>1, LeastNumber
  <1>0. PICK q \in 0 .. (n - 1) : \E a : /\ j = n - q /\ Array(E, a, n) /\ Sinking(a, n, q)
                                        /\ ~ Repaired(E, f[q][a], a, n)
    OBVIOUS
  <1>3. PICK a : /\ j = n - q /\ Array(E, a, n) /\ Sinking(a, n, q)
                 /\ ~ Repaired(E, f[q][a], a, n)
    BY <1>0
  <1>4. q \in Nat
    OBVIOUS
  <1>5. f[q][a] = IF SinkStops(a, n, q) THEN a
                  ELSE f[SinkChild(a, n, q)][Swapped(a, q, SinkChild(a, n, q))]
    <2>1. f[q] = [b \in [0 .. (n - 1) -> E] |->
                    IF SinkStops(b, n, q) THEN b
                    ELSE f[SinkChild(b, n, q)][Swapped(b, q, SinkChild(b, n, q))]]
      BY <1>3 DEF IsDown
    <2>2. a \in [0 .. (n - 1) -> E]
      BY <1>3 DEF Array
    <2> QED BY <2>1, <2>2
  <1>6. CASE SinkStops(a, n, q)
    <2>1. HeapOrdered(a, n)
      BY <1>3, <1>4, <1>6, SinkEnd
    <2> QED BY <2>1, <1>3, <1>5, <1>6 DEF Repaired
  <1>7. CASE ~ SinkStops(a, n, q)
    <2>1. PICK r : r = SinkChild(a, n, q)
      OBVIOUS
    <2>2. PICK w : w = Swapped(a, q, r)
      OBVIOUS
    <2>3. Array(E, w, n) /\ Sinking(w, n, r)
      BY <1>3, <1>4, <1>7, <2>1, <2>2, SinkStep
    <2>4. r \in (q + 1) .. (n - 1)
      BY <2>1, <1>4, <1>7, ChildBelow
    <2>5. r \in 0 .. (n - 1) /\ n - r \in Nat /\ ~ (j <= n - r)
      BY <2>4, <1>3, <1>4
    <2>6. ~ (n - r \in Bad)
      <3> HIDE DEF Bad
      <3> QED BY <2>5, <1>2
    <2>7. Repaired(E, f[r][w], w, n)
      BY <2>3, <2>5, <2>6
    <2>8. \A v : Copies(w, n, v) = Copies(a, n, v)
      BY <2>2, <2>5, <1>3, CopiesSwapped
    <2>9. f[q][a] = f[r][w]
      BY <1>5, <1>7, <2>1, <2>2
    <2> QED BY <2>7, <2>8, <2>9, <1>3 DEF Repaired
  <1> QED BY <1>6, <1>7


-----------------------------------------------------------------------------
(* Its insert(), dequeue() and erase().                                    *)

IsHeap(E, h, n) == Array(E, h, n) /\ HeapOrdered(h, n)

\* The recursive functions of the model.
Up(A, D) == CHOOSE f :
    f = [p \in D |-> [a \in A |-> IF SwimStops(a, p) THEN a
                                  ELSE f[parent(p)][Swapped(a, p, parent(p))]]]

Down(A, n, D) == CHOOSE f :
    f = [p \in D |-> [a \in A |->
            IF SinkStops(a, n, p) THEN a
            ELSE f[SinkChild(a, n, p)][Swapped(a, p, SinkChild(a, n, p))]]]

\* Its Cardinality is that of FiniteSets
LEMMA SameCardinality == \A D : Cardinality(D) = Cardinality(D)
  BY Zenon DEF Cardinality, Cardinality

\* and its Length the number of cells.
LEMMA LengthIs ==
    ASSUME NEW n \in Nat, NEW E, NEW m, Array(E, m, n)
    PROVE  DOMAIN m = 0 .. (n - 1) /\ Length(m) = n
  <1>1. DOMAIN m = 0 .. (n - 1)
    BY DEF Array
  <1>2. Cardinality(0 .. (n - 1)) = n
    <2>1. 0 \in Int /\ n - 1 \in Int
      OBVIOUS
    <2>2. Cardinality(0 .. (n - 1)) = IF 0 > n - 1 THEN 0 ELSE ((n - 1) - 0) + 1
      BY <2>1, FS_Interval
    <2> QED BY <2>2
  <1>3. Length(m) = Cardinality(DOMAIN m)
    BY SameCardinality DEF Length
  <1> QED BY <1>1, <1>2, <1>3

\* swim() of the model repairs the heap
LEMMA SwimIs ==
    ASSUME NEW n \in Nat, NEW E, Keyed(E), NEW m, Array(E, m, n),
           NEW p \in 0 .. (n - 1), Swimming(m, n, p)
    PROVE  Repaired(E, swim(m, p), m, n)
  <1> DEFINE F == {m[c] : c \in 0 .. (n - 1)}
             A == [0 .. (n - 1) -> F]
  <1>1. swim(m, p) = Up(Arrays(m), DOMAIN m)[p][m]
    BY Zenon DEF swim, Up
  <1>2. DOMAIN m = 0 .. (n - 1)
    BY DEF Array
  <1>3. Arrays(m) = A
    BY <1>2 DEF Arrays
  <1>4. IsUp(Up(A, 0 .. (n - 1)), A, n)
    <2> HIDE DEF A
    <2>1. Up(A, 0 .. (n - 1)) = CHOOSE f : IsUp(f, A, n)
      BY Zenon DEF Up, IsUp
    <2>2. \E f : IsUp(f, A, n)
      BY UpExists
    <2> QED BY <2>1, <2>2, Zenon
  <1>5. F \subseteq E /\ Array(F, m, n)
    BY DEF Array
  <1>6. Keyed(F)
    BY <1>5 DEF Keyed
  <1>7. Repaired(F, Up(A, 0 .. (n - 1))[p][m], m, n)
    <2> HIDE DEF F
    <2> QED BY <1>4, <1>5, <1>6, SwimRun
  <1>8. swim(m, p) = Up(A, 0 .. (n - 1))[p][m]
    <2> HIDE DEF A
    <2> QED BY <1>1, <1>2, <1>3
  <1>9. Repaired(F, swim(m, p), m, n)
    BY <1>7, <1>8
  <1> HIDE DEF F
  <1> QED BY <1>5, <1>9 DEF Repaired, Array

\* and so does sink().
LEMMA SinkIs ==
    ASSUME NEW n \in Nat, NEW E, Keyed(E), NEW m, Array(E, m, n),
           NEW p \in 0 .. (n - 1), Sinking(m, n, p)
    PROVE  Repaired(E, sink(m, p), m, n)
  <1> DEFINE F == {m[c] : c \in 0 .. (n - 1)}
             A == [0 .. (n - 1) -> F]
  <1>1. sink(m, p) = Down(Arrays(m), Length(m), DOMAIN m)[p][m]
    BY Zenon DEF sink, Down
  <1>2. DOMAIN m = 0 .. (n - 1) /\ Length(m) = n
    BY LengthIs
  <1>3. Arrays(m) = A
    BY <1>2 DEF Arrays
  <1>4. IsDown(Down(A, n, 0 .. (n - 1)), A, n, 0)
    <2> HIDE DEF A
    <2>1. Down(A, n, 0 .. (n - 1)) = CHOOSE f : IsDown(f, A, n, 0)
      BY Zenon DEF Down, IsDown
    <2>2. \E f : IsDown(f, A, n, 0)
      BY DownExists
    <2> QED BY <2>1, <2>2, Zenon
  <1>5. F \subseteq E /\ Array(F, m, n)
    BY DEF Array
  <1>6. Keyed(F)
    BY <1>5 DEF Keyed
  <1>7. Repaired(F, Down(A, n, 0 .. (n - 1))[p][m], m, n)
    <2> HIDE DEF F
    <2> QED BY <1>4, <1>5, <1>6, SinkRun
  <1>8. sink(m, p) = Down(A, n, 0 .. (n - 1))[p][m]
    <2> HIDE DEF A
    <2> QED BY <1>1, <1>2, <1>3
  <1>9. Repaired(F, sink(m, p), m, n)
    BY <1>7, <1>8
  <1> HIDE DEF F
  <1> QED BY <1>5, <1>9 DEF Repaired, Array

\* One cell more, or less.
LEMMA CopiesStep ==
    ASSUME NEW m, NEW n \in Nat, NEW v
    PROVE  Copies(m, n + 1, v) = Copies(m, n, v) + (IF m[n].val = v THEN 1 ELSE 0)
  <1>1. PICK k \in Nat : k = n + 1
    OBVIOUS
  <1>2. PICK w : w = Ids(m, k)
    OBVIOUS
  <1>3. w[n] = m[n].val /\ \A c \in 0 .. (n - 1) : w[c] = Ids(m, n)[c]
    BY <1>1, <1>2 DEF Ids
  <1>4. Cells(w, n, v) = Cells(Ids(m, n), n, v)
    BY <1>3, CellsSame
  <1>5. Cardinality(Cells(w, n + 1, v)) =
            Cardinality(Cells(w, n, v)) + (IF w[n] = v THEN 1 ELSE 0)
    BY CellsStep
  <1> QED BY <1>1, <1>2, <1>3, <1>4, <1>5, CopiesAreCells

\* Only the first n cells count.
LEMMA CopiesSame ==
    ASSUME NEW m, NEW w, NEW n \in Nat, \A c \in 0 .. (n - 1) : w[c] = m[c], NEW v
    PROVE  Copies(w, n, v) = Copies(m, n, v)
  <1>1. {c \in 0 .. (n - 1) : w[c].val = v} = {c \in 0 .. (n - 1) : m[c].val = v}
    OBVIOUS
  <1> QED BY <1>1 DEF Copies

\* insert() adds one element.
LEMMA InsertIs ==
    ASSUME NEW n \in Nat, NEW E, Keyed(E), NEW h, IsHeap(E, h, n), NEW e \in E
    PROVE  /\ IsHeap(E, ReadyInsert(h, e), n + 1)
           /\ \A v : Copies(ReadyInsert(h, e), n + 1, v) =
                         Copies(h, n, v) + (IF e.val = v THEN 1 ELSE 0)
  <1> DEFINE w == [c \in 0 .. n |-> IF c < n THEN h[c] ELSE e]
  <1>0. Array(E, h, n) /\ HeapOrdered(h, n)
    BY DEF IsHeap
  <1>1. ReadyInsert(h, e) = swim(w, n)
    <2>1. Length(h) = n
      BY <1>0, LengthIs
    <2> QED BY <2>1 DEF ReadyInsert
  <1>2. PICK k \in Nat : k = n + 1
    OBVIOUS
  <1>3. Array(E, w, k) /\ w[n] = e /\ \A c \in 0 .. (n - 1) : w[c] = h[c]
    BY <1>0, <1>2 DEF Array
  <1> HIDE DEF w
  <1>4. ASSUME NEW c \in 1 .. (k - 1), c # n PROVE w[parent(c)].key >= w[c].key
    <2>1. parent(c) \in 0 .. (n - 1) /\ c \in 0 .. (n - 1) /\ c \in 1 .. (n - 1)
      BY <1>2, <1>4, ParentFacts
    <2> QED BY <2>1, <1>0, <1>3 DEF HeapOrdered
  <1>5. ASSUME NEW c \in 1 .. (k - 1) PROVE parent(c) # n
    BY <1>2, ParentFacts
  <1>6. Swimming(w, k, n) /\ n \in 0 .. (k - 1)
    BY <1>2, <1>4, <1>5 DEF Swimming
  <1>7. Repaired(E, swim(w, n), w, k)
    BY <1>3, <1>6, SwimIs
  <1>8. ASSUME NEW v PROVE Copies(w, k, v) = Copies(h, n, v) + (IF e.val = v THEN 1 ELSE 0)
    <2>1. Copies(w, n, v) = Copies(h, n, v)
      BY <1>3, CopiesSame
    <2>2. Copies(w, n + 1, v) = Copies(w, n, v) + (IF w[n].val = v THEN 1 ELSE 0)
      BY CopiesStep
    <2> QED BY <2>1, <2>2, <1>2, <1>3
  <1> QED BY <1>1, <1>2, <1>7, <1>8 DEF Repaired, IsHeap

\* The empty heap.
LEMMA NothingQueued ==
    ASSUME NEW E
    PROVE  /\ IsHeap(E, <<>>, 0)
           /\ \A h : IsHeap(E, h, 0) => h = <<>>
           /\ \A h, v : Copies(h, 0, v) = 0
           /\ \A n \in Nat : IsHeap(E, <<>>, n) => n = 0
  <1>1. IsHeap(E, <<>>, 0)
    BY DEF IsHeap, Array, HeapOrdered
  <1>2. \A h : IsHeap(E, h, 0) => h = <<>>
    BY DEF IsHeap, Array
  <1>3. ASSUME NEW h, NEW v PROVE Copies(h, 0, v) = 0
    <2>1. {c \in 0 .. (0 - 1) : h[c].val = v} = {}
      OBVIOUS
    <2> QED BY <2>1, FS_EmptySet DEF Copies
  <1>4. ASSUME NEW n \in Nat, IsHeap(E, <<>>, n) PROVE n = 0
    <2>1. DOMAIN <<>> = 0 .. (n - 1) /\ DOMAIN <<>> = {}
      BY <1>4 DEF IsHeap, Array
    <2> QED BY <2>1
  <1> QED BY <1>1, <1>2, <1>3, <1>4


\* dequeue() takes one of the largest elements, the root.
LEMMA DequeueIs ==
    ASSUME NEW n \in Nat, n > 0, NEW E, Keyed(E), NEW h, IsHeap(E, h, n)
    PROVE  /\ IsHeap(E, ReadyDequeue(h), n - 1)
           /\ \A v : Copies(h, n, v) =
                         Copies(ReadyDequeue(h), n - 1, v) + (IF h[0].val = v THEN 1 ELSE 0)
           /\ h[0] \in E
           /\ \A c \in 0 .. (n - 1) : h[c].key <= h[0].key
  <1>0. Array(E, h, n) /\ HeapOrdered(h, n) /\ Length(h) = n
    BY LengthIs DEF IsHeap
  <1>1. PICK l \in Nat : l = n - 1
    OBVIOUS
  <1>2. 0 \in 0 .. (n - 1) /\ l \in 0 .. (n - 1) /\ h[0] \in E /\ h[l] \in E
    BY <1>0, <1>1 DEF Array
  <1>3. \A c \in 0 .. (n - 1) : h[c].key <= h[0].key
    BY <1>0, RootIsLargest
  <1> DEFINE w == [c \in 0 .. (l - 1) |-> IF c = 0 THEN h[l] ELSE h[c]]
  <1>4. ReadyDequeue(h) = IF l = 0 THEN <<>> ELSE sink(w, 0)
    BY <1>0, <1>1 DEF ReadyDequeue
  <1>5. Array(E, w, l) /\ (l > 0 => w[0] = h[l]) /\ \A c \in 1 .. (l - 1) : w[c] = h[c]
    BY <1>0, <1>1, <1>2 DEF Array
  <1>6. ASSUME NEW v
        PROVE  Copies(h, n, v) = Copies(w, l, v) + (IF h[0].val = v THEN 1 ELSE 0)
    <2>1. PICK m : m = Ids(h, n)
      OBVIOUS
    <2>2. PICK u : u = [m EXCEPT ![0] = m[l]]
      OBVIOUS
    <2>3. PICK F : F = {h[c].val : c \in 0 .. (n - 1)}
      OBVIOUS
    <2>4. Array(F, m, n) /\ m[0] = h[0].val /\ m[l] = h[l].val
          /\ \A c \in 0 .. (n - 1) : m[c] = h[c].val
      BY <2>1, <2>3, <1>2 DEF Array, Ids
    <2>5. u[0] = m[l] /\ \A c \in 1 .. l : u[c] = m[c]
      BY <2>2, <2>4, <1>1, <1>2 DEF Array
    <2>6. Cardinality(Cells(m, n, v)) =
              Cardinality(Cells(u, l, v)) + (IF m[0] = v THEN 1 ELSE 0)
      BY ONLY <1>1, <2>4, <2>5, n \in Nat, n > 0, CellsDequeued
    <2>7. \A c \in 0 .. (l - 1) : Ids(w, l)[c] = u[c]
      BY <2>4, <2>5, <1>1, <1>5 DEF Ids
    <2>8. Cells(Ids(w, l), l, v) = Cells(u, l, v)
      BY ONLY <2>7, l \in Nat, CellsSame
    <2> HIDE DEF w
    <2>9. Copies(w, l, v) = Cardinality(Cells(u, l, v))
      BY <2>8, CopiesAreCells
    <2>10. Copies(h, n, v) = Cardinality(Cells(m, n, v))
      BY <2>1, CopiesAreCells
    <2> QED BY <2>4, <2>6, <2>9, <2>10
  <1> HIDE DEF w
  <1>7. CASE l = 0
    <2>1. ReadyDequeue(h) = <<>> /\ w = <<>>
      <3>1. IsHeap(E, w, 0)
        BY <1>5, <1>7 DEF IsHeap, HeapOrdered
      <3> QED BY <3>1, <1>4, <1>7, NothingQueued
    <2> QED BY <2>1, <1>1, <1>2, <1>3, <1>6, <1>7, NothingQueued
  <1>8. CASE l # 0
    <2>1. ASSUME NEW c \in 1 .. (l - 1), parent(c) # 0 PROVE w[parent(c)].key >= w[c].key
      <3>1. parent(c) \in 1 .. (l - 1) /\ c \in 1 .. (n - 1)
        BY <2>1, <1>1, ParentFacts
      <3> QED BY <3>1, <1>0, <1>5 DEF HeapOrdered
    <2>2. Sinking(w, l, 0) /\ 0 \in 0 .. (l - 1)
      BY <2>1, <1>8 DEF Sinking
    <2>3. Repaired(E, sink(w, 0), w, l)
      BY <2>2, <1>5, SinkIs
    <2>4. ReadyDequeue(h) = sink(w, 0)
      BY <1>4, <1>8
    <2> QED BY <2>3, <2>4, <1>1, <1>2, <1>3, <1>6 DEF Repaired, IsHeap
  <1> QED BY <1>7, <1>8

\* The recursive function of erase(), up to the k-th cell.
IsRebuilt(f, h, id, k) ==
    f = [c \in 0 .. k |-> IF c = 0 THEN <<>>
                          ELSE IF h[c - 1].val = id THEN f[c - 1]
                          ELSE ReadyInsert(f[c - 1], h[c - 1])]

\* There is such a function.
LEMMA RebuiltExists ==
    ASSUME NEW n \in Nat, NEW h, NEW id
    PROVE  \E f : IsRebuilt(f, h, id, n)
  <1> DEFINE Bad == {k \in Nat : ~ \E f : IsRebuilt(f, h, id, k)}
  <1>1. SUFFICES ASSUME Bad # {} PROVE FALSE
    OBVIOUS
  <1>2. PICK k \in Bad : \A j \in Bad : k <= j
    <2>1. Bad \subseteq Nat
      OBVIOUS
    <2> HIDE DEF Bad
    <2> QED BY <1>1, <2>1, LeastNumber
  <1>3. k \in Nat /\ ~ \E f : IsRebuilt(f, h, id, k)
    OBVIOUS
  <1> DEFINE V(c, f) == IF c = 0 THEN <<>>
                        ELSE IF h[c - 1].val = id THEN f[c - 1]
                        ELSE ReadyInsert(f[c - 1], h[c - 1])
  <1>4. k # 0
    <2>1. ASSUME k = 0 PROVE FALSE
      <3>1. PICK f : f = [c \in 0 .. k |-> <<>>]
        OBVIOUS
      <3>2. \A c \in 0 .. k : V(c, f) = <<>>
        BY <2>1
      <3> HIDE DEF V
      <3>3. f = [c \in 0 .. k |-> V(c, f)]
        BY <3>1, <3>2
      <3>4. IsRebuilt(f, h, id, k)
        BY <3>3 DEF IsRebuilt, V
      <3> QED BY <3>4, <1>3
    <2> QED BY <2>1
  <1>5. PICK j \in Nat : j = k - 1
    BY <1>3, <1>4
  <1>6. PICK f : IsRebuilt(f, h, id, j)
    <2>1. ~ (k <= j)
      BY <1>3, <1>5
    <2>2. ~ (j \in Bad)
      BY <1>2, <2>1
    <2> QED BY <2>2
  <1> DEFINE g == [c \in 0 .. k |-> IF c = k THEN V(k, f) ELSE f[c]]
  <1>7. \A c \in 0 .. j : g[c] = f[c] /\ f[c] = V(c, f)
    <2>1. f = [c \in 0 .. j |-> V(c, f)]
      BY <1>6 DEF IsRebuilt
    <2> HIDE DEF V
    <2>2. \A c \in 0 .. j : c \in 0 .. k /\ c # k
      BY <1>5
    <2> QED BY <2>1, <2>2
  <1>8. ASSUME NEW c \in 0 .. k PROVE V(c, g) = V(c, f)
    <2>1. CASE c = 0
      BY <2>1
    <2>2. CASE c # 0
      <3>1. g[c - 1] = f[c - 1]
        BY <2>2, <1>5, <1>7
      <3> HIDE DEF g
      <3> QED BY <3>1
    <2> QED BY <2>1, <2>2
  <1>9. ASSUME NEW c \in 0 .. k PROVE g[c] = V(c, g)
    <2>1. CASE c = k
      <3>1. g[c] = V(k, f)
        BY <2>1
      <3> HIDE DEF g, V
      <3> QED BY <3>1, <2>1, <1>8
    <2>2. CASE c # k
      <3>1. c \in 0 .. j
        BY <2>2, <1>5
      <3> HIDE DEF g, V
      <3> QED BY <3>1, <1>7, <1>8
    <2> QED BY <2>1, <2>2
  <1>10. g = [c \in 0 .. k |-> g[c]]
    OBVIOUS
  <1> HIDE DEF g
  <1>11. g = [c \in 0 .. k |-> V(c, g)]
    <2> HIDE DEF V
    <2> QED BY <1>9, <1>10
  <1>12. IsRebuilt(g, h, id, k)
    BY <1>11 DEF IsRebuilt
  <1> QED BY <1>12, <1>3

\* erase() leaves a heap of the elements with another value.
LEMMA EraseIs ==
    ASSUME NEW n \in Nat, NEW E, Keyed(E), NEW h, IsHeap(E, h, n), NEW id
    PROVE  \E k \in Nat : /\ IsHeap(E, ReadyErase(h, id), k)
                          /\ \A v : Copies(ReadyErase(h, id), k, v) =
                                        IF v = id THEN 0 ELSE Copies(h, n, v)
  <1>0. Array(E, h, n) /\ Length(h) = n
    BY LengthIs DEF IsHeap
  <1> DEFINE R == CHOOSE f : IsRebuilt(f, h, id, n)
  <1>1. ReadyErase(h, id) = R[n]
    <2>1. ReadyErase(h, id) = (CHOOSE f : IsRebuilt(f, h, id, Length(h)))[Length(h)]
      BY Zenon DEF ReadyErase, IsRebuilt
    <2> QED BY <2>1, <1>0
  <1>2. IsRebuilt(R, h, id, n)
    <2>1. \E f : IsRebuilt(f, h, id, n)
      BY RebuiltExists
    <2> QED BY <2>1, Zenon
  <1>3. PICK f : f = R
    OBVIOUS
  <1> HIDE DEF R
  <1>4. f = [c \in 0 .. n |-> IF c = 0 THEN <<>>
                          ELSE IF h[c - 1].val = id THEN f[c - 1]
                          ELSE ReadyInsert(f[c - 1], h[c - 1])]
    BY <1>2, <1>3 DEF IsRebuilt
  <1> DEFINE Fine(c) == \E k \in Nat : /\ IsHeap(E, f[c], k)
                                       /\ \A v : Copies(f[c], k, v) =
                                                     IF v = id THEN 0 ELSE Copies(h, c, v)
             Bad == {c \in 0 .. n : ~ Fine(c)}
  <1>5. SUFFICES ASSUME Bad # {} PROVE FALSE
    <2>1. n \in 0 .. n /\ ~ (n \in Bad)
      BY <1>5
    <2>2. Fine(n)
      BY <2>1
    <2> QED BY <2>2, <1>1, <1>3
  <1>6. PICK c \in Bad : \A j \in Bad : c <= j
    <2>1. Bad \subseteq Nat
      OBVIOUS
    <2> HIDE DEF Bad
    <2> QED BY <1>5, <2>1, LeastNumber
  <1>7. c \in 0 .. n /\ c \in Nat /\ ~ Fine(c)
    BY <1>6
  <1>8. c # 0
    <2>1. ASSUME c = 0 PROVE FALSE
      <3>1. f[0] = <<>>
        BY <1>4, <1>7, <2>1
      <3>2. IsHeap(E, f[0], 0) /\ \A v : Copies(f[0], 0, v) = 0 /\ Copies(h, 0, v) = 0
        BY <3>1, NothingQueued
      <3>3. Fine(0)
        BY <3>2
      <3> QED BY <3>3, <2>1, <1>7
    <2> QED BY <2>1
  <1>9. PICK j \in Nat : j = c - 1 /\ c = j + 1
    BY <1>7, <1>8
  <1>10. PICK k \in Nat : /\ IsHeap(E, f[j], k)
                          /\ \A v : Copies(f[j], k, v) = IF v = id THEN 0 ELSE Copies(h, j, v)
    <2>1. j \in 0 .. n /\ ~ (c <= j)
      BY <1>7, <1>9
    <2>2. ~ (j \in Bad)
      <3> HIDE DEF Bad
      <3> QED BY <2>1, <1>6
    <2>3. Fine(j)
      BY <2>1, <2>2
    <2> QED BY <2>3
  <1>11. \A v : Copies(h, c, v) = Copies(h, j, v) + (IF h[j].val = v THEN 1 ELSE 0)
    BY <1>9, CopiesStep
  <1>12. \A v : Copies(h, j, v) \in Nat
    BY CopiesAreCells
  <1>13. f[c] = IF h[j].val = id THEN f[j] ELSE ReadyInsert(f[j], h[j])
    BY <1>4, <1>7, <1>8, <1>9
  <1>14. h[j] \in E
    BY <1>0, <1>7, <1>9 DEF Array
  <1>15. CASE h[j].val = id
    <2>1. f[c] = f[j]
      BY <1>13, <1>15
    <2>2. \A v : Copies(f[c], k, v) = IF v = id THEN 0 ELSE Copies(h, c, v)
      BY <2>1, <1>10, <1>11, <1>12, <1>15
    <2>3. Fine(c)
      BY <2>1, <2>2, <1>10
    <2> QED BY <2>3, <1>7
  <1>16. CASE h[j].val # id
    <2>1. PICK r : r = ReadyInsert(f[j], h[j])
      OBVIOUS
    <2>2. f[c] = r
      BY <2>1, <1>13, <1>16
    <2>3. IsHeap(E, r, k + 1)
          /\ \A v : Copies(r, k + 1, v) = Copies(f[j], k, v) + (IF h[j].val = v THEN 1 ELSE 0)
      BY <2>1, <1>10, <1>14, InsertIs
    <2>4. \A v : Copies(r, k + 1, v) = IF v = id THEN 0 ELSE Copies(h, c, v)
      BY <2>3, <1>10, <1>11, <1>12, <1>16
    <2>5. Fine(c)
      BY <2>2, <2>3, <2>4
    <2> QED BY <2>5, <1>7
  <1> QED BY <1>15, <1>16


-----------------------------------------------------------------------------
(* The ready list as a bag of pids.                                        *)

Slots == 0 .. (MAX_PROC_NUM - 1)

Mult(h) == [p \in Slots |-> Cardinality({c \in DOMAIN h : h[c].val = p})]

\* The elements that the table allows: taken slots with their priorities.
Fit(pr, tk) == {e \in [key : Int, val : tk] : e.key = pr[e.val]}

\* What the refinement mapping says the ready list is
LEMMA ListIs == [p \in 0 .. (MAX_PROC_NUM - 1) |-> Multiplicity(p)] = Mult(heap)
  BY SameCardinality DEF Mult, Slots, Multiplicity

\* and becomes.
LEMMA ListIsNext == [p \in 0 .. (MAX_PROC_NUM - 1) |-> Multiplicity(p)]' = Mult(heap')
  BY SameCardinality DEF Mult, Slots, Multiplicity

\* The priorities can be compared.
LEMMA FitKeyed == ASSUME NEW pr, NEW tk PROVE Keyed(Fit(pr, tk))
  BY DEF Keyed, Fit

\* The bag, cell by cell.
LEMMA MultIs ==
    ASSUME NEW n \in Nat, NEW E, NEW h, IsHeap(E, h, n)
    PROVE  /\ Mult(h) = [p \in Slots |-> Copies(h, n, p)]
           /\ \A p \in Slots : Mult(h)[p] \in Nat
           /\ \A p \in Slots : Mult(h)[p] > 0 <=> \E c \in 0 .. (n - 1) : h[c].val = p
  <1>1. DOMAIN h = 0 .. (n - 1)
    BY LengthIs DEF IsHeap
  <1>2. Mult(h) = [p \in Slots |-> Copies(h, n, p)]
    BY <1>1 DEF Mult, Copies
  <1>3. ASSUME NEW p \in Slots PROVE Mult(h)[p] \in Nat
    BY <1>2, CopiesAreCells
  <1>4. ASSUME NEW p \in Slots, NEW c \in 0 .. (n - 1), h[c].val = p PROVE Mult(h)[p] > 0
    BY <1>2, <1>4, CopiesAreCells, SMTT(30)
  <1>5. ASSUME NEW p \in Slots, Mult(h)[p] > 0 PROVE \E c \in 0 .. (n - 1) : h[c].val = p
    <2>1. Copies(h, n, p) > 0
      BY <1>2, <1>5
    <2>2. Cardinality({}) = 0
      BY FS_EmptySet
    <2>3. PICK X : X = {c \in 0 .. (n - 1) : h[c].val = p}
      OBVIOUS
    <2>4. Copies(h, n, p) = Cardinality(X)
      BY <2>3 DEF Copies
    <2>5. X # {}
      BY <2>1, <2>2, <2>4
    <2> QED BY <2>3, <2>5
  <1> QED BY <1>2, <1>3, <1>4, <1>5

\* insert() adds an entry,
LEMMA InsertedList ==
    ASSUME NEW n \in Nat, NEW E, Keyed(E), NEW h, IsHeap(E, h, n), NEW e \in E, e.val \in Slots
    PROVE  /\ IsHeap(E, ReadyInsert(h, e), n + 1)
           /\ Mult(ReadyInsert(h, e)) = S!Inserted(Mult(h), e.val)
  <1>1. PICK r : r = ReadyInsert(h, e)
    OBVIOUS
  <1>2. IsHeap(E, r, n + 1)
        /\ \A v : Copies(r, n + 1, v) = Copies(h, n, v) + (IF e.val = v THEN 1 ELSE 0)
    BY <1>1, InsertIs
  <1>3. Mult(r) = [p \in Slots |-> Copies(r, n + 1, p)]
    BY <1>2, MultIs
  <1>4. Mult(h) = [p \in Slots |-> Copies(h, n, p)] /\ \A p \in Slots : Mult(h)[p] \in Nat
    BY MultIs
  <1>5. PICK M : M = S!Inserted(Mult(h), e.val)
    OBVIOUS
  <1>6. M = [Mult(h) EXCEPT ![e.val] = @ + 1]
    BY <1>5 DEF S!Inserted
  <1>7. \A p \in Slots : M[p] = Mult(r)[p]
    BY <1>2, <1>3, <1>4, <1>6
  <1>8. M = [p \in Slots |-> M[p]] /\ Mult(r) = [p \in Slots |-> Mult(r)[p]]
    BY <1>3, <1>4, <1>6
  <1>9. M = Mult(r)
    BY <1>7, <1>8
  <1> QED BY <1>1, <1>2, <1>5, <1>9

\* dequeue() takes one
LEMMA PoppedList ==
    ASSUME NEW n \in Nat, n > 0, NEW E, Keyed(E), NEW h, IsHeap(E, h, n)
    PROVE  /\ IsHeap(E, ReadyDequeue(h), n - 1)
           /\ Mult(ReadyDequeue(h)) = S!Popped(Mult(h), h[0].val)
  <1>1. PICK r : r = ReadyDequeue(h)
    OBVIOUS
  <1>2. PICK l \in Nat : l = n - 1
    OBVIOUS
  <1>3. IsHeap(E, r, l)
        /\ \A v : Copies(h, n, v) = Copies(r, l, v) + (IF h[0].val = v THEN 1 ELSE 0)
    BY <1>1, <1>2, DequeueIs
  <1>4. Mult(r) = [p \in Slots |-> Copies(r, l, p)] /\ \A p \in Slots : Mult(r)[p] \in Nat
    BY <1>3, MultIs
  <1>5. Mult(h) = [p \in Slots |-> Copies(h, n, p)] /\ \A p \in Slots : Mult(h)[p] \in Nat
    BY MultIs
  <1>6. PICK M : M = S!Popped(Mult(h), h[0].val)
    OBVIOUS
  <1>7. M = [Mult(h) EXCEPT ![h[0].val] = @ - 1]
    BY <1>6 DEF S!Popped
  <1>8. \A p \in Slots : M[p] = Mult(r)[p]
    BY <1>3, <1>4, <1>5, <1>7
  <1>9. M = [p \in Slots |-> M[p]] /\ Mult(r) = [p \in Slots |-> Mult(r)[p]]
    BY <1>4, <1>5, <1>7
  <1>10. M = Mult(r)
    BY <1>8, <1>9
  <1> QED BY <1>1, <1>2, <1>3, <1>6, <1>10

\* and erase() every entry of a pid.
LEMMA ErasedList ==
    ASSUME NEW n \in Nat, NEW E, Keyed(E), NEW h, IsHeap(E, h, n), NEW id
    PROVE  /\ \E k \in Nat : IsHeap(E, ReadyErase(h, id), k)
           /\ Mult(ReadyErase(h, id)) = S!Erased(Mult(h), id)
  <1>1. PICK r : r = ReadyErase(h, id)
    OBVIOUS
  <1>2. PICK k \in Nat : /\ IsHeap(E, r, k)
                         /\ \A v : Copies(r, k, v) = IF v = id THEN 0 ELSE Copies(h, n, v)
    BY <1>1, EraseIs
  <1>3. Mult(r) = [p \in Slots |-> Copies(r, k, p)]
    BY <1>2, MultIs
  <1>4. Mult(h) = [p \in Slots |-> Copies(h, n, p)]
    BY MultIs
  <1>5. PICK M : M = S!Erased(Mult(h), id)
    OBVIOUS
  <1>6. M = [Mult(h) EXCEPT ![id] = 0]
    BY <1>5 DEF S!Erased
  <1>7. \A p \in Slots : M[p] = Mult(r)[p]
    BY <1>2, <1>3, <1>4, <1>6
  <1>8. M = [p \in Slots |-> M[p]] /\ Mult(r) = [p \in Slots |-> Mult(r)[p]]
    BY <1>3, <1>4, <1>6
  <1>9. M = Mult(r)
    BY <1>7, <1>8
  <1> QED BY <1>1, <1>2, <1>5, <1>9

\* The root is one of the queued processes of the highest priority.
LEMMA RootIsHighest ==
    ASSUME NEW pr, NEW tk, tk \subseteq Slots, pr \in [Slots -> Int],
           NEW n \in Nat, n > 0, NEW h, IsHeap(Fit(pr, tk), h, n)
    PROVE  /\ h[0].val \in tk /\ h[0].val \in S!Highest(Mult(h), pr)
           /\ \A p \in S!Highest(Mult(h), pr) : p \in Slots /\ pr[p] = pr[h[0].val]
  <1>1. /\ h[0] \in Fit(pr, tk)
        /\ \A c \in 0 .. (n - 1) : h[c].key <= h[0].key
    BY FitKeyed, DequeueIs
  <1>2. \A c \in 0 .. (n - 1) : h[c] \in Fit(pr, tk)
    BY DEF IsHeap, Array
  <1>3. \A c \in 0 .. (n - 1) : h[c].val \in tk /\ h[c].key = pr[h[c].val]
    BY <1>2 DEF Fit
  <1>4. PICK r : r = h[0].val
    OBVIOUS
  <1>5. 0 \in 0 .. (n - 1) /\ r \in tk /\ r \in Slots /\ h[0].key = pr[r]
    BY <1>1, <1>4 DEF Fit
  <1>6. \A p \in Slots : Mult(h)[p] > 0 <=> \E c \in 0 .. (n - 1) : h[c].val = p
    BY MultIs
  <1>7. Mult(h)[r] > 0
    BY <1>4, <1>5, <1>6
  <1>8. \A q \in Slots : Mult(h)[q] > 0 => pr[q] <= pr[r]
    BY <1>1, <1>3, <1>5, <1>6
  <1>9. S!Pid = Slots
    BY DEF S!Pid, Slots
  <1>10. S!Queued(Mult(h)) = {p \in Slots : Mult(h)[p] > 0}
    BY <1>9 DEF S!Queued
  <1>11. r \in S!Highest(Mult(h), pr)
    BY <1>5, <1>7, <1>8, <1>10 DEF S!Highest
  <1>12. ASSUME NEW p \in S!Highest(Mult(h), pr) PROVE p \in Slots /\ pr[p] = pr[r]
    <2>1. p \in Slots /\ Mult(h)[p] > 0 /\ pr[r] <= pr[p]
      BY <1>5, <1>7, <1>10, <1>12 DEF S!Highest
    <2> QED BY <2>1, <1>5, <1>8
  <1> QED BY <1>4, <1>5, <1>11, <1>12

\* Nothing is queued in the empty heap.
LEMMA EmptyList ==
    ASSUME NEW E, NEW n \in Nat, NEW h, IsHeap(E, h, n)
    PROVE  /\ h = <<>> <=> n = 0
           /\ n = 0 => S!Queued(Mult(h)) = {}
  <1>1. h = <<>> <=> n = 0
    BY NothingQueued
  <1>2. \A p \in Slots : Mult(h)[p] > 0 <=> \E c \in 0 .. (n - 1) : h[c].val = p
    BY MultIs
  <1>3. n = 0 => \A p \in Slots : ~ (Mult(h)[p] > 0)
    BY <1>2
  <1>4. S!Queued(Mult(h)) = {p \in Slots : Mult(h)[p] > 0}
    BY DEF S!Queued, S!Pid, Slots
  <1> QED BY <1>1, <1>3, <1>4


-----------------------------------------------------------------------------
(* HeapScheduler implements Scheduler.                                     *)

\* A table whose free slots were never used.
Tabled(st, pr, tk) ==
    /\ st \in [Slots -> S!ProcStatus]
    /\ pr \in [Slots -> Int]
    /\ tk \subseteq Slots
    /\ \A p \in Slots \ tk : st[p] = "NA"

\* The ready list is a heap of processes that exist, with their priorities.
Listed(pr, tk, h) == \E n \in Nat : IsHeap(Fit(pr, tk), h, n)

HeapInv ==
    /\ Tabled(status, priority, taken)
    /\ currpid \in taken
    /\ Listed(priority, taken, heap)

\* resched() with the heap is a resched() with the bag.
LEMMA ReschedMaps ==
    ASSUME NEW st, NEW pr, NEW tk, Tabled(st, pr, tk), currpid \in tk,
           NEW h, Listed(pr, tk, h), NEW k, Resched(st, pr, h, k)
    PROVE  /\ S!Resched(st, pr, Mult(h), k)
           /\ Tabled(status', pr, tk)
           /\ currpid' \in tk
           /\ Listed(pr, tk, heap')
  <1>1. PICK n \in Nat : IsHeap(Fit(pr, tk), h, n)
    BY DEF Listed
  <1>2. pr \in [Slots -> Int] /\ tk \subseteq Slots /\ currpid \in Slots
        /\ st \in [Slots -> S!ProcStatus]
    BY DEF Tabled
  <1>3. h = <<>> <=> n = 0
    BY <1>1, EmptyList
  <1>4. KeepsCpu(st, pr, h, k) <=> S!KeepsCpu(st, pr, Mult(h), k)
    <2>1. CASE n = 0
      <3>1. S!Highest(Mult(h), pr) = {}
        BY <2>1, <1>1, EmptyList DEF S!Highest
      <3> QED BY <3>1, <2>1, <1>3 DEF KeepsCpu, S!KeepsCpu
    <2>2. CASE n > 0
      <3>1. /\ h[0].val \in S!Highest(Mult(h), pr)
            /\ \A p \in S!Highest(Mult(h), pr) : pr[p] = pr[h[0].val]
        BY <2>2, <1>1, <1>2, RootIsHighest
      <3> QED BY <3>1, <2>2, <1>3 DEF KeepsCpu, S!KeepsCpu
    <2> QED BY <2>1, <2>2
  <1>5. CASE KeepsCpu(st, pr, h, k) /\ Leaves(st, h, k) /\ UNCHANGED fault
    <2>1. status' = st /\ heap' = h /\ readyCount' = k /\ currpid' = currpid /\ fault' = fault
      BY <1>5 DEF Leaves
    <2>2. S!Resched(st, pr, Mult(h), k)
      BY <2>1, <1>4, <1>5, ListIsNext DEF S!Resched
    <2> QED BY <2>1, <2>2
  <1>6. CASE ~ KeepsCpu(st, pr, h, k) /\ h = <<>> /\ fault' = "emptyHeap" /\ Leaves(st, h, k)
    <2>1. status' = st /\ heap' = h /\ readyCount' = k /\ currpid' = currpid
      BY <1>6 DEF Leaves
    <2>2. S!ReadsEmptyHeap(st, Mult(h), k)
      <3>1. S!Queued(Mult(h)) = {}
        BY <1>1, <1>3, <1>6, EmptyList
      <3>2. ~ (st[currpid] = "CURR" /\ k = 0)
        BY <1>6 DEF KeepsCpu
      <3> QED BY <3>1, <3>2 DEF S!ReadsEmptyHeap
    <2>3. S!Resched(st, pr, Mult(h), k)
      BY <2>1, <2>2, <1>6, ListIsNext DEF S!Resched
    <2> QED BY <2>1, <2>3
  <1>7. CASE ~ KeepsCpu(st, pr, h, k) /\ h # <<>> /\ Switch(st, pr, h, k) /\ UNCHANGED fault
    <2>1. n > 0
      BY <1>3, <1>7
    <2>2. PICK old : old = S!Preempted(st)
      OBVIOUS
    <2>3. PICK next : next = h[0].val
      OBVIOUS
    <2>4. PICK r : r = ReadyDequeue(h)
      OBVIOUS
    <2>5. /\ currpid' = next /\ heap' = Requeued(old, pr, r)
          /\ readyCount' = IF old[currpid] = "RUNNABLE" THEN k ELSE k - 1
          /\ status' = [old EXCEPT ![next] = "CURR"]
      BY <1>7, <2>2, <2>3, <2>4 DEF Switch
    <2>6. next \in tk /\ next \in S!Highest(Mult(h), pr) /\ next \in Slots
      BY <2>1, <2>3, <1>1, <1>2, RootIsHighest
    <2>7. IsHeap(Fit(pr, tk), r, n - 1) /\ Mult(r) = S!Popped(Mult(h), next)
      BY <2>1, <2>3, <2>4, <1>1, FitKeyed, PoppedList
    <2>8. PICK l \in Nat : l = n - 1
      BY <2>1
    <2>9. Listed(pr, tk, heap') /\ Mult(heap') = S!Requeued(old, Mult(r))
      <3>1. CASE old[currpid] = "RUNNABLE"
        <4>1. PICK e : e = Entry(pr, currpid)
          OBVIOUS
        <4>2. e \in Fit(pr, tk) /\ e.val = currpid
          BY <4>1, <1>2 DEF Entry, Fit
        <4>3. heap' = ReadyInsert(r, e)
          BY <2>5, <3>1, <4>1 DEF Requeued
        <4>4. IsHeap(Fit(pr, tk), ReadyInsert(r, e), l + 1)
              /\ Mult(ReadyInsert(r, e)) = S!Inserted(Mult(r), currpid)
          BY <2>7, <2>8, <4>2, <1>2, FitKeyed, InsertedList
        <4>5. S!Requeued(old, Mult(r)) = S!Inserted(Mult(r), currpid)
          BY <3>1 DEF S!Requeued
        <4> QED BY <4>3, <4>4, <4>5 DEF Listed
      <3>2. CASE old[currpid] # "RUNNABLE"
        <4>1. heap' = r /\ S!Requeued(old, Mult(r)) = Mult(r)
          BY <2>5, <3>2 DEF Requeued, S!Requeued
        <4> QED BY <4>1, <2>7, <2>8 DEF Listed
      <3> QED BY <3>1, <3>2
    <2>10. S!Switch(st, pr, Mult(h), k)
      BY <2>2, <2>5, <2>6, <2>7, <2>9, ListIsNext DEF S!Switch
    <2>11. S!Resched(st, pr, Mult(h), k)
      BY <2>10, <1>4, <1>7 DEF S!Resched
    <2>12. Tabled(status', pr, tk)
      <3>1. old \in [Slots -> S!ProcStatus] /\ \A p \in Slots : p # currpid => old[p] = st[p]
        BY <2>2, <1>2 DEF S!Preempted, S!ProcStatus
      <3>2. status' \in [Slots -> S!ProcStatus]
            /\ \A p \in Slots : p # currpid /\ p # next => status'[p] = st[p]
        BY <3>1, <2>5, <2>6 DEF S!ProcStatus
      <3> QED BY <3>2, <2>6 DEF Tabled
    <2> QED BY <2>5, <2>6, <2>9, <2>11, <2>12
  <1> QED BY <1>5, <1>6, <1>7 DEF Resched


\* A process that exists has a slot.
LEMMA ValidIsTaken ==
    ASSUME HeapInv, NEW id \in Slots, S!isvalid(id)
    PROVE  id \in taken
  BY DEF HeapInv, Tabled, S!isvalid

\* suspend() erases from the heap what it erases from the bag.
LEMMA SuspendedMaps ==
    ASSUME HeapInv, NEW id
    PROVE  /\ Listed(priority, taken, SuspendedHeap(id))
           /\ Mult(SuspendedHeap(id)) = S!SuspendedList(id)
  <1>1. PICK n \in Nat : IsHeap(Fit(priority, taken), heap, n)
    BY DEF HeapInv, Listed
  <1>2. CASE status[id] = "RUNNABLE"
    <2>1. SuspendedHeap(id) = ReadyErase(heap, id)
      BY <1>2 DEF SuspendedHeap
    <2>2. /\ \E k \in Nat : IsHeap(Fit(priority, taken), ReadyErase(heap, id), k)
          /\ Mult(ReadyErase(heap, id)) = S!Erased(Mult(heap), id)
      BY <1>1, FitKeyed, ErasedList
    <2>3. S!SuspendedList(id) = S!Erased(Mult(heap), id)
      BY <1>2, ListIs DEF S!SuspendedList
    <2> QED BY <2>1, <2>2, <2>3 DEF Listed
  <1>3. CASE status[id] # "RUNNABLE"
    <2>1. SuspendedHeap(id) = heap
      BY <1>3 DEF SuspendedHeap
    <2>2. S!SuspendedList(id) = Mult(heap)
      BY <1>3, ListIs DEF S!SuspendedList
    <2> QED BY <2>1, <2>2 DEF HeapInv
  <1> QED BY <1>2, <1>3

\* kill(), without the conditions of its callers.
LEMMA KillMaps ==
    ASSUME HeapInv, NEW id \in Slots, KillEffect(id)
    PROVE  HeapInv' /\ S!KillEffect(id)
  <1>1. PICK st : st = [status EXCEPT ![id] = "DEAD"]
    OBVIOUS
  <1>2. PICK h : h = SuspendedHeap(id)
    OBVIOUS
  <1>3. S!isvalid(id) /\ priority' = priority /\ taken' = taken /\ garbage' = garbage
    BY DEF KillEffect
  <1>4. id \in taken
    BY <1>3, ValidIsTaken
  <1>5. Tabled(st, priority, taken) /\ currpid \in taken
    BY <1>1, <1>4 DEF HeapInv, Tabled, S!ProcStatus
  <1>6. Listed(priority, taken, h) /\ Mult(h) = S!SuspendedList(id)
    BY <1>2, SuspendedMaps
  <1>7. CASE /\ stackmem[id] /\ stackmem' = [stackmem EXCEPT ![id] = FALSE]
             /\ Resched(st, priority, h, S!SuspendedCount(id))
    <2>1. /\ S!Resched(st, priority, Mult(h), S!SuspendedCount(id))
          /\ Tabled(status', priority, taken) /\ currpid' \in taken
          /\ Listed(priority, taken, heap')
      BY <1>5, <1>6, <1>7, ReschedMaps
    <2>2. S!KillEffect(id)
      BY <2>1, <1>1, <1>3, <1>6, <1>7 DEF S!KillEffect
    <2> QED BY <2>1, <2>2, <1>3 DEF HeapInv
  <1>8. CASE /\ ~ stackmem[id] /\ fault' = "freeNull"
             /\ Leaves(st, h, S!SuspendedCount(id)) /\ UNCHANGED stackmem
    <2>1. /\ status' = st /\ heap' = h /\ readyCount' = S!SuspendedCount(id)
          /\ currpid' = currpid
      BY <1>8 DEF Leaves
    <2>2. S!KillEffect(id)
      BY <2>1, <1>1, <1>3, <1>6, <1>8, ListIsNext DEF S!KillEffect
    <2> QED BY <2>1, <2>2, <1>3, <1>5, <1>6 DEF HeapInv
  <1> QED BY <1>1, <1>2, <1>7, <1>8 DEF KillEffect

\* resched() at the end of kthread_create(), if asked for.
LEMMA MaybeMaps ==
    ASSUME NEW st, NEW pr, NEW tk, Tabled(st, pr, tk), currpid \in tk, NEW do_resched,
           NEW h, Listed(pr, tk, h), NEW k, MaybeResched(do_resched, st, pr, h, k)
    PROVE  /\ S!MaybeResched(do_resched, st, pr, Mult(h), k)
           /\ Tabled(status', pr, tk)
           /\ currpid' \in tk
           /\ Listed(pr, tk, heap')
  <1>1. CASE do_resched
    <2>1. Resched(st, pr, h, k)
      BY <1>1 DEF MaybeResched
    <2>2. /\ S!Resched(st, pr, Mult(h), k)
          /\ Tabled(status', pr, tk) /\ currpid' \in tk /\ Listed(pr, tk, heap')
      BY <2>1, ReschedMaps
    <2> QED BY <2>2, <1>1 DEF S!MaybeResched
  <1>2. CASE ~ do_resched
    <2>1. /\ status' = st /\ heap' = h /\ readyCount' = k
          /\ currpid' = currpid /\ fault' = fault
      BY <1>2 DEF MaybeResched, Leaves
    <2> QED BY <2>1, <1>2, ListIsNext DEF S!MaybeResched
  <1> QED BY <1>1, <1>2

\* kthread_create() takes a slot that no entry of the ready list names.
LEMMA CreateMaps ==
    ASSUME HeapInv, NEW prio \in Int, NEW start_status \in {"RUNNABLE", "SUSPENDED"},
           NEW do_resched, KthreadCreate(prio, start_status, do_resched)
    PROVE  HeapInv' /\ S!KthreadCreate(prio, start_status, do_resched)
  <1>1. S!CallerRuns
    BY DEF KthreadCreate
  <1> DEFINE P(j) == [priority EXCEPT ![j] = prio]
             G(j) == IF start_status = "RUNNABLE" THEN ReadyInsert(heap, Entry(P(j), j)) ELSE heap
             K == IF start_status = "RUNNABLE" THEN readyCount + 1 ELSE readyCount
  <1>2. PICK j \in S!FreeSlots, found \in S!StackFound :
           /\ taken' = taken \cup {j} /\ priority' = P(j)
           /\ stackmem' = [stackmem EXCEPT ![j] = found]
           /\ MaybeResched(do_resched, [status EXCEPT ![j] = start_status], P(j), G(j), K)
           /\ garbage' = garbage
    BY DEF KthreadCreate
  <1>3. PICK tk : tk = taken \cup {j}
    OBVIOUS
  <1>4. PICK pr : pr = P(j)
    OBVIOUS
  <1>5. PICK st : st = [status EXCEPT ![j] = start_status]
    OBVIOUS
  <1>6. PICK h : h = G(j)
    OBVIOUS
  <1>7. j \in Slots /\ ~ (j \in taken)
    BY DEF S!FreeSlots, S!Pid, Slots
  <1>8. Tabled(st, pr, tk) /\ currpid \in tk
    <2>1. Tabled(status, priority, taken) /\ currpid \in taken
      BY DEF HeapInv
    <2>2. st \in [Slots -> S!ProcStatus] /\ pr \in [Slots -> Int] /\ tk \subseteq Slots
      BY <2>1, <1>3, <1>4, <1>5, <1>7 DEF Tabled, S!ProcStatus
    <2>3. \A p \in Slots \ tk : st[p] = "NA"
      BY <2>1, <1>3, <1>5, <1>7 DEF Tabled
    <2> QED BY <2>1, <2>2, <2>3, <1>3 DEF Tabled
  <1>9. PICK n \in Nat : IsHeap(Fit(priority, taken), heap, n)
    BY DEF HeapInv, Listed
  <1>10. IsHeap(Fit(pr, tk), heap, n)
    <2>1. \A p \in taken : pr[p] = priority[p]
      BY <1>4, <1>7 DEF HeapInv, Tabled
    <2>2. Fit(priority, taken) \subseteq Fit(pr, tk)
      BY <2>1, <1>3 DEF Fit
    <2> QED BY <2>2, <1>9 DEF IsHeap, Array
  <1>11. /\ Listed(pr, tk, h)
         /\ Mult(h) = IF start_status = "RUNNABLE" THEN S!Inserted(Mult(heap), j) ELSE Mult(heap)
    <2>1. CASE start_status = "RUNNABLE"
      <3>1. PICK e : e = Entry(pr, j)
        OBVIOUS
      <3>2. e \in Fit(pr, tk) /\ e.val = j
        BY <3>1, <1>3, <1>7, <1>8 DEF Entry, Fit, Tabled
      <3>3. h = ReadyInsert(heap, e)
        BY <3>1, <2>1, <1>4, <1>6
      <3>4. IsHeap(Fit(pr, tk), ReadyInsert(heap, e), n + 1)
            /\ Mult(ReadyInsert(heap, e)) = S!Inserted(Mult(heap), j)
        BY <3>2, <1>7, <1>10, FitKeyed, InsertedList
      <3> QED BY <2>1, <3>3, <3>4 DEF Listed
    <2>2. CASE start_status # "RUNNABLE"
      BY <2>2, <1>6, <1>10 DEF Listed
    <2> QED BY <2>1, <2>2
  <1>12. /\ S!MaybeResched(do_resched, st, pr, Mult(h), K)
         /\ Tabled(status', pr, tk) /\ currpid' \in tk /\ Listed(pr, tk, heap')
    <2>1. MaybeResched(do_resched, st, pr, h, K)
      BY <1>2, <1>4, <1>5, <1>6
    <2> HIDE DEF K
    <2> QED BY <2>1, <1>8, <1>11, MaybeMaps
  <1>13. S!KthreadCreate(prio, start_status, do_resched)
    BY <1>1, <1>2, <1>4, <1>5, <1>11, <1>12, ListIs DEF S!KthreadCreate
  <1> QED BY <1>12, <1>13, <1>2, <1>3, <1>4 DEF HeapInv

\* ready() queues a process that exists, and its status stays as it is.
LEMMA ReadyMaps ==
    ASSUME HeapInv, NEW id \in Slots, Ready(id)
    PROVE  HeapInv' /\ S!Ready(id)
  <1>1. /\ S!CallerRuns /\ S!MayReady(id) /\ S!isvalid(id)
        /\ status[id] # "RUNNABLE" /\ readyCount < MaxEntries
        /\ heap' = ReadyInsert(heap, Entry(priority, id)) /\ readyCount' = readyCount + 1
        /\ UNCHANGED <<status, priority, stackmem, taken, currpid, fault, garbage>>
    BY DEF Ready, table
  <1>2. PICK n \in Nat : IsHeap(Fit(priority, taken), heap, n)
    BY DEF HeapInv, Listed
  <1>3. PICK e : e = Entry(priority, id)
    OBVIOUS
  <1>4. e \in Fit(priority, taken) /\ e.val = id
    BY <1>1, <1>3, ValidIsTaken DEF Entry, Fit, HeapInv, Tabled
  <1>5. IsHeap(Fit(priority, taken), ReadyInsert(heap, e), n + 1)
        /\ Mult(ReadyInsert(heap, e)) = S!Inserted(Mult(heap), id)
    BY <1>2, <1>4, FitKeyed, InsertedList
  <1>6. Listed(priority, taken, heap')
    BY <1>1, <1>3, <1>5 DEF Listed
  <1>7. Mult(heap') = S!Inserted(Mult(heap), id)
    BY <1>1, <1>3, <1>5
  <1>8. HeapInv'
    BY <1>1, <1>6 DEF HeapInv
  <1>9. S!Ready(id)
    BY <1>1, <1>7, ListIs, ListIsNext DEF S!Ready
  <1> QED BY <1>8, <1>9

\* suspend() does not change the table but for one status.
LEMMA SuspendMaps ==
    ASSUME HeapInv, NEW id \in Slots, Suspend(id)
    PROVE  HeapInv' /\ S!Suspend(id)
  <1>1. /\ S!CallerRuns /\ S!MaySuspend(id) /\ S!isvalid(id)
        /\ status' = [status EXCEPT ![id] = "SUSPENDED"]
        /\ heap' = SuspendedHeap(id) /\ readyCount' = S!SuspendedCount(id)
        /\ UNCHANGED <<priority, stackmem, taken, currpid, fault, garbage>>
    BY DEF Suspend, Leaves, table
  <1>2. Listed(priority, taken, heap') /\ Mult(heap') = S!SuspendedList(id)
    BY <1>1, SuspendedMaps
  <1>3. id \in taken
    BY <1>1, ValidIsTaken
  <1>4. Tabled(status', priority, taken) /\ currpid \in taken
    BY <1>1, <1>3 DEF HeapInv, Tabled, S!ProcStatus
  <1>5. HeapInv'
    BY <1>1, <1>2, <1>4 DEF HeapInv
  <1>6. S!Suspend(id)
    BY <1>1, <1>2, ListIsNext DEF S!Suspend
  <1> QED BY <1>5, <1>6


\* processes::init leaves nullproc alone in the ready list.
LEMMA InitHeap == SchedInit => HeapInv /\ S!Init
  <1> SUFFICES ASSUME SchedInit PROVE HeapInv /\ S!Init
    OBVIOUS
  <1>1. S!Init /\ heap = [c \in 0 .. 0 |-> [key |-> 0, val |-> 0]]
    BY DEF SchedInit, S!NULLPROC
  <1>2. 0 \in Slots /\ 1 \in Slots
    BY HeapSchedulerAssumption DEF S!ConstantsAssumption, Slots
  <1>3. /\ status = [p \in Slots |-> CASE p = 0 -> "RUNNABLE" [] p = 1 -> "CURR" [] OTHER -> "NA"]
        /\ priority = [p \in Slots |-> IF p = 0 THEN 0 ELSE 10]
        /\ taken = {0, 1} /\ currpid = 1
    BY <1>1 DEF S!Init, S!Pid, S!NULLPROC, S!MAIN, Slots
  <1>4. Tabled(status, priority, taken)
    <2>1. \A p \in Slots : /\ status[p] \in S!ProcStatus
                           /\ p # 0 /\ p # 1 => status[p] = "NA"
      BY <1>3 DEF S!ProcStatus
    <2> QED BY <2>1, <1>2, <1>3 DEF Tabled
  <1>5. IsHeap(Fit(priority, taken), heap, 1)
    <2>1. [key |-> 0, val |-> 0] \in Fit(priority, taken)
      BY <1>2, <1>3 DEF Fit
    <2>2. Array(Fit(priority, taken), heap, 1)
      <3>1. 0 .. (1 - 1) = 0 .. 0
        OBVIOUS
      <3> QED BY <1>1, <2>1, <3>1 DEF Array
    <2>3. HeapOrdered(heap, 1)
      BY DEF HeapOrdered
    <2> QED BY <2>2, <2>3 DEF IsHeap
  <1> QED BY <1>1, <1>3, <1>4, <1>5 DEF HeapInv, Listed

\* A call of the scheduler with the heap is that call of the scheduler with the bag.
LEMMA NextHeap == HeapInv /\ [SchedNext]_schedVars => HeapInv' /\ [S!Next]_(S!vars)
  <1> SUFFICES ASSUME HeapInv, [SchedNext]_schedVars
               PROVE  HeapInv' /\ (S!Next \/ UNCHANGED S!vars)
    OBVIOUS
  <1>0. Targets \subseteq Slots /\ Priorities \subseteq Int
    BY HeapSchedulerAssumption DEF S!ConstantsAssumption, S!Pid, Slots
  <1>00. Tabled(status, priority, taken) /\ currpid \in taken /\ currpid \in Slots
         /\ Listed(priority, taken, heap)
    BY DEF HeapInv, Tabled
  <1>1. CASE Tick
    <2>1. /\ fault = "none" /\ Resched(status, priority, heap, readyCount)
          /\ priority' = priority /\ stackmem' = stackmem /\ taken' = taken
          /\ garbage' = garbage
      BY <1>1 DEF Tick, table
    <2>2. /\ S!Resched(status, priority, Mult(heap), readyCount)
          /\ Tabled(status', priority, taken) /\ currpid' \in taken
          /\ Listed(priority, taken, heap')
      BY <2>1, <1>00, ReschedMaps
    <2>3. S!Tick
      BY <2>1, <2>2, ListIs DEF S!Tick
    <2> QED BY <2>1, <2>2, <2>3 DEF HeapInv, S!Next
  <1>2. ASSUME NEW prio \in Priorities, NEW start_status \in {"RUNNABLE", "SUSPENDED"},
               NEW do_resched \in BOOLEAN, KthreadCreate(prio, start_status, do_resched)
        PROVE  HeapInv' /\ S!Next
    <2>1. HeapInv' /\ S!KthreadCreate(prio, start_status, do_resched)
      BY <1>0, <1>2, CreateMaps
    <2> QED BY <2>1 DEF S!Next
  <1>3. ASSUME NEW do_resched \in BOOLEAN, KthreadCreateFails(do_resched)
        PROVE  HeapInv' /\ S!Next
    <2>1. /\ S!CallerRuns /\ S!FreeSlots = {}
          /\ MaybeResched(do_resched, status, priority, heap, readyCount)
          /\ priority' = priority /\ stackmem' = stackmem /\ taken' = taken
          /\ garbage' = garbage
      BY <1>3 DEF KthreadCreateFails, table
    <2>2. /\ S!MaybeResched(do_resched, status, priority, Mult(heap), readyCount)
          /\ Tabled(status', priority, taken) /\ currpid' \in taken
          /\ Listed(priority, taken, heap')
      BY <2>1, <1>00, MaybeMaps
    <2>3. S!KthreadCreateFails(do_resched)
      BY <2>1, <2>2, ListIs DEF S!KthreadCreateFails
    <2> QED BY <2>1, <2>2, <2>3 DEF HeapInv, S!Next
  <1>4. ASSUME NEW id \in Targets, Ready(id) PROVE HeapInv' /\ S!Next
    <2>1. HeapInv' /\ S!Ready(id)
      BY <1>0, <1>4, ReadyMaps
    <2> QED BY <2>1 DEF S!Next
  <1>5. ASSUME NEW id \in Targets, Suspend(id) PROVE HeapInv' /\ S!Next
    <2>1. HeapInv' /\ S!Suspend(id)
      BY <1>0, <1>5, SuspendMaps
    <2> QED BY <2>1 DEF S!Next
  <1>6. ASSUME NEW id \in Targets, Kill(id) PROVE HeapInv' /\ S!Next
    <2>1. S!CallerRuns /\ S!MayKill(id) /\ KillEffect(id)
      BY <1>6 DEF Kill
    <2>2. HeapInv' /\ S!KillEffect(id)
      BY <2>1, <1>0, KillMaps
    <2>3. S!Kill(id)
      BY <2>1, <2>2 DEF S!Kill
    <2> QED BY <2>2, <2>3 DEF S!Next
  <1>7. ASSUME NEW p \in S!Pid, UserRet(p) PROVE HeapInv' /\ S!Next
    <2>1. /\ S!CallerRuns /\ currpid # S!MAIN /\ S!MayKill(currpid)
          /\ KillEffect(currpid)
      BY <1>7 DEF UserRet
    <2>2. HeapInv' /\ S!KillEffect(currpid)
      BY <2>1, <1>00, KillMaps
    <2>3. S!UserRet
      BY <2>1, <2>2 DEF S!UserRet
    <2> QED BY <2>2, <2>3 DEF S!Next
  <1>8. CASE UNCHANGED schedVars
    <2>1. /\ status' = status /\ priority' = priority /\ stackmem' = stackmem
          /\ taken' = taken /\ heap' = heap /\ readyCount' = readyCount
          /\ currpid' = currpid /\ fault' = fault /\ garbage' = garbage
      BY <1>8 DEF schedVars
    <2>2. HeapInv'
      BY <2>1 DEF HeapInv
    <2>3. UNCHANGED S!vars
      BY <2>1, ListIs, ListIsNext DEF S!vars
    <2> QED BY <2>2, <2>3
  <1> QED BY <1>1, <1>2, <1>3, <1>4, <1>5, <1>6, <1>7, <1>8 DEF SchedNext

\* For any table, priorities and callers, with or without the contract: the ready
\* list that insert(), dequeue() and the rebuilding erase() leave is a heap whose
\* keys are the priorities of the table, although kthread_create() writes one.
THEOREM ReadyListStaysHeap == SchedSpec => []ReadyListIsHeap
  <1>1. SchedInit => HeapInv
    BY InitHeap
  <1>2. HeapInv /\ [SchedNext]_schedVars => HeapInv'
    BY NextHeap
  <1>3. HeapInv => ReadyListIsHeap
    <2> SUFFICES ASSUME HeapInv PROVE ReadyListIsHeap
      OBVIOUS
    <2>1. PICK n \in Nat : IsHeap(Fit(priority, taken), heap, n)
      BY DEF HeapInv, Listed
    <2>2. Array(Fit(priority, taken), heap, n) /\ HeapOrdered(heap, n)
      BY <2>1 DEF IsHeap
    <2>3. DOMAIN heap = 0 .. (n - 1) /\ Length(heap) = n
      BY <2>2, LengthIs
    <2>4. HeapOrdered(heap, Length(heap))
      BY <2>2, <2>3
    <2>5. \A c \in DOMAIN heap : heap[c] \in Fit(priority, taken)
      BY <2>2, <2>3 DEF Array
    <2>6. \A c \in DOMAIN heap : heap[c].key = priority[heap[c].val]
      BY <2>5 DEF Fit
    <2> QED BY <2>4, <2>6 DEF ReadyListIsHeap
  <1> QED BY <1>1, <1>2, <1>3, PTL DEF SchedSpec

\* The scheduler with the binary heap implements the scheduler with the bag, so
\* that whatever is proved of Scheduler holds of it: resched() takes one of the
\* processes of the highest priority, and no entry is lost or doubled by a repair.
THEOREM HeapImplementsScheduler == SchedSpec => RefinesScheduler
  <1>1. SchedInit => HeapInv /\ S!Init
    BY InitHeap
  <1>2. HeapInv /\ [SchedNext]_schedVars => HeapInv' /\ [S!Next]_(S!vars)
    BY NextHeap
  <1> QED BY <1>1, <1>2, PTL DEF SchedSpec, RefinesScheduler, S!Spec

=============================================================================
