------------------------- MODULE UnorderedMapProofs -------------------------
(***************************************************************************)
(* Proofs about LinkedQueue and UnorderedMap: for any number of nodes,     *)
(* buckets, keys and values the lists stay what they should be, every call *)
(* does what the sequence or the map behind it should do, and the pointers *)
(* of find() stay good.                                                    *)
(***************************************************************************)
EXTENDS UnorderedMap, FiniteSetTheorems, WellFoundedInduction, TLAPS

-----------------------------------------------------------------------------
(* Lists as sequences of nodes.                                            *)

\* The i-th element, or NULL before and behind a list.
At(s, i) == IF i \in 1 .. Len(s) THEN s[i] ELSE NULL

\* The pointers nx lead from h on through the nodes of s, each once, to NULL.
IsList(s, h, nx) ==
    /\ s \in Seq(Node)
    /\ h = At(s, 1)
    /\ \A i \in 1 .. Len(s) : nx[s[i]] = At(s, i + 1)
    /\ \A i, j \in 1 .. Len(s) : s[i] = s[j] => i = j

\* Walk and Nodes, of any pointers.
IsWalk(w, h, nx) ==
    w = [i \in 1 .. (MaxNodes + 1) |->
            IF i = 1 THEN h ELSE IF w[i - 1] \in Node THEN nx[w[i - 1]] ELSE NULL]

WalkOf(h, nx) == CHOOSE w : IsWalk(w, h, nx)

NodesOf(h, nx) ==
    [i \in 1 .. Cardinality({j \in 1 .. (MaxNodes + 1) : WalkOf(h, nx)[j] \in Node}) |->
        WalkOf(h, nx)[i]]

\* They are those of the model, in this state
LEMMA NodesAre == \A q : Nodes(q) = NodesOf(head[q], next)
  <1>1. ASSUME NEW q PROVE Walk(q) = WalkOf(head[q], next)
    BY Zenon DEF Walk, WalkOf, IsWalk
  <1> QED BY <1>1, Zenon DEF Nodes, NodesOf

\* and in the next one.
LEMMA NodesAreNext == \A q : Nodes(q)' = NodesOf(head'[q], next')
  <1>1. ASSUME NEW q PROVE Walk(q)' = WalkOf(head'[q], next')
    BY Zenon DEF Walk, WalkOf, IsWalk
  <1> QED BY <1>1, Zenon DEF Nodes, NodesOf

\* The least element.
LEMMA LeastElement ==
    ASSUME NEW S, S \subseteq Nat, S # {}
    PROVE  \E x \in S : \A y \in S : x <= y
  <1>1. PICK x \in S : \A y \in S : ~ (<<y, x>> \in OpToRel(<, Nat))
    BY WFMin, NatLessThanWellFounded, Zenon
  <1>2. ASSUME NEW y \in S PROVE x <= y
    <2>1. x \in Nat /\ y \in Nat
      OBVIOUS
    <2>2. ~ (y < x)
      BY <1>1, <2>1, Zenon DEF OpToRel
    <2> QED BY <2>1, <2>2
  <1> QED BY <1>2

\* Pointers lead one way only.
LEMMA WalkUnique ==
    ASSUME NEW h, NEW nx, NEW v, NEW w, IsWalk(v, h, nx), IsWalk(w, h, nx)
    PROVE  v = w
  <1> DEFINE D == 1 .. (MaxNodes + 1)
             B == {i \in D : v[i] # w[i]}
  <1>1. /\ v = [i \in D |-> IF i = 1 THEN h ELSE IF v[i - 1] \in Node THEN nx[v[i - 1]] ELSE NULL]
        /\ w = [i \in D |-> IF i = 1 THEN h ELSE IF w[i - 1] \in Node THEN nx[w[i - 1]] ELSE NULL]
    BY DEF IsWalk
  <1>2. /\ \A i \in D : v[i] = IF i = 1 THEN h ELSE IF v[i - 1] \in Node THEN nx[v[i - 1]] ELSE NULL
        /\ \A i \in D : w[i] = IF i = 1 THEN h ELSE IF w[i - 1] \in Node THEN nx[w[i - 1]] ELSE NULL
    BY <1>1, Zenon
  <1>3. SUFFICES ASSUME B # {} PROVE FALSE
    <2>1. \A i \in D : v[i] = w[i]
      BY <1>3
    <2>2. DOMAIN v = D /\ DOMAIN w = D /\ v = [i \in D |-> v[i]] /\ w = [i \in D |-> w[i]]
      BY <1>1
    <2> HIDE DEF D
    <2> QED BY <2>1, <2>2
  <1>4. PICK i \in B : \A j \in B : i <= j
    <2>1. B \subseteq Nat
      BY QueueAssumption
    <2> HIDE DEF B
    <2> QED BY <2>1, <1>3, LeastElement
  <1>5. i \in D /\ v[i] # w[i] /\ i \in Nat
    BY QueueAssumption
  <1>6. i # 1
    BY <1>2, <1>5
  <1>7. i - 1 \in D /\ ~ (i <= i - 1)
    BY <1>5, <1>6, QueueAssumption
  <1>8. v[i - 1] = w[i - 1]
    BY <1>4, <1>7
  <1> QED BY <1>2, <1>5, <1>6, <1>8

\* A list is not longer than there are nodes.
LEMMA ListLength ==
    ASSUME NEW s \in Seq(Node), \A i, j \in 1 .. Len(s) : s[i] = s[j] => i = j
    PROVE  Len(s) \in 0 .. MaxNodes
  <1>1. MaxNodes \in Nat /\ Len(s) \in Nat
    BY QueueAssumption
  <1>2. s \in Injection(1 .. Len(s), Node)
    BY DEF Injection, IsInjective
  <1>3. IsFiniteSet(Node) /\ Cardinality(Node) = MaxNodes
    BY <1>1, FS_Interval DEF Node
  <1>4. IsFiniteSet(1 .. Len(s)) /\ Cardinality(1 .. Len(s)) = Len(s)
    <2>1. PICK l \in Nat : l = Len(s)
      BY <1>1
    <2>2. IsFiniteSet(1 .. l) /\ Cardinality(1 .. l) = l
      BY FS_Interval
    <2> QED BY <2>1, <2>2
  <1>5. Cardinality(1 .. Len(s)) <= Cardinality(Node)
    BY <1>2, <1>3, FS_Injection
  <1> QED BY <1>1, <1>3, <1>4, <1>5

\* The nodes that the pointers lead to are those of the list.
LEMMA ListIsNodes ==
    ASSUME NEW s, NEW h, NEW nx, IsList(s, h, nx)
    PROVE  NodesOf(h, nx) = s
  <1> DEFINE D == 1 .. (MaxNodes + 1)
             G == [i \in D |-> At(s, i)]
  <1>1. /\ MaxNodes \in Nat /\ s \in Seq(Node) /\ Len(s) \in 0 .. MaxNodes
        /\ 0 \notin Node /\ \A i \in 1 .. Len(s) : s[i] \in Node
    BY QueueAssumption, ListLength DEF IsList, Node
  <1>2. ASSUME NEW i \in D
        PROVE  G[i] = IF i = 1 THEN h ELSE IF G[i - 1] \in Node THEN nx[G[i - 1]] ELSE NULL
    <2>1. CASE i = 1
      BY <2>1, <1>1 DEF IsList
    <2>2. CASE i # 1 /\ i - 1 \in 1 .. Len(s)
      <3>1. G[i - 1] = s[i - 1] /\ s[i - 1] \in Node /\ G[i] = At(s, i) /\ (i - 1) + 1 = i
        BY <2>2, <1>1 DEF At
      <3>2. nx[s[i - 1]] = At(s, i)
        BY <2>2, <3>1 DEF IsList
      <3> QED BY <2>2, <3>1, <3>2
    <2>3. CASE i # 1 /\ i - 1 \notin 1 .. Len(s)
      <3>1. G[i - 1] = NULL /\ G[i] = NULL
        BY <2>3, <1>1 DEF At
      <3> QED BY <2>3, <3>1, <1>1 DEF NULL
    <2> QED BY <2>1, <2>2, <2>3
  <1>3. IsWalk(G, h, nx)
    <2>1. G = [i \in D |-> G[i]]
      OBVIOUS
    <2> HIDE DEF G
    <2> QED BY <1>2, <2>1 DEF IsWalk
  <1>4. WalkOf(h, nx) = G
    <2>1. IsWalk(WalkOf(h, nx), h, nx)
      BY <1>3, Zenon DEF WalkOf
    <2> HIDE DEF G
    <2> QED BY <1>3, <2>1, WalkUnique
  <1>5. {j \in D : G[j] \in Node} = 1 .. Len(s)
    BY <1>1 DEF At, NULL
  <1>6. Cardinality(1 .. Len(s)) = Len(s)
    <2>1. PICK l \in Nat : l = Len(s)
      BY <1>1
    <2>2. Cardinality(1 .. l) = l
      BY FS_Interval
    <2> QED BY <2>1, <2>2
  <1>7. NodesOf(h, nx) = [i \in 1 .. Len(s) |-> G[i]]
    <2> HIDE DEF G
    <2> QED BY <1>4, <1>5, <1>6 DEF NodesOf
  <1>8. \A i \in 1 .. Len(s) : G[i] = s[i]
    BY <1>1 DEF At
  <1>9. s = [i \in 1 .. Len(s) |-> s[i]]
    BY <1>1
  <1> HIDE DEF G
  <1> QED BY <1>7, <1>8, <1>9

\* The sequence without its k-th element.
Removed(s, k) == [i \in 1 .. (Len(s) - 1) |-> IF i < k THEN s[i] ELSE s[i + 1]]

\* Its elements.
LEMMA RemovedFacts ==
    ASSUME NEW S, NEW s \in Seq(S), NEW k \in 1 .. Len(s)
    PROVE  /\ Len(s) \in Nat /\ Len(s) - 1 \in Nat
           /\ Removed(s, k) \in Seq(S) /\ Len(Removed(s, k)) = Len(s) - 1
           /\ \A i \in 1 .. (Len(s) - 1) :
                 /\ Removed(s, k)[i] = IF i < k THEN s[i] ELSE s[i + 1]
                 /\ i \in 1 .. Len(s) /\ i + 1 \in 1 .. Len(s)
           /\ \A i \in Nat : At(Removed(s, k), i) = At(s, IF i < k THEN i ELSE i + 1)
  <1>1. Len(s) \in Nat /\ Len(s) - 1 \in Nat
    OBVIOUS
  <1>2. \A i \in 1 .. (Len(s) - 1) : i \in 1 .. Len(s) /\ i + 1 \in 1 .. Len(s)
    BY <1>1
  <1>3. ASSUME NEW i \in 1 .. (Len(s) - 1)
        PROVE  /\ Removed(s, k)[i] = IF i < k THEN s[i] ELSE s[i + 1]
               /\ Removed(s, k)[i] \in S
    <2>1. Removed(s, k)[i] = IF i < k THEN s[i] ELSE s[i + 1]
      BY DEF Removed
    <2> QED BY <1>2, <2>1
  <1>4. Removed(s, k) \in [1 .. (Len(s) - 1) -> S]
    BY <1>3 DEF Removed
  <1>5. Removed(s, k) \in Seq(S) /\ Len(Removed(s, k)) = Len(s) - 1
    BY <1>1, <1>4
  <1>6. ASSUME NEW i \in Nat
        PROVE  At(Removed(s, k), i) = At(s, IF i < k THEN i ELSE i + 1)
    <2>1. CASE i \in 1 .. (Len(s) - 1)
      BY <2>1, <1>2, <1>3, <1>5 DEF At
    <2>2. CASE i \notin 1 .. (Len(s) - 1)
      <3>1. (IF i < k THEN i ELSE i + 1) \notin 1 .. Len(s)
        BY <2>2, <1>1
      <3> QED BY <2>2, <3>1, <1>5 DEF At
    <2> QED BY <2>1, <2>2
  <1> QED BY <1>1, <1>2, <1>3, <1>5, <1>6

\* A node is taken out of a list.
LEMMA ListRemove ==
    ASSUME NEW s, NEW h, NEW nx, IsList(s, h, nx), NEW k \in 1 .. Len(s),
           NEW h2, h2 = IF k = 1 THEN nx[s[k]] ELSE h,
           NEW nx2, \A i \in 1 .. Len(s) :
                       i # k => nx2[s[i]] = IF i = k - 1 THEN nx[s[k]] ELSE nx[s[i]]
    PROVE  IsList(Removed(s, k), h2, nx2)
  <1>1. s \in Seq(Node) /\ h = At(s, 1) /\ (\A i \in 1 .. Len(s) : nx[s[i]] = At(s, i + 1))
        /\ (\A i, j \in 1 .. Len(s) : s[i] = s[j] => i = j)
    BY DEF IsList
  <1>2. PICK r : r = Removed(s, k)
    OBVIOUS
  <1>3. /\ Len(s) \in Nat /\ Len(s) - 1 \in Nat
        /\ r \in Seq(Node) /\ Len(r) = Len(s) - 1
        /\ \A i \in 1 .. (Len(s) - 1) : /\ r[i] = IF i < k THEN s[i] ELSE s[i + 1]
                                        /\ i \in 1 .. Len(s) /\ i + 1 \in 1 .. Len(s)
        /\ \A i \in Nat : At(r, i) = At(s, IF i < k THEN i ELSE i + 1)
    <2>1. /\ Len(s) \in Nat /\ Len(s) - 1 \in Nat
          /\ Removed(s, k) \in Seq(Node) /\ Len(Removed(s, k)) = Len(s) - 1
          /\ \A i \in 1 .. (Len(s) - 1) :
                /\ Removed(s, k)[i] = IF i < k THEN s[i] ELSE s[i + 1]
                /\ i \in 1 .. Len(s) /\ i + 1 \in 1 .. Len(s)
          /\ \A i \in Nat : At(Removed(s, k), i) = At(s, IF i < k THEN i ELSE i + 1)
      BY <1>1, RemovedFacts
    <2> QED BY <2>1, <1>2
  <1>4. h2 = At(r, 1)
    <2>1. At(r, 1) = At(s, IF 1 < k THEN 1 ELSE 1 + 1) /\ k \in Nat
      BY <1>3
    <2>2. CASE k = 1
      <3>1. nx[s[1]] = At(s, 1 + 1)
        BY <2>2, <1>1
      <3> QED BY <2>1, <2>2, <3>1
    <2>3. CASE k # 1
      BY <2>1, <2>3, <1>1
    <2> QED BY <2>2, <2>3
  <1>5. ASSUME NEW i \in 1 .. Len(r) PROVE nx2[r[i]] = At(r, i + 1)
    <2>1. i \in 1 .. (Len(s) - 1) /\ i + 1 \in Nat /\ k \in Nat /\ i \in Nat
      BY <1>3
    <2>2. /\ At(r, i + 1) = At(s, IF i + 1 < k THEN i + 1 ELSE (i + 1) + 1)
          /\ r[i] = (IF i < k THEN s[i] ELSE s[i + 1]) /\ i \in 1 .. Len(s)
      BY <2>1, <1>3
    <2>3. CASE i < k - 1
      <3>1. i < k /\ i + 1 < k /\ i # k /\ i # k - 1
        BY <2>1, <2>3
      <3> QED BY <3>1, <2>2, <1>1
    <2>4. CASE i = k - 1
      <3>1. i < k /\ ~ (i + 1 < k) /\ i # k /\ (i + 1) + 1 = k + 1
        BY <2>1, <2>4
      <3> QED BY <3>1, <2>2, <2>4, <1>1
    <2>5. CASE i >= k
      <3>1. r[i] = s[i + 1] /\ i + 1 \in 1 .. Len(s) /\ i + 1 # k /\ i + 1 # k - 1
        BY <2>1, <2>5, <1>3
      <3>2. At(r, i + 1) = At(s, (i + 1) + 1)
        BY <2>1, <2>5, <1>3
      <3> QED BY <3>1, <3>2, <1>1
    <2> QED BY <2>1, <2>3, <2>4, <2>5
  <1>6. ASSUME NEW i \in 1 .. Len(r), NEW j \in 1 .. Len(r), r[i] = r[j] PROVE i = j
    <2>1. /\ r[i] = s[IF i < k THEN i ELSE i + 1] /\ r[j] = s[IF j < k THEN j ELSE j + 1]
          /\ (IF i < k THEN i ELSE i + 1) \in 1 .. Len(s)
          /\ (IF j < k THEN j ELSE j + 1) \in 1 .. Len(s)
      BY <1>3
    <2>2. (IF i < k THEN i ELSE i + 1) = (IF j < k THEN j ELSE j + 1)
      BY <2>1, <1>1, <1>6
    <2>3. i \in Nat /\ j \in Nat /\ k \in Nat
      BY ONLY i \in 1 .. Len(r), j \in 1 .. Len(r), k \in 1 .. Len(s)
    <2> QED BY ONLY <2>2, <2>3
  <1> QED BY <1>2, <1>3, <1>4, <1>5, <1>6 DEF IsList

\* A node is put behind a list.
LEMMA ListAppend ==
    ASSUME NEW s, NEW h, NEW nx, IsList(s, h, nx),
           NEW p \in Node, \A i \in 1 .. Len(s) : s[i] # p,
           NEW h2, h2 = IF s = <<>> THEN p ELSE h,
           NEW nx2, nx2[p] = NULL,
           \A i \in 1 .. Len(s) : nx2[s[i]] = IF i = Len(s) THEN p ELSE nx[s[i]]
    PROVE  IsList(Append(s, p), h2, nx2)
  <1>1. s \in Seq(Node) /\ h = At(s, 1) /\ (\A i \in 1 .. Len(s) : nx[s[i]] = At(s, i + 1))
        /\ (\A i, j \in 1 .. Len(s) : s[i] = s[j] => i = j)
    BY DEF IsList
  <1>2. PICK r : r = Append(s, p)
    OBVIOUS
  <1>3. PICK l \in Nat : l = Len(s)
    BY <1>1
  <1>4. /\ r \in Seq(Node) /\ Len(r) = l + 1 /\ r[l + 1] = p
        /\ \A i \in 1 .. l : r[i] = s[i]
        /\ s = <<>> <=> l = 0
    BY <1>1, <1>2, <1>3
  <1>5. h2 = At(r, 1)
    <2>1. CASE l = 0
      BY <2>1, <1>4 DEF At
    <2>2. CASE l # 0
      BY <2>2, <1>1, <1>3, <1>4 DEF At
    <2> QED BY <2>1, <2>2
  <1>6. ASSUME NEW i \in 1 .. Len(r) PROVE nx2[r[i]] = At(r, i + 1)
    <2>1. CASE i = l + 1
      BY <2>1, <1>4 DEF At
    <2>2. CASE i = l
      <3>1. r[i] = s[i] /\ i \in 1 .. Len(s) /\ nx2[s[i]] = p /\ i + 1 = l + 1
        BY <2>2, <1>3, <1>4
      <3>2. At(r, i + 1) = p
        BY <3>1, <1>3, <1>4 DEF At
      <3> QED BY <3>1, <3>2
    <2>3. CASE i < l
      <3>1. r[i] = s[i] /\ i \in 1 .. Len(s) /\ nx2[s[i]] = At(s, i + 1)
        BY <2>3, <1>1, <1>3, <1>4
      <3>2. At(r, i + 1) = r[i + 1] /\ At(s, i + 1) = s[i + 1] /\ r[i + 1] = s[i + 1]
        BY <2>3, <1>3, <1>4 DEF At
      <3> QED BY <3>1, <3>2
    <2> QED BY <2>1, <2>2, <2>3, <1>4
  <1>7. ASSUME NEW i \in 1 .. Len(r), NEW j \in 1 .. Len(r), r[i] = r[j] PROVE i = j
    <2>1. CASE i \in 1 .. l /\ j \in 1 .. l
      BY <2>1, <1>1, <1>3, <1>4, <1>7
    <2>2. CASE i = l + 1 /\ j \in 1 .. l
      BY <2>2, <1>3, <1>4, <1>7
    <2>3. CASE i \in 1 .. l /\ j = l + 1
      BY <2>3, <1>3, <1>4, <1>7
    <2> QED BY <2>1, <2>2, <2>3, <1>4
  <1> QED BY <1>2, <1>4, <1>5, <1>6, <1>7 DEF IsList

-----------------------------------------------------------------------------
(* All the lists.                                                          *)

\* The pointers nx lead from the heads hd through the lists L, which have no node
\* in common and all the nodes lv in use.
Linked(L, hd, nx, lv) ==
    /\ L \in [Queues -> Seq(Node)]
    /\ \A q \in Queues : IsList(L[q], hd[q], nx)
    /\ \A q, r \in Queues : \A i \in 1 .. Len(L[q]), j \in 1 .. Len(L[r]) :
          L[q][i] = L[r][j] => q = r /\ i = j
    /\ lv = {p \in Node : \E q \in Queues : \E i \in 1 .. Len(L[q]) : L[q][i] = p}

\* These are the lists.
LEMMA LinkedIs ==
    ASSUME NEW L, NEW hd, NEW nx, NEW lv, Linked(L, hd, nx, lv), NEW q \in Queues
    PROVE  NodesOf(hd[q], nx) = L[q]
  BY ListIsNodes DEF Linked

\* A node of a list.
LEMMA LinkedNode ==
    ASSUME NEW L, NEW hd, NEW nx, NEW lv, Linked(L, hd, nx, lv), NEW q \in Queues,
           NEW i \in 1 .. Len(L[q])
    PROVE  L[q][i] \in Node /\ L[q][i] \in lv /\ L[q][i] # NULL
  <1>1. L[q] \in Seq(Node)
    BY DEF Linked
  <1>2. L[q][i] \in Node
    BY <1>1
  <1> QED BY <1>2 DEF Linked, Node, NULL

\* The pointers and the values of the nodes when node c behind pv is freed.
FreedLinks(nx, pv, c) ==
    [p \in Node |-> IF p \in {c} THEN Garbage
                    ELSE (IF pv = NULL THEN nx ELSE [nx EXCEPT ![pv] = nx[c]])[p]]

FreedValues(val, c) == [p \in Node |-> IF p \in {c} THEN Blank ELSE val[p]]

\* Unlinked: the k-th node of list q is freed.
LEMMA LinkedRemove ==
    ASSUME NEW L, NEW hd, NEW nx, NEW lv, Linked(L, hd, nx, lv),
           hd \in [Queues -> Node \cup {NULL}], nx \in [Node -> Node \cup {NULL, Garbage}],
           NEW q \in Queues, NEW k \in 1 .. Len(L[q]),
           NEW c, c = L[q][k], NEW pv, pv = At(L[q], k - 1),
           NEW hd2, hd2 = IF pv = NULL THEN [hd EXCEPT ![q] = nx[c]] ELSE hd,
           NEW nx2, nx2 = FreedLinks(nx, pv, c), NEW lv2, lv2 = lv \ {c}
    PROVE  Linked([L EXCEPT ![q] = Removed(L[q], k)], hd2, nx2, lv2)
  <1> USE DEF FreedLinks
  <1> DEFINE M == [L EXCEPT ![q] = Removed(L[q], k)]
  <1>1. /\ L \in [Queues -> Seq(Node)]
        /\ \A r \in Queues : IsList(L[r], hd[r], nx)
        /\ \A r, t \in Queues : \A i \in 1 .. Len(L[r]), j \in 1 .. Len(L[t]) :
              L[r][i] = L[t][j] => r = t /\ i = j
    BY DEF Linked
  <1>2. /\ Len(L[q]) \in Nat /\ Removed(L[q], k) \in Seq(Node)
        /\ Len(Removed(L[q], k)) = Len(L[q]) - 1
        /\ \A i \in 1 .. (Len(L[q]) - 1) :
              /\ Removed(L[q], k)[i] = IF i < k THEN L[q][i] ELSE L[q][i + 1]
              /\ i \in 1 .. Len(L[q]) /\ i + 1 \in 1 .. Len(L[q])
    BY <1>1, RemovedFacts
  <1>3. M \in [Queues -> Seq(Node)] /\ M[q] = Removed(L[q], k)
        /\ \A r \in Queues : r # q => M[r] = L[r]
    BY <1>1, <1>2
  <1> HIDE DEF M
  <1>4. /\ \A r \in Queues : \A i \in 1 .. Len(L[r]) : L[r][i] \in Node /\ L[r][i] # NULL
        /\ pv = (IF k = 1 THEN NULL ELSE L[q][k - 1])
        /\ pv = NULL <=> k = 1
    <2>1. \A r \in Queues : \A i \in 1 .. Len(L[r]) : L[r][i] \in Node /\ L[r][i] # NULL
      BY LinkedNode
    <2>2. pv = (IF k = 1 THEN NULL ELSE L[q][k - 1])
      BY <1>2 DEF At
    <2> QED BY <2>1, <2>2, <1>2
  <1>5. ASSUME NEW p \in Node, p # c
        PROVE  nx2[p] = IF k # 1 /\ p = pv THEN nx[c] ELSE nx[p]
    BY <1>4, <1>5
  <1>6. ASSUME NEW i \in 1 .. Len(L[q]), i # k
        PROVE  nx2[L[q][i]] = IF i = k - 1 THEN nx[c] ELSE nx[L[q][i]]
    <2>1. L[q][i] \in Node /\ L[q][i] # c
      BY <1>1, <1>4, <1>6
    <2>2. k # 1 => (L[q][i] = pv <=> i = k - 1)
      BY <1>1, <1>2, <1>4
    <2>3. k = 1 => i # k - 1
      BY <1>2
    <2> QED BY <2>1, <2>2, <2>3, <1>5
  <1>7. hd2[q] = IF k = 1 THEN nx[c] ELSE hd[q]
    BY <1>4
  <1>8. IsList(M[q], hd2[q], nx2)
    <2>1. PICK s : s = L[q]
      OBVIOUS
    <2>2. PICK h : h = hd[q]
      OBVIOUS
    <2>3. PICK h2 : h2 = hd2[q]
      OBVIOUS
    <2>4. k \in 1 .. Len(s) /\ IsList(s, h, nx) /\ h2 = IF k = 1 THEN nx[s[k]] ELSE h
      BY <2>1, <2>2, <2>3, <1>1, <1>7
    <2>5. \A i \in 1 .. Len(s) : i # k => nx2[s[i]] = IF i = k - 1 THEN nx[s[k]] ELSE nx[s[i]]
      BY <2>1, <1>6
    <2>6. IsList(Removed(s, k), h2, nx2)
      BY ONLY <2>4, <2>5, ListRemove
    <2> QED BY <2>1, <2>3, <2>6, <1>3
  <1>9. ASSUME NEW r \in Queues, r # q PROVE IsList(M[r], hd2[r], nx2)
    <2>1. hd2[r] = hd[r] /\ M[r] = L[r]
      BY <1>3, <1>9
    <2>2. ASSUME NEW i \in 1 .. Len(L[r]) PROVE nx2[L[r][i]] = nx[L[r][i]]
      <3>1. L[r][i] # c /\ (k # 1 => L[r][i] # pv) /\ L[r][i] \in Node
        BY <1>1, <1>2, <1>4, <1>9
      <3> QED BY <3>1, <1>5
    <2> QED BY <2>1, <2>2, <1>1 DEF IsList
  <1>10. ASSUME NEW r \in Queues, NEW i \in 1 .. Len(M[r])
         PROVE  \E j \in 1 .. Len(L[r]) : /\ M[r][i] = L[r][j] /\ (r = q => j # k)
                                          /\ j = (IF r = q /\ i >= k THEN i + 1 ELSE i)
    <2>1. CASE r = q
      BY <2>1, <1>2, <1>3
    <2>2. CASE r # q
      BY <2>2, <1>3
    <2> QED BY <2>1, <2>2
  <1>11. ASSUME NEW r \in Queues, NEW t \in Queues, NEW i \in 1 .. Len(M[r]),
                NEW j \in 1 .. Len(M[t]), M[r][i] = M[t][j]
         PROVE  r = t /\ i = j
    <2>1. PICK a \in 1 .. Len(L[r]) : /\ M[r][i] = L[r][a]
                                      /\ a = (IF r = q /\ i >= k THEN i + 1 ELSE i)
      BY <1>10
    <2>2. PICK b \in 1 .. Len(L[t]) : /\ M[t][j] = L[t][b]
                                      /\ b = (IF t = q /\ j >= k THEN j + 1 ELSE j)
      BY <1>10
    <2>3. r = t /\ a = b
      BY <2>1, <2>2, <1>1, <1>11
    <2>4. i \in Nat /\ j \in Nat /\ k \in Nat
      BY <1>2, <1>3
    <2> QED BY <2>1, <2>2, <2>3, <2>4
  <1>12. lv2 = {p \in Node : \E r \in Queues : \E i \in 1 .. Len(M[r]) : M[r][i] = p}
    <2>1. lv = {p \in Node : \E r \in Queues : \E i \in 1 .. Len(L[r]) : L[r][i] = p}
      BY DEF Linked
    <2>2. ASSUME NEW p \in lv2
          PROVE  \E r \in Queues : \E i \in 1 .. Len(M[r]) : M[r][i] = p
      <3>0. PICK r \in Queues : \E j \in 1 .. Len(L[r]) : L[r][j] = p
        BY <2>1
      <3>1. PICK j \in 1 .. Len(L[r]) : L[r][j] = p
        BY <3>0
      <3>2. CASE r = q
        <4>1. j # k /\ j \in Nat /\ k \in Nat
          BY <3>1, <3>2, <1>2
        <4>2. (IF j < k THEN j ELSE j - 1) \in 1 .. Len(M[q])
          BY <4>1, <3>1, <3>2, <1>2, <1>3
        <4>3. M[q][IF j < k THEN j ELSE j - 1] = L[q][j]
          BY <4>1, <4>2, <3>2, <1>2, <1>3
        <4> QED BY <4>2, <4>3, <3>1, <3>2
      <3>3. CASE r # q
        BY <3>1, <3>3, <1>3
      <3> QED BY <3>2, <3>3
    <2>3. ASSUME NEW r \in Queues, NEW i \in 1 .. Len(M[r]) PROVE M[r][i] \in lv2
      <3>1. PICK j \in 1 .. Len(L[r]) : M[r][i] = L[r][j] /\ (r = q => j # k)
        BY <1>10
      <3>2. L[r][j] \in lv /\ L[r][j] # c
        <4>1. L[r][j] \in lv
          BY LinkedNode
        <4>2. r = q \/ r # q
          OBVIOUS
        <4> QED BY <4>1, <4>2, <3>1, <1>1
      <3> QED BY <3>1, <3>2
    <2>4. lv2 \subseteq Node
      BY <2>1
    <2> QED BY <2>2, <2>3, <2>4
  <1>13. \A r \in Queues : IsList(M[r], hd2[r], nx2)
    BY <1>8, <1>9
  <1>14. Linked(M, hd2, nx2, lv2)
    BY <1>3, <1>11, <1>12, <1>13 DEF Linked
  <1> QED BY <1>14 DEF M

\* The pointers when node p is put behind node pv.
NewLinks(nx, pv, p) == IF pv = NULL THEN [nx EXCEPT ![p] = NULL] ELSE [[nx EXCEPT ![p] = NULL] EXCEPT ![pv] = p]

\* InsertNode: a free node p is put behind list q.
LEMMA LinkedInsert ==
    ASSUME NEW L, NEW hd, NEW nx, NEW lv, Linked(L, hd, nx, lv),
           hd \in [Queues -> Node \cup {NULL}], nx \in [Node -> Node \cup {NULL, Garbage}],
           NEW q \in Queues, NEW p \in Node, p \notin lv, NEW pv, pv = At(L[q], Len(L[q])),
           NEW hd2, hd2 = IF pv = NULL THEN [hd EXCEPT ![q] = p] ELSE hd,
           NEW nx2, nx2 = NewLinks(nx, pv, p), NEW lv2, lv2 = lv \cup {p}
    PROVE  Linked([L EXCEPT ![q] = Append(L[q], p)], hd2, nx2, lv2)
  <1> USE DEF NewLinks
  <1> DEFINE M == [L EXCEPT ![q] = Append(L[q], p)]
  <1>1. /\ L \in [Queues -> Seq(Node)]
        /\ \A r \in Queues : IsList(L[r], hd[r], nx)
        /\ \A r, t \in Queues : \A i \in 1 .. Len(L[r]), j \in 1 .. Len(L[t]) :
              L[r][i] = L[t][j] => r = t /\ i = j
        /\ lv = {x \in Node : \E r \in Queues : \E i \in 1 .. Len(L[r]) : L[r][i] = x}
    BY DEF Linked
  <1>2. PICK s \in Seq(Node) : s = L[q]
    BY <1>1
  <1>3. PICK l \in Nat : l = Len(s)
    OBVIOUS
  <1>4. PICK a \in Seq(Node) : a = Append(s, p)
    <2>1. Append(s, p) \in Seq(Node)
      BY ONLY s \in Seq(Node), p \in Node
    <2> QED BY ONLY <2>1
  <1>5. /\ Len(a) = l + 1 /\ a[l + 1] = p /\ (\A i \in 1 .. l : a[i] = s[i])
        /\ s = <<>> <=> l = 0
    BY <1>3, <1>4
  <1>6. M \in [Queues -> Seq(Node)] /\ M[q] = a /\ \A r \in Queues : r # q => M[r] = L[r]
    BY <1>1, <1>2, <1>4
  <1> HIDE DEF M
  <1>7. \A r \in Queues : \A i \in 1 .. Len(L[r]) :
           L[r][i] \in Node /\ L[r][i] # NULL /\ L[r][i] # p
    BY LinkedNode
  <1>8. pv = (IF l = 0 THEN NULL ELSE s[l]) /\ (pv = NULL <=> l = 0)
    <2>1. pv = (IF l = 0 THEN NULL ELSE s[l])
      BY <1>2, <1>3 DEF At
    <2>2. l # 0 => l \in 1 .. Len(L[q])
      BY <1>2, <1>3
    <2> QED BY <2>1, <2>2, <1>2, <1>7
  <1>9. nx2[p] = NULL /\ \A x \in Node : x # p => nx2[x] = IF l # 0 /\ x = pv THEN p ELSE nx[x]
    <2>1. l # 0 => pv \in Node /\ pv # p
      BY <1>2, <1>3, <1>7, <1>8
    <2>2. CASE l = 0
      BY <2>2, <1>8
    <2>3. CASE l # 0
      BY <2>1, <2>3, <1>8
    <2> QED BY <2>2, <2>3
  <1>10. IsList(a, hd2[q], nx2)
    <2>1. PICK h : h = hd[q]
      OBVIOUS
    <2>2. PICK h2 : h2 = hd2[q]
      OBVIOUS
    <2>3. IsList(s, h, nx) /\ h2 = IF s = <<>> THEN p ELSE h
      BY <2>1, <2>2, <1>1, <1>2, <1>5, <1>8
    <2>4. \A i \in 1 .. Len(s) : s[i] # p
      BY <1>2, <1>7
    <2>5. ASSUME NEW i \in 1 .. Len(s) PROVE nx2[s[i]] = IF i = Len(s) THEN p ELSE nx[s[i]]
      <3>1. s[i] \in Node /\ s[i] # p /\ l # 0
        BY <2>4, <1>3
      <3>2. s[i] = pv <=> i = l
        <4>1. s[i] = s[l] => i = l
          <5>1. l \in 1 .. Len(L[q]) /\ i \in 1 .. Len(L[q])
            BY <1>2, <1>3
          <5> QED BY <5>1, <1>1, <1>2
        <4> QED BY <4>1, <3>1, <1>8
      <3> QED BY <3>1, <3>2, <1>3, <1>9
    <2>6. IsList(Append(s, p), h2, nx2)
      <3>1. IsList(s, h, nx) /\ p \in Node /\ nx2[p] = NULL /\ h2 = IF s = <<>> THEN p ELSE h
        BY <2>3, <1>9
      <3>2. \A i \in 1 .. Len(s) : nx2[s[i]] = IF i = Len(s) THEN p ELSE nx[s[i]]
        BY <2>5
      <3> QED BY ONLY <3>1, <3>2, <2>4, ListAppend
    <2> QED BY <2>2, <2>6, <1>4
  <1>11. ASSUME NEW r \in Queues, r # q PROVE IsList(M[r], hd2[r], nx2)
    <2>1. hd2[r] = hd[r] /\ M[r] = L[r]
      BY <1>6, <1>11
    <2>2. ASSUME NEW i \in 1 .. Len(L[r]) PROVE nx2[L[r][i]] = nx[L[r][i]]
      <3>1. L[r][i] \in Node /\ L[r][i] # p
        BY <1>7
      <3>2. l # 0 => L[r][i] # pv
        <4>1. l # 0 => l \in 1 .. Len(L[q]) /\ pv = L[q][l]
          BY <1>2, <1>3, <1>8
        <4> QED BY <4>1, <1>1, <1>11
      <3> QED BY <3>1, <3>2, <1>9
    <2> QED BY <2>1, <2>2, <1>1 DEF IsList
  <1>12. ASSUME NEW r \in Queues, NEW i \in 1 .. Len(M[r])
         PROVE  \/ r = q /\ i = l + 1 /\ M[r][i] = p
                \/ i \in 1 .. Len(L[r]) /\ M[r][i] = L[r][i]
    <2>1. CASE r = q
      BY <2>1, <1>2, <1>3, <1>5, <1>6
    <2>2. CASE r # q
      BY <2>2, <1>6
    <2> QED BY <2>1, <2>2
  <1>13. ASSUME NEW r \in Queues, NEW t \in Queues, NEW i \in 1 .. Len(M[r]),
                NEW j \in 1 .. Len(M[t]), M[r][i] = M[t][j]
         PROVE  r = t /\ i = j
    <2>1. \/ r = q /\ i = l + 1 /\ M[r][i] = p
          \/ i \in 1 .. Len(L[r]) /\ M[r][i] = L[r][i] /\ M[r][i] # p
      BY <1>7, <1>12
    <2>2. \/ t = q /\ j = l + 1 /\ M[t][j] = p
          \/ j \in 1 .. Len(L[t]) /\ M[t][j] = L[t][j] /\ M[t][j] # p
      BY <1>7, <1>12
    <2> QED BY <2>1, <2>2, <1>1, <1>13
  <1>14. lv2 = {x \in Node : \E r \in Queues : \E i \in 1 .. Len(M[r]) : M[r][i] = x}
    <2>1. ASSUME NEW x \in lv PROVE \E r \in Queues : \E i \in 1 .. Len(M[r]) : M[r][i] = x
      <3>1. PICK r \in Queues : \E i \in 1 .. Len(L[r]) : L[r][i] = x
        BY <1>1
      <3>2. PICK i \in 1 .. Len(L[r]) : L[r][i] = x
        BY <3>1
      <3>3. i \in 1 .. Len(M[r]) /\ M[r][i] = L[r][i]
        <4>1. CASE r = q
          BY <4>1, <1>2, <1>3, <1>5, <1>6
        <4>2. CASE r # q
          BY <4>2, <1>6
        <4> QED BY <4>1, <4>2
      <3> QED BY <3>2, <3>3
    <2>2. l + 1 \in 1 .. Len(M[q]) /\ M[q][l + 1] = p
      BY <1>5, <1>6
    <2>3. ASSUME NEW r \in Queues, NEW i \in 1 .. Len(M[r]) PROVE M[r][i] \in lv2
      <3>1. i \in 1 .. Len(L[r]) => L[r][i] \in lv
        BY LinkedNode
      <3> QED BY <3>1, <1>12
    <2>4. lv2 \subseteq Node
      BY <1>1
    <2> QED BY <2>1, <2>2, <2>3, <2>4, SMTT(30)
  <1>15. \A r \in Queues : IsList(M[r], hd2[r], nx2)
    BY <1>6, <1>10, <1>11
  <1>16. Linked(M, hd2, nx2, lv2)
    BY <1>6, <1>13, <1>14, <1>15 DEF Linked
  <1> QED BY <1>16 DEF M

-----------------------------------------------------------------------------
(* What the operations mean.                                               *)

\* Without, of any values.
IsKept(f, l, match, s) ==
    f = [i \in 0 .. l |-> IF i = 0 THEN <<>>
                          ELSE IF s[i] \in match THEN f[i - 1] ELSE Append(f[i - 1], s[i])]

KeptOf(match, s) == CHOOSE f : IsKept(f, Len(s), match, s)

\* That is how the model says it.
LEMMA WithoutIs == \A match, s : Without(match, s) = KeptOf(match, s)[Len(s)]
  BY Zenon DEF Without, KeptOf, IsKept

\* The values kept of the first elements of a sequence are determined.
LEMMA KeptExists ==
    ASSUME NEW match, NEW s, NEW l \in Nat
    PROVE  \E f : IsKept(f, l, match, s)
  <1> DEFINE B == {m \in Nat : ~ \E f : IsKept(f, m, match, s)}
  <1>1. SUFFICES ASSUME B # {} PROVE FALSE
    OBVIOUS
  <1>2. PICK m \in B : \A j \in B : m <= j
    <2>1. B \subseteq Nat
      OBVIOUS
    <2> HIDE DEF B
    <2> QED BY <1>1, <2>1, LeastElement
  <1>3. m \in Nat /\ ~ \E f : IsKept(f, m, match, s)
    OBVIOUS
  <1>4. m # 0
    <2>1. SUFFICES ASSUME m = 0 PROVE FALSE
      OBVIOUS
    <2> DEFINE f == [i \in 0 .. 0 |-> <<>>]
    <2>2. f = [i \in 0 .. 0 |-> IF i = 0 THEN <<>>
                 ELSE IF s[i] \in match THEN f[i - 1] ELSE Append(f[i - 1], s[i])]
      OBVIOUS
    <2> HIDE DEF f
    <2> QED BY <2>1, <2>2, <1>3 DEF IsKept
  <1>5. m - 1 \in Nat /\ m - 1 \notin B
    <2>1. m - 1 \in Nat /\ ~ (m <= m - 1)
      BY <1>3, <1>4
    <2> HIDE DEF B
    <2> QED BY <2>1, <1>2
  <1>6. PICK g : IsKept(g, m - 1, match, s)
    BY <1>5
  <1> DEFINE f == [i \in 0 .. m |-> IF i < m THEN g[i]
                      ELSE IF s[m] \in match THEN g[m - 1] ELSE Append(g[m - 1], s[m])]
  <1>7. \A i \in 0 .. (m - 1) : g[i] = IF i = 0 THEN <<>>
                     ELSE IF s[i] \in match THEN g[i - 1] ELSE Append(g[i - 1], s[i])
    BY <1>6, Zenon DEF IsKept
  <1>8. ASSUME NEW i \in 0 .. m
        PROVE  f[i] = IF i = 0 THEN <<>>
                      ELSE IF s[i] \in match THEN f[i - 1] ELSE Append(f[i - 1], s[i])
    <2>1. CASE i = m
      <3>1. i - 1 \in 0 .. m /\ i - 1 < m /\ ~ (i < m)
        BY <2>1, <1>3, <1>4
      <3>2. f[i - 1] = g[m - 1]
        BY <3>1, <2>1
      <3> QED BY <2>1, <3>1, <3>2, <1>4
    <2>2. CASE i # m
      <3>1. i \in 0 .. (m - 1) /\ i < m
        BY <2>2, <1>3
      <3>2. i # 0 => i - 1 \in 0 .. m /\ i - 1 < m
        BY <3>1, <1>3
      <3>3. f[i] = g[i] /\ (i # 0 => f[i - 1] = g[i - 1])
        BY <3>1, <3>2
      <3> QED BY <3>1, <3>3, <1>7
    <2> QED BY <2>1, <2>2
  <1>9. f = [i \in 0 .. m |-> f[i]]
    OBVIOUS
  <1>10. IsKept(f, m, match, s)
    <2> HIDE DEF f
    <2> QED BY <1>8, <1>9 DEF IsKept
  <1> QED BY <1>3, <1>10, Zenon

\* One more element.
LEMMA KeptStep ==
    ASSUME NEW match, NEW S, NEW s \in Seq(S)
    PROVE  /\ KeptOf(match, s)[0] = <<>>
           /\ \A i \in 1 .. Len(s) :
                 KeptOf(match, s)[i] = IF s[i] \in match THEN KeptOf(match, s)[i - 1]
                                       ELSE Append(KeptOf(match, s)[i - 1], s[i])
  <1>1. PICK l \in Nat : l = Len(s)
    OBVIOUS
  <1>2. \E f : IsKept(f, Len(s), match, s)
    BY <1>1, KeptExists
  <1>3. IsKept(KeptOf(match, s), Len(s), match, s)
    BY <1>2, Zenon DEF KeptOf
  <1>4. PICK f : f = KeptOf(match, s)
    OBVIOUS
  <1>5. \A i \in 0 .. Len(s) : f[i] = IF i = 0 THEN <<>>
                     ELSE IF s[i] \in match THEN f[i - 1] ELSE Append(f[i - 1], s[i])
    BY <1>3, <1>4, Zenon DEF IsKept
  <1> QED BY <1>1, <1>4, <1>5

\* Sequences with the same elements.
LEMMA SameSeq ==
    ASSUME NEW S, NEW s \in Seq(S), NEW T, NEW t \in Seq(T), Len(s) = Len(t), \A i \in 1 .. Len(s) : s[i] = t[i]
    PROVE  s = t
  OBVIOUS

\* insert() of the one value.
LEMMA SetToSeqOne == ASSUME NEW e PROVE SetToSeq({e}) = <<e>>
  <1>1. Cardinality({e}) = 1
    BY FS_Singleton
  <1>2. <<e>> \in [1 .. 1 -> {e}] /\ IsInjective(<<e>>)
    BY DEF IsInjective
  <1>3. \A f \in [1 .. 1 -> {e}] : f = <<e>>
    OBVIOUS
  <1> QED BY <1>1, <1>2, <1>3 DEF SetToSeq

\* erase_idx() and dequeue() remove one.
LEMMA RemoveAtIs ==
    ASSUME NEW S, NEW s \in Seq(S), NEW k \in 1 .. Len(s)
    PROVE  RemoveAt(s, k) = Removed(s, k)
  <1>1. PICK l \in Nat : l = Len(s)
    OBVIOUS
  <1>2. PICK a \in Seq(S) : a = SubSeq(s, 1, k - 1)
    <2>1. SubSeq(s, 1, k - 1) \in Seq(S)
      BY <1>1
    <2> QED BY ONLY <2>1
  <1>3. PICK b \in Seq(S) : b = SubSeq(s, k + 1, Len(s))
    <2>1. SubSeq(s, k + 1, Len(s)) \in Seq(S)
      BY <1>1
    <2> QED BY ONLY <2>1
  <1>4. Len(a) = k - 1 /\ \A i \in 1 .. (k - 1) : a[i] = s[i]
    BY <1>1, <1>2
  <1>5. Len(b) = l - k /\ \A i \in 1 .. (l - k) : b[i] = s[i + k]
    BY <1>1, <1>3
  <1>6. PICK r \in Seq(S) : r = a \o b
    <2>1. a \o b \in Seq(S)
      OBVIOUS
    <2> QED BY ONLY <2>1
  <1>7. Len(r) = l - 1 /\ \A i \in 1 .. (l - 1) : r[i] = IF i < k THEN s[i] ELSE s[i + 1]
    BY <1>1, <1>4, <1>5, <1>6
  <1>8. Removed(s, k) \in Seq(S) /\ Len(Removed(s, k)) = l - 1
        /\ \A i \in 1 .. (l - 1) : Removed(s, k)[i] = IF i < k THEN s[i] ELSE s[i + 1]
    BY <1>1, RemovedFacts
  <1>9. r = Removed(s, k)
    BY <1>7, <1>8, SameSeq
  <1> QED BY <1>2, <1>3, <1>6, <1>9 DEF RemoveAt

LEMMA TailIs ==
    ASSUME NEW S, NEW s \in Seq(S), s # <<>>
    PROVE  1 \in 1 .. Len(s) /\ Tail(s) = Removed(s, 1) /\ Head(s) = s[1]
  <1>1. PICK l \in Nat : l = Len(s)
    OBVIOUS
  <1>2. l # 0
    BY <1>1
  <1>3. Tail(s) \in Seq(S) /\ Len(Tail(s)) = l - 1 /\ \A i \in 1 .. (l - 1) : Tail(s)[i] = s[i + 1]
    BY <1>1, <1>2
  <1>4. 1 \in 1 .. Len(s)
    BY <1>1, <1>2
  <1>5. Removed(s, 1) \in Seq(S) /\ Len(Removed(s, 1)) = l - 1
        /\ \A i \in 1 .. (l - 1) : Removed(s, 1)[i] = IF i < 1 THEN s[i] ELSE s[i + 1]
    BY <1>1, <1>4, RemovedFacts
  <1>6. \A i \in 1 .. (l - 1) : ~ (i < 1)
    BY <1>1
  <1>7. Tail(s) = Removed(s, 1)
    BY <1>3, <1>5, <1>6, SameSeq
  <1> QED BY <1>4, <1>7

-----------------------------------------------------------------------------
(* The invariant.                                                          *)

\* The values of a list, and the pairs of the buckets.
Cont(s, val) == [i \in 1 .. Len(s) |-> val[s[i]]]
Pairs(L, val) == {x \in Pair : \E b \in Bucket : \E i \in 1 .. Len(L[b]) : val[L[b][i]] = x}

Ops == {"insert", "erase_item", "erase_idx", "find", "dequeue", "top", "destroy"}

\* The destructor runs: what is left of the list begins at curr.
Destroying == call.op = "destroy" /\ call.at = "loop"
Roots == [q \in Queues |-> IF Destroying /\ q = call.q THEN curr ELSE head[q]]

TypeInv ==
    /\ TypeOK
    /\ call \in [op : Ops \cup {"none"}, q : Queues, match : SUBSET Pair, index : Nat,
                 at : {"loop", "returned", "answered", "fault"}]
    /\ ret \in [ok : BOOLEAN, num : Nat, val : Pair \cup {Blank}]
    /\ job \in [op : {"none", "insert", "find", "erase"}, stage : {"look", "change"},
                key : Keys, val : Vals]
    /\ held \in [key : Keys, ptr : Node \cup {NULL}]
    /\ before \in [map : SUBSET Pair, queue : Seq(Pair)]

\* Which operation of a queue runs for which operation of the map.
Protocol ==
    /\ Idle => call = NoCall /\ job.op = "none"
    /\ ~ Idle /\ job.op = "none" =>
          /\ call.q = Plain /\ call.at # "answered"
          /\ call.op = "insert" => \E pair \in Pair : call.match = {pair}
    /\ job.op # "none" =>
          /\ ~ Idle /\ call.q = find_bucket(job.key)
          /\ job.stage = "look" => call.op = "find" /\ call.match = WithKey(job.key) /\ call.at # "fault"
          /\ job.stage = "change" =>
                \/ job.op = "insert" /\ call.op = "insert" /\ call.match = {[first |-> job.key, second |-> job.val]}
                \/ /\ job.op = "erase" /\ call.op = "erase_item"
                   /\ \E pair \in Pair : pair.first = job.key /\ call.match = {pair}

\* The lists.
Shape(L) ==
    /\ Linked(L, Roots, next, live)
    /\ \A p \in live : value[p] \in Pair
    /\ \A q \in Queues : ~ (Destroying /\ q = call.q) => size[q] = Len(L[q])

\* The buckets are a map.
Buckets(L, val) ==
    /\ \A b \in Bucket : \A i \in 1 .. Len(L[b]) : find_bucket(val[L[b][i]].first) = b
    /\ \A b \in Bucket : \A i, j \in 1 .. Len(L[b]) : val[L[b][i]].first = val[L[b][j]].first => i = j

\* item_count is brought up to date at the end of a call.
Counted(L) ==
    item_count = Cardinality(IF Idle \/ call.at = "answered" THEN Pairs(L, value) ELSE before.map)

Pointer(L) ==
    held.ptr # NULL /\ ~ (job.op = "erase" /\ job.key = held.key) =>
        \E i \in 1 .. Len(L[find_bucket(held.key)]) :
            /\ L[find_bucket(held.key)][i] = held.ptr
            /\ value[held.ptr].first = held.key

\* erase_item() has looked at the first m values of b, kept those of a and erased cnt.
Erased(match, cnt, b, c, k, m) ==
    LET a == KeptOf(match, b)[m] IN
    /\ a \in Seq(Pair) /\ k = Len(a) + 1
    /\ Len(c) = Len(a) + (Len(b) - m)
    /\ \A i \in 1 .. Len(a) : c[i] = a[i]
    /\ \A i \in (m + 1) .. Len(b) : c[(Len(a) + i) - m] = b[i]
    /\ cnt = Cardinality({i \in 1 .. m : b[i] \in match})

\* An operation on the queue is at node k; c are the values.
QueueLoop(c, k) ==
    /\ call.op \in {"insert", "find", "erase_idx", "dequeue", "top"} => c = before.queue
    /\ call.op \in {"dequeue", "top", "destroy"} => k = 1
    /\ call.op = "find" => \A i \in 1 .. (k - 1) : c[i] \notin call.match
    /\ call.op = "erase_idx" => k = n + 1 /\ n <= call.index
    /\ call.op = "erase_item" =>
          \E m \in 0 .. Len(before.queue) : Erased(call.match, n, before.queue, c, k, m)

QueueDone(s) ==
    /\ [s |-> Cont(s, value), ret |-> ret] = Meaning(before.queue)
    /\ call.op = "find" =>
          IF Positions(call.match, before.queue) = {} THEN ret.num = NULL
          ELSE ret.num = s[Min(Positions(call.match, before.queue))]

\* No pair of the map has the key.
Absent == \A pair \in before.map : pair.first # job.key

\* An operation on a bucket is at node k; c are its values, x the pairs of all.
MapLoop(c, x, k) ==
    /\ job.stage = "look" => x = before.map /\ \A i \in 1 .. (k - 1) : c[i].first # job.key
    /\ job.stage = "change" /\ job.op = "insert" => x = before.map /\ Absent
    /\ job.stage = "change" /\ job.op = "erase" =>
          \E pair \in before.map :
              /\ call.match = {pair} /\ pair.first = job.key
              /\ \/ n = 0 /\ x = before.map /\ \A i \in 1 .. (k - 1) : c[i].first # job.key
                 \/ n = 1 /\ x = before.map \ {pair} /\ \A i \in 1 .. Len(c) : c[i].first # job.key

\* It has returned to the map; s are the nodes of the bucket.
MapDone(s, x) ==
    /\ job.stage = "look" =>
          /\ x = before.map
          /\ ret.num = NULL => Absent
          /\ ret.num # NULL => \E i \in 1 .. Len(s) : s[i] = ret.num /\ value[s[i]].first = job.key
    /\ job.stage = "change" /\ job.op = "insert" =>
          /\ Absent
          /\ x = before.map \cup {[first |-> job.key, second |-> job.val]}
    /\ job.stage = "change" /\ job.op = "erase" =>
          \E pair \in before.map :
              /\ pair.first = job.key /\ ret.num = 1 /\ x = before.map \ {pair}
              /\ \A other \in x : other.first # job.key

MapAnswer(x) ==
    LET present == {pair \in before.map : pair.first = job.key} IN
    /\ job.op = "insert" =>
          /\ ret.ok = (present = {})
          /\ x = before.map \cup (IF ret.ok THEN {[first |-> job.key, second |-> job.val]} ELSE {})
    /\ job.op = "erase" => ret.ok = (present # {}) /\ x = before.map \ present
    /\ job.op = "find" => /\ x = before.map
                          /\ IF present = {} THEN ret.num = NULL ELSE {value[ret.num]} = present

Progress(L) ==
    /\ ~ Idle /\ job.op # "none" => Cont(L[Plain], value) = before.queue
    /\ ~ Idle /\ job.op = "none" => Pairs(L, value) = before.map
    /\ ~ Idle /\ call.at = "loop" =>
          \E k \in 1 .. (Len(L[call.q]) + 1) :
              /\ curr = At(L[call.q], k) /\ prev = At(L[call.q], k - 1)
              /\ job.op = "none" => QueueLoop(Cont(L[Plain], value), k)
              /\ job.op # "none" => MapLoop(Cont(L[call.q], value), Pairs(L, value), k)
    /\ ~ Idle /\ call.at = "returned" =>
          /\ job.op = "none" => QueueDone(L[Plain])
          /\ job.op # "none" => MapDone(L[call.q], Pairs(L, value))
    /\ call.at = "answered" => MapAnswer(Pairs(L, value))

Good(L) == Shape(L) /\ Buckets(L, value) /\ Counted(L) /\ Pointer(L) /\ Progress(L)

Inv == TypeInv /\ Protocol /\ \E L : Good(L)

-----------------------------------------------------------------------------
(* The values of the lists.                                                *)

\* The values of a list are a sequence of pairs.
LEMMA ContFacts ==
    ASSUME NEW s \in Seq(Node), NEW val, \A i \in 1 .. Len(s) : val[s[i]] \in Pair
    PROVE  /\ Cont(s, val) \in Seq(Pair) /\ Len(Cont(s, val)) = Len(s) /\ Len(s) \in Nat
           /\ \A i \in 1 .. Len(s) : Cont(s, val)[i] = val[s[i]] /\ Cont(s, val)[i] \in Pair
  <1>1. Len(s) \in Nat
    OBVIOUS
  <1>2. Cont(s, val) \in [1 .. Len(s) -> Pair]
    BY DEF Cont
  <1>3. Cont(s, val) \in Seq(Pair) /\ Len(Cont(s, val)) = Len(s)
    BY <1>1, <1>2
  <1> QED BY <1>1, <1>3 DEF Cont

\* A node less,
LEMMA ContRemove ==
    ASSUME NEW s \in Seq(Node), NEW val, \A i \in 1 .. Len(s) : val[s[i]] \in Pair,
           NEW k \in 1 .. Len(s), NEW val2, \A i \in 1 .. Len(s) : i # k => val2[s[i]] = val[s[i]]
    PROVE  Cont(Removed(s, k), val2) = Removed(Cont(s, val), k)
  <1>1. PICK l \in Nat : l = Len(s)
    OBVIOUS
  <1>2. PICK r : r = Removed(s, k)
    OBVIOUS
  <1>3. PICK c \in Seq(Pair) : c = Cont(s, val) /\ Len(c) = l
    BY <1>1, ContFacts
  <1>4. /\ Len(r) = l - 1
        /\ \A i \in 1 .. (l - 1) : /\ r[i] = IF i < k THEN s[i] ELSE s[i + 1]
                                   /\ i \in 1 .. l /\ i + 1 \in 1 .. l
    BY <1>1, <1>2, RemovedFacts
  <1>5. \A i \in 1 .. l : c[i] = val[s[i]]
    BY <1>1, <1>3, ContFacts
  <1>6. ASSUME NEW i \in 1 .. (l - 1)
        PROVE  val2[r[i]] = IF i < k THEN c[i] ELSE c[i + 1]
    BY <1>1, <1>4, <1>5
  <1>7. Cont(r, val2) = [i \in 1 .. (l - 1) |-> val2[r[i]]]
    BY <1>4 DEF Cont
  <1>8. Removed(c, k) = [i \in 1 .. (l - 1) |-> IF i < k THEN c[i] ELSE c[i + 1]]
    BY <1>3 DEF Removed
  <1>9. Cont(r, val2) = Removed(c, k)
    BY <1>6, <1>7, <1>8
  <1> QED BY <1>2, <1>3, <1>9

\* and one more.
SameValues(s, val, val2) ==
    \A i \in 1 .. Len(s) : val[s[i]] \in Pair /\ val2[s[i]] = val[s[i]]

LEMMA ContAppend ==
    ASSUME NEW s \in Seq(Node), NEW val, NEW val2, SameValues(s, val, val2),
           NEW p \in Node, NEW e, e \in Pair, e = val2[p]
    PROVE  Cont(Append(s, p), val2) = Append(Cont(s, val), e)
  <1> USE DEF SameValues
  <1>1. PICK l \in Nat : l = Len(s)
    OBVIOUS
  <1>2. PICK r : r = Append(s, p)
    OBVIOUS
  <1>3. r \in Seq(Node) /\ Len(r) = l + 1 /\ r[l + 1] = p /\ \A i \in 1 .. l : r[i] = s[i]
    BY <1>1, <1>2
  <1>4. PICK c \in Seq(Pair) : c = Cont(s, val) /\ Len(c) = l
    BY <1>1, ContFacts
  <1>5. \A i \in 1 .. l : c[i] = val[s[i]]
    BY <1>1, <1>4, ContFacts
  <1>6. e = val2[p]
    OBVIOUS
  <1>7. PICK a : a = Append(c, e)
    OBVIOUS
  <1>8. a \in Seq(Pair) /\ Len(a) = l + 1 /\ a[l + 1] = e /\ \A i \in 1 .. l : a[i] = c[i]
    BY <1>4, <1>7
  <1>9. ASSUME NEW i \in 1 .. (l + 1) PROVE val2[r[i]] = a[i]
    <2>1. CASE i = l + 1
      BY <2>1, <1>3, <1>6, <1>8
    <2>2. CASE i # l + 1
      <3>1. i \in 1 .. l
        BY <2>2
      <3> QED BY <3>1, <1>1, <1>3, <1>5, <1>8
    <2> QED BY <2>1, <2>2
  <1>10. Cont(r, val2) = [i \in 1 .. (l + 1) |-> val2[r[i]]]
    BY <1>3 DEF Cont
  <1>11. a = [i \in 1 .. (l + 1) |-> a[i]]
    BY ONLY <1>8
  <1>12. Cont(r, val2) = a
    BY ONLY <1>9, <1>10, <1>11
  <1> QED BY <1>2, <1>4, <1>6, <1>7, <1>12

\* The buckets are lists of their own.
LEMMA BucketQueue == /\ Bucket \subseteq Queues /\ Plain \in Queues /\ Plain \notin Bucket
                     /\ \A q \in Queues : q = Plain \/ q \in Bucket
                     /\ \A key \in Keys : find_bucket(key) \in Bucket
  <1>1. ASSUME NEW key \in Keys PROVE find_bucket(key) \in Bucket
    <2>1. hash_func[key] \in Nat /\ bucket_count \in Nat \ {0}
      BY MapAssumption
    <2>2. PICK h \in Nat : h = hash_func[key]
      BY <2>1
    <2>3. PICK c \in Nat \ {0} : c = bucket_count
      BY <2>1
    <2>4. h % c \in 0 .. (c - 1)
      OBVIOUS
    <2> QED BY <2>2, <2>3, <2>4 DEF find_bucket, Bucket
  <1> QED BY <1>1, MapAssumption

\* A pair is known by its fields.
LEMMA PairIs == /\ \A x, y \in Pair : x.first = y.first /\ x.second = y.second => x = y
                /\ \A x \in Pair : x.first \in Keys /\ x.second \in Vals /\ x # Blank
                /\ \A x \in Pair : Equal(x) = {x}
                /\ \A k \in Keys, v \in Vals : /\ [first |-> k, second |-> v] \in Pair
                                               /\ [first |-> k, second |-> v].first = k
                                               /\ [first |-> k, second |-> v].second = v
  <1>1. \A x, y \in Pair : x.first = y.first /\ x.second = y.second => x = y
    BY DEF Pair
  <1>2. \A x \in Pair : x.first \in Keys /\ x.second \in Vals /\ x # Blank
    BY MapAssumption DEF Pair
  <1>3. \A x \in Pair : Equal(x) = {x}
    BY <1>1 DEF Equal
  <1>4. \A k \in Keys, v \in Vals : [first |-> k, second |-> v] \in Pair
    BY DEF Pair
  <1> QED BY <1>1, <1>2, <1>3, <1>4

\* The pairs of the map are finitely many, and as many as their keys.
LEMMA PairsCount ==
    ASSUME NEW L, NEW val, L \in [Queues -> Seq(Node)], Buckets(L, val)
    PROVE  /\ IsFiniteSet(Pairs(L, val))
           /\ Cardinality(Pairs(L, val)) = Cardinality({x.first : x \in Pairs(L, val)})
  <1> DEFINE P == Pairs(L, val)
             F == [x \in P |-> x.first]
             K == {x.first : x \in P}
  <1>1. ASSUME NEW x \in P PROVE x \in Pair /\ \E b \in Bucket : \E i \in 1 .. Len(L[b]) : val[L[b][i]] = x
    BY DEF Pairs
  <1>2. IsFiniteSet(P)
    <2>1. IsFiniteSet(Node)
      BY QueueAssumption, FS_Interval DEF Node
    <2>2. ASSUME NEW x \in P PROVE \E p \in Node : val[p] = x
      <3>1. PICK b \in Bucket : \E i \in 1 .. Len(L[b]) : val[L[b][i]] = x
        BY <1>1
      <3>2. PICK i \in 1 .. Len(L[b]) : val[L[b][i]] = x
        BY <3>1
      <3>3. L[b] \in Seq(Node)
        BY BucketQueue
      <3>4. L[b][i] \in Node
        BY <3>3
      <3> QED BY <3>2, <3>4
    <2> DEFINE G == [x \in P |-> CHOOSE p \in Node : val[p] = x]
    <2>3. \A x \in P : G[x] \in Node /\ val[G[x]] = x
      <3> HIDE DEF P
      <3> QED BY <2>2
    <2>4. G \in Injection(P, Node)
      <3>1. G \in [P -> Node]
        <4> HIDE DEF P
        <4> QED BY <2>3
      <3> HIDE DEF P, G
      <3> QED BY <2>3, <3>1 DEF Injection, IsInjective
    <2> HIDE DEF P, G
    <2> QED BY <2>1, <2>4, FS_Injection
  <1>3. ASSUME NEW x \in P, NEW y \in P, x.first = y.first PROVE x = y
    <2>1. PICK b \in Bucket : \E i \in 1 .. Len(L[b]) : val[L[b][i]] = x
      BY <1>1
    <2>2. PICK i \in 1 .. Len(L[b]) : val[L[b][i]] = x
      BY <2>1
    <2>3. PICK d \in Bucket : \E j \in 1 .. Len(L[d]) : val[L[d][j]] = y
      BY <1>1
    <2>4. PICK j \in 1 .. Len(L[d]) : val[L[d][j]] = y
      BY <2>3
    <2>5. find_bucket(x.first) = b /\ find_bucket(y.first) = d
      BY <2>2, <2>4 DEF Buckets
    <2>6. b = d
      BY <2>5, <1>3
    <2>7. i = j
      BY <2>2, <2>4, <2>6, <1>3 DEF Buckets
    <2> QED BY <2>2, <2>4, <2>6, <2>7
  <1>4. F \in Bijection(P, K)
    <2> HIDE DEF P
    <2> QED BY <1>3 DEF Bijection, Injection, IsInjective, Surjection
  <1>5. Cardinality(P) = Cardinality(K)
    <2> HIDE DEF P, F, K
    <2> QED BY <1>2, <1>4, FS_Bijection DEF ExistsBijection
  <1> QED BY <1>2, <1>5

\* The value of a pair is written through a pointer.
LEMMA PairsAssigned ==
    ASSUME NEW L, NEW val, NEW val2, L \in [Queues -> Seq(Node)], Buckets(L, val),
           \A b \in Bucket : \A i \in 1 .. Len(L[b]) :
              /\ val[L[b][i]] \in Pair /\ val2[L[b][i]] \in Pair
              /\ val2[L[b][i]].first = val[L[b][i]].first
    PROVE  Buckets(L, val2) /\ Cardinality(Pairs(L, val2)) = Cardinality(Pairs(L, val))
  <1>1. Buckets(L, val2)
    BY DEF Buckets
  <1>2. {x.first : x \in Pairs(L, val2)} = {x.first : x \in Pairs(L, val)}
    <2>1. ASSUME NEW x \in Pairs(L, val2) PROVE \E y \in Pairs(L, val) : y.first = x.first
      BY DEF Pairs
    <2>2. ASSUME NEW x \in Pairs(L, val) PROVE \E y \in Pairs(L, val2) : y.first = x.first
      BY DEF Pairs
    <2> HIDE DEF Pairs
    <2> QED BY <2>1, <2>2
  <1> QED BY <1>1, <1>2, PairsCount

\* All nodes in use hold a pair.
Filled(lv, val) == \A p \in lv : val[p] \in Pair

\* The lists M and the values val2 without the k-th node c of list q.
WithoutNode(L, lv, val, q, k, c, M, val2) ==
    /\ Buckets(M, val2) /\ val2 \in [Node -> Pair \cup {Blank}]
    /\ \A p \in lv \ {c} : val2[p] = val[p]
    /\ Cont(M[q], val2) = Removed(Cont(L[q], val), k)
    /\ \A r \in Queues : r # q => Cont(M[r], val2) = Cont(L[r], val)
    /\ Pairs(M, val2) = IF q = Plain THEN Pairs(L, val) ELSE Pairs(L, val) \ {val[c]}

\* A node and its value go.
LEMMA ValuesRemove ==
    ASSUME NEW L, NEW hd, NEW nx, NEW lv, Linked(L, hd, nx, lv),
           NEW val \in [Node -> Pair \cup {Blank}], Filled(lv, val), Buckets(L, val),
           NEW q \in Queues, NEW k \in 1 .. Len(L[q]), NEW c, c = L[q][k],
           NEW val2, val2 = FreedValues(val, c), NEW M, M = [L EXCEPT ![q] = Removed(L[q], k)]
    PROVE  WithoutNode(L, lv, val, q, k, c, M, val2)
  <1> USE DEF FreedValues, Filled
  <1>1. /\ L \in [Queues -> Seq(Node)] /\ lv \subseteq Node
        /\ \A r, t \in Queues : \A i \in 1 .. Len(L[r]), j \in 1 .. Len(L[t]) :
              L[r][i] = L[t][j] => r = t /\ i = j
    BY DEF Linked
  <1>2. \A r \in Queues : \A i \in 1 .. Len(L[r]) :
           L[r][i] \in Node /\ L[r][i] \in lv /\ val[L[r][i]] \in Pair
    BY LinkedNode
  <1>3. \A p \in lv \ {c} : val2[p] = val[p]
    BY <1>1
  <1>4. val2 \in [Node -> Pair \cup {Blank}]
    OBVIOUS
  <1>5. \A r \in Queues : \A i \in 1 .. Len(L[r]) : ~ (r = q /\ i = k) => val2[L[r][i]] = val[L[r][i]]
    BY <1>1, <1>2, <1>3
  <1>6. M[q] = Removed(L[q], k) /\ \A r \in Queues : r # q => M[r] = L[r]
    BY <1>1
  <1>7. Cont(M[q], val2) = Removed(Cont(L[q], val), k)
    <2>1. PICK s \in Seq(Node) : s = L[q]
      BY <1>1
    <2>2. (\A i \in 1 .. Len(s) : val[s[i]] \in Pair) /\ k \in 1 .. Len(s)
      BY <2>1, <1>2
    <2>3. \A i \in 1 .. Len(s) : i # k => val2[s[i]] = val[s[i]]
      BY <2>1, <1>5
    <2>4. Cont(Removed(s, k), val2) = Removed(Cont(s, val), k)
      BY ONLY <2>1, <2>2, <2>3, ContRemove
    <2> QED BY <2>1, <2>4, <1>6
  <1>8. \A r \in Queues : r # q => Cont(M[r], val2) = Cont(L[r], val)
    BY <1>5, <1>6 DEF Cont
  <1>9. /\ Len(L[q]) \in Nat /\ Len(M[q]) = Len(L[q]) - 1
        /\ \A i \in 1 .. (Len(L[q]) - 1) :
              /\ M[q][i] = L[q][IF i < k THEN i ELSE i + 1]
              /\ i \in 1 .. Len(L[q]) /\ i + 1 \in 1 .. Len(L[q])
    <2>1. PICK s \in Seq(Node) : s = L[q]
      BY <1>1
    <2>2. PICK u \in 1 .. Len(s) : u = k
      BY <2>1
    <2>3. /\ Len(s) \in Nat /\ Len(Removed(s, u)) = Len(s) - 1
          /\ \A i \in 1 .. (Len(s) - 1) :
                /\ Removed(s, u)[i] = IF i < u THEN s[i] ELSE s[i + 1]
                /\ i \in 1 .. Len(s) /\ i + 1 \in 1 .. Len(s)
      BY ONLY RemovedFacts, s \in Seq(Node), u \in 1 .. Len(s)
    <2> QED BY <2>1, <2>2, <2>3, <1>6
  <1> DEFINE Old(r, i) == IF r = q /\ i >= k THEN i + 1 ELSE i
             New(r, j) == IF r = q /\ j > k THEN j - 1 ELSE j
  <1>10. ASSUME NEW r \in Queues, NEW i \in 1 .. Len(M[r])
         PROVE  /\ Old(r, i) \in 1 .. Len(L[r]) /\ M[r][i] = L[r][Old(r, i)] /\ i \in Nat
                /\ val2[M[r][i]] = val[L[r][Old(r, i)]] /\ (r = q => Old(r, i) # k)
    <2>1. CASE r = q
      <3>1. i \in 1 .. (Len(L[q]) - 1)
        BY <2>1, <1>9
      <3>2. PICK j \in 1 .. Len(L[q]) : j = IF i < k THEN i ELSE i + 1
        BY <3>1, <1>9
      <3>3. M[q][i] = L[q][j] /\ j # k /\ j = Old(q, i) /\ i \in Nat
        BY <3>1, <3>2, <1>9
      <3> HIDE DEF Old
      <3> QED BY <2>1, <3>3, <1>5
    <2>2. CASE r # q
      <3>1. Len(L[r]) \in Nat
        BY <1>1
      <3> QED BY <2>2, <3>1, <1>5, <1>6
    <2> QED BY <2>1, <2>2
  <1>11. ASSUME NEW r \in Queues, NEW j \in 1 .. Len(L[r]), ~ (r = q /\ j = k)
         PROVE  New(r, j) \in 1 .. Len(M[r]) /\ val2[M[r][New(r, j)]] = val[L[r][j]]
    <2>1. CASE r = q
      <3>1. j # k /\ j \in Nat /\ k \in Nat
        BY <2>1, <1>9, <1>11
      <3>2. PICK i \in 1 .. (Len(L[q]) - 1) : i = IF j < k THEN j ELSE j - 1
        BY <3>1, <2>1, <1>9
      <3>3. M[q][i] = L[q][j] /\ i \in 1 .. Len(M[q]) /\ i = New(q, j)
        BY <3>1, <3>2, <1>9
      <3> HIDE DEF New
      <3> QED BY <2>1, <3>3, <1>5, <1>11
    <2>2. CASE r # q
      BY <2>2, <1>5, <1>6
    <2> QED BY <2>1, <2>2
  <1>once. \A r : \A i, j \in Nat : Old(r, i) = Old(r, j) => i = j
    BY <1>9
  <1> HIDE DEF Old, New
  <1>12. Buckets(M, val2)
    <2>1. ASSUME NEW b \in Bucket, NEW i \in 1 .. Len(M[b]) PROVE find_bucket(val2[M[b][i]].first) = b
      <3>1. b \in Queues
        BY BucketQueue
      <3>2. Old(b, i) \in 1 .. Len(L[b]) /\ val2[M[b][i]] = val[L[b][Old(b, i)]]
        BY <3>1, <1>10
      <3> QED BY <3>2 DEF Buckets
    <2>2. ASSUME NEW b \in Bucket, NEW i \in 1 .. Len(M[b]), NEW j \in 1 .. Len(M[b]),
                 val2[M[b][i]].first = val2[M[b][j]].first
          PROVE  i = j
      <3>1. b \in Queues
        BY BucketQueue
      <3>2. PICK x \in 1 .. Len(L[b]) : val2[M[b][i]] = val[L[b][x]] /\ x = Old(b, i)
        BY <3>1, <1>10, SMTT(30)
      <3>3. PICK y \in 1 .. Len(L[b]) : val2[M[b][j]] = val[L[b][y]] /\ y = Old(b, j)
        BY <3>1, <1>10, SMTT(30)
      <3>4. x = y
        <4>1. val[L[b][x]].first = val[L[b][y]].first
          BY <3>2, <3>3, <2>2, Zenon
        <4> QED BY <4>1, Zenon DEF Buckets
      <3>5. i \in Nat /\ j \in Nat
        BY <3>1, <1>10
      <3> QED BY <3>2, <3>3, <3>4, <3>5, <1>once
    <2> QED BY <2>1, <2>2 DEF Buckets
  <1>13. ASSUME q = Plain PROVE Pairs(M, val2) = Pairs(L, val)
    <2>1. \A b \in Bucket : M[b] = L[b] /\ \A i \in 1 .. Len(L[b]) : val2[L[b][i]] = val[L[b][i]]
      BY <1>5, <1>6, <1>13, BucketQueue
    <2> QED BY <2>1 DEF Pairs
  <1>14. ASSUME q # Plain PROVE Pairs(M, val2) = Pairs(L, val) \ {val[c]}
    <2>1. q \in Bucket
      BY <1>14, BucketQueue
    <2>2. ASSUME NEW x \in Pairs(M, val2) PROVE x \in Pairs(L, val) /\ x # val[c]
      <3>1. x \in Pair /\ \E b \in Bucket : \E i \in 1 .. Len(M[b]) : val2[M[b][i]] = x
        BY DEF Pairs
      <3>2. PICK b \in Bucket : \E i \in 1 .. Len(M[b]) : val2[M[b][i]] = x
        BY <3>1
      <3>3. PICK i \in 1 .. Len(M[b]) : val2[M[b][i]] = x
        BY <3>2
      <3>4. PICK j \in 1 .. Len(L[b]) : val[L[b][j]] = x /\ (b = q => j # k)
        <4>1. b \in Queues
          BY BucketQueue
        <4>2. /\ Old(b, i) \in 1 .. Len(L[b]) /\ val2[M[b][i]] = val[L[b][Old(b, i)]]
              /\ b = q => Old(b, i) # k
          BY <4>1, <1>10
        <4> QED BY <4>2, <3>3
      <3>5. x # val[c]
        <4>1. SUFFICES ASSUME x = val[c] PROVE FALSE
          OBVIOUS
        <4>2. find_bucket(x.first) = b /\ find_bucket(val[L[q][k]].first) = q
          BY <3>4, <2>1 DEF Buckets
        <4>3. b = q
          BY <4>1, <4>2
        <4>4. j = k
          BY <4>1, <4>3, <3>4, <2>1 DEF Buckets
        <4> QED BY <4>3, <4>4, <3>4
      <3> QED BY <3>1, <3>4, <3>5 DEF Pairs
    <2>3. ASSUME NEW x \in Pairs(L, val), x # val[c] PROVE x \in Pairs(M, val2)
      <3>1. x \in Pair /\ \E b \in Bucket : \E j \in 1 .. Len(L[b]) : val[L[b][j]] = x
        BY DEF Pairs
      <3>2. PICK b \in Bucket : \E j \in 1 .. Len(L[b]) : val[L[b][j]] = x
        BY <3>1
      <3>3. PICK j \in 1 .. Len(L[b]) : val[L[b][j]] = x
        BY <3>2
      <3>4. PICK i \in 1 .. Len(M[b]) : val2[M[b][i]] = x
        <4>1. b \in Queues /\ ~ (b = q /\ j = k)
          BY <3>3, <2>3, BucketQueue
        <4> QED BY <4>1, <3>3, <1>11, ZenonT(60)
      <3> QED BY <3>1, <3>4 DEF Pairs
    <2> QED BY <2>2, <2>3
  <1> QED BY <1>3, <1>4, <1>7, <1>8, <1>12, <1>13, <1>14 DEF WithoutNode

\* A pair may be put into bucket q, or into the queue.
Fits(L, val, q, e) ==
    q # Plain => find_bucket(e.first) = q /\ \A i \in 1 .. Len(L[q]) : val[L[q][i]].first # e.first

\* The lists M and the values val2 with node p and its value e behind list q.
WithNode(L, lv, val, q, p, e, M, val2) ==
    /\ Buckets(M, val2) /\ val2 \in [Node -> Pair \cup {Blank}]
    /\ \A x \in lv \cup {p} : val2[x] \in Pair /\ (x # p => val2[x] = val[x])
    /\ Cont(M[q], val2) = Append(Cont(L[q], val), e)
    /\ \A r \in Queues : r # q => Cont(M[r], val2) = Cont(L[r], val)
    /\ Pairs(M, val2) = IF q = Plain THEN Pairs(L, val) ELSE Pairs(L, val) \cup {e}

\* A node comes, with its value.
LEMMA ValuesInsert ==
    ASSUME NEW L, NEW hd, NEW nx, NEW lv, Linked(L, hd, nx, lv),
           NEW val \in [Node -> Pair \cup {Blank}], Filled(lv, val), Buckets(L, val),
           NEW q \in Queues, NEW p \in Node, p \notin lv, NEW e \in Pair,
           Fits(L, val, q, e), NEW val2, val2 = [val EXCEPT ![p] = e],
           NEW M, M = [L EXCEPT ![q] = Append(L[q], p)]
    PROVE  WithNode(L, lv, val, q, p, e, M, val2)
  <1> USE DEF Filled, Fits
  <1>1. /\ L \in [Queues -> Seq(Node)] /\ lv \subseteq Node
    BY DEF Linked
  <1>2. \A r \in Queues : \A i \in 1 .. Len(L[r]) :
           L[r][i] \in Node /\ L[r][i] # p /\ val[L[r][i]] \in Pair
    BY LinkedNode
  <1>3. /\ val2[p] = e /\ val2 \in [Node -> Pair \cup {Blank}]
        /\ \A x \in lv \cup {p} : val2[x] \in Pair /\ (x # p => val2[x] = val[x])
    BY <1>1
  <1>4. \A r \in Queues : \A i \in 1 .. Len(L[r]) : val2[L[r][i]] = val[L[r][i]]
    BY <1>2
  <1>5. M[q] = Append(L[q], p) /\ \A r \in Queues : r # q => M[r] = L[r]
    BY <1>1
  <1>6. PICK s \in Seq(Node) : s = L[q]
    BY <1>1
  <1>7. PICK l \in Nat : l = Len(s)
    OBVIOUS
  <1>8. Cont(M[q], val2) = Append(Cont(L[q], val), e)
    <2>1. SameValues(s, val, val2)
      BY <1>2, <1>4, <1>6 DEF SameValues
    <2>2. Cont(Append(s, p), val2) = Append(Cont(s, val), e)
      <3>1. e = val2[p] /\ s \in Seq(Node) /\ p \in Node /\ e \in Pair
        BY <1>3
      <3> QED BY ONLY <2>1, <3>1, ContAppend
    <2> QED BY <2>2, <1>3, <1>5, <1>6
  <1>9. \A r \in Queues : r # q => Cont(M[r], val2) = Cont(L[r], val)
    BY <1>4, <1>5 DEF Cont
  <1>10. Len(M[q]) = l + 1 /\ M[q][l + 1] = p /\ \A i \in 1 .. l : M[q][i] = L[q][i]
    BY <1>5, <1>6, <1>7
  <1>11. CASE q = Plain
    <2>1. \A b \in Bucket : M[b] = L[b] /\ \A i \in 1 .. Len(L[b]) : val2[L[b][i]] = val[L[b][i]]
      BY <1>4, <1>5, <1>11, BucketQueue
    <2>2. Pairs(M, val2) = Pairs(L, val)
      BY ONLY <2>1 DEF Pairs
    <2>3. Buckets(M, val2)
      BY ONLY <2>1, Buckets(L, val), SMTT(30) DEF Buckets
    <2> QED BY <2>2, <2>3, <1>3, <1>8, <1>9, <1>11 DEF WithNode
  <1>12. CASE q # Plain
    <2>1. q \in Bucket /\ find_bucket(e.first) = q /\ \A i \in 1 .. l : val[L[q][i]].first # e.first
      BY <1>6, <1>7, <1>12, BucketQueue
    <2>2. ASSUME NEW b \in Bucket, NEW i \in 1 .. Len(M[b])
          PROVE  \/ b = q /\ i = l + 1 /\ val2[M[b][i]] = e
                 \/ i \in 1 .. Len(L[b]) /\ val2[M[b][i]] = val[L[b][i]]
      <3>1. b \in Queues
        BY BucketQueue
      <3>2. CASE b = q
        <4>1. CASE i = l + 1
          BY <3>2, <4>1, <1>3, <1>10
        <4>2. CASE i # l + 1
          <5>1. i \in 1 .. l
            BY <3>2, <4>2, <1>10
          <5> QED BY <3>2, <5>1, <1>4, <1>6, <1>7, <1>10
        <4> QED BY <4>1, <4>2
      <3>3. CASE b # q
        BY <3>1, <3>3, <1>4, <1>5
      <3> QED BY <3>2, <3>3
    <2>3. ASSUME NEW b \in Bucket, NEW i \in 1 .. Len(L[b])
          PROVE  i \in 1 .. Len(M[b]) /\ val2[M[b][i]] = val[L[b][i]]
      <3>1. b \in Queues
        BY BucketQueue
      <3>2. CASE b = q
        BY <3>2, <1>4, <1>6, <1>7, <1>10
      <3>3. CASE b # q
        BY <3>1, <3>3, <1>4, <1>5
      <3> QED BY <3>2, <3>3
    <2>4. Pairs(M, val2) = Pairs(L, val) \cup {e}
      <3>1. ASSUME NEW x \in Pairs(M, val2) PROVE x \in Pairs(L, val) \cup {e}
        <4>1. x \in Pair /\ \E b \in Bucket : \E i \in 1 .. Len(M[b]) : val2[M[b][i]] = x
          BY DEF Pairs
        <4>2. PICK b \in Bucket : \E i \in 1 .. Len(M[b]) : val2[M[b][i]] = x
          BY <4>1
        <4>3. PICK i \in 1 .. Len(M[b]) : val2[M[b][i]] = x
          BY <4>2
        <4>4. x = e \/ (i \in 1 .. Len(L[b]) /\ val[L[b][i]] = x)
          BY <4>3, <2>2
        <4> QED BY <4>1, <4>4 DEF Pairs
      <3>2. ASSUME NEW x \in Pairs(L, val) PROVE x \in Pairs(M, val2)
        <4>1. x \in Pair /\ \E b \in Bucket : \E i \in 1 .. Len(L[b]) : val[L[b][i]] = x
          BY DEF Pairs
        <4>2. PICK b \in Bucket : \E i \in 1 .. Len(L[b]) : val[L[b][i]] = x
          BY <4>1
        <4>3. PICK i \in 1 .. Len(L[b]) : val[L[b][i]] = x
          BY <4>2
        <4>4. i \in 1 .. Len(M[b]) /\ val2[M[b][i]] = x
          BY <4>3, <2>3
        <4> QED BY <4>1, <4>4 DEF Pairs
      <3>3. e \in Pairs(M, val2)
        <4>1. l + 1 \in 1 .. Len(M[q]) /\ val2[M[q][l + 1]] = e
          BY <1>3, <1>10
        <4> QED BY <2>1, <4>1 DEF Pairs
      <3> QED BY <3>1, <3>2, <3>3
    <2>5. Buckets(M, val2)
      <3>1. ASSUME NEW b \in Bucket, NEW i \in 1 .. Len(M[b]) PROVE find_bucket(val2[M[b][i]].first) = b
        BY <2>1, <2>2 DEF Buckets
      <3>2. ASSUME NEW b \in Bucket, NEW i \in 1 .. Len(M[b]), NEW j \in 1 .. Len(M[b]),
                   val2[M[b][i]].first = val2[M[b][j]].first
            PROVE  i = j
        <4>1. \/ b = q /\ i = l + 1 /\ val2[M[b][i]] = e
              \/ i \in 1 .. Len(L[b]) /\ val2[M[b][i]] = val[L[b][i]]
          BY <2>2
        <4>2. \/ b = q /\ j = l + 1 /\ val2[M[b][j]] = e
              \/ j \in 1 .. Len(L[b]) /\ val2[M[b][j]] = val[L[b][j]]
          BY <2>2
        <4>3. b = q => \A x \in 1 .. Len(L[b]) : val[L[b][x]].first # e.first
          BY <2>1, <1>6, <1>7
        <4> QED BY <4>1, <4>2, <4>3, <3>2 DEF Buckets
      <3> QED BY <3>1, <3>2 DEF Buckets
    <2> QED BY <2>4, <2>5, <1>3, <1>8, <1>9, <1>12 DEF WithNode
  <1> QED BY <1>11, <1>12

-----------------------------------------------------------------------------
(* What the model says of these lists.                                     *)

\* Its lists, contents and pairs.
LEMMA ModelLists ==
    ASSUME NEW L, Linked(L, Roots, next, live)
    PROVE  /\ \A q \in Queues : ~ (Destroying /\ q = call.q) =>
                 Nodes(q) = L[q] /\ Contents(q) = Cont(L[q], value)
           /\ (\A p \in live : value[p] \in Pair) /\ ~ (Destroying /\ call.q \in Bucket) =>
                 MapContents = Pairs(L, value)
  <1>1. ASSUME NEW q \in Queues, ~ (Destroying /\ q = call.q)
        PROVE  Nodes(q) = L[q] /\ Contents(q) = Cont(L[q], value)
    <2>1. Roots[q] = head[q]
      BY <1>1 DEF Roots
    <2>2. NodesOf(Roots[q], next) = L[q]
      BY LinkedIs
    <2>3. Nodes(q) = L[q]
      BY <2>1, <2>2, NodesAre
    <2> QED BY <2>3, Zenon DEF Contents, Cont
  <1>2. ASSUME \A p \in live : value[p] \in Pair, ~ (Destroying /\ call.q \in Bucket)
        PROVE  MapContents = Pairs(L, value)
    <2>1. \A b \in Bucket : Contents(b) = Cont(L[b], value)
      BY <1>1, <1>2, BucketQueue
    <2>2. L \in [Queues -> Seq(Node)]
      BY DEF Linked
    <2>3. \A b \in Bucket : DOMAIN Cont(L[b], value) = 1 .. Len(L[b])
               /\ \A i \in 1 .. Len(L[b]) : Cont(L[b], value)[i] = value[L[b][i]] /\ value[L[b][i]] \in Pair
      <3>1. \A b \in Bucket : \A i \in 1 .. Len(L[b]) : L[b][i] \in live
        BY LinkedNode, BucketQueue
      <3> QED BY <3>1, <1>2 DEF Cont
    <2>4. MapContents = UNION {Range(Cont(L[b], value)) : b \in Bucket}
      BY <2>1 DEF MapContents
    <2> HIDE DEF Cont
    <2>5. ASSUME NEW x \in MapContents PROVE x \in Pairs(L, value)
      <3>1. PICK b \in Bucket : x \in Range(Cont(L[b], value))
        BY <2>4
      <3>2. PICK i \in 1 .. Len(L[b]) : x = Cont(L[b], value)[i]
        BY <3>1, <2>3 DEF Range
      <3> QED BY <3>2, <2>3 DEF Pairs
    <2>6. ASSUME NEW x \in Pairs(L, value) PROVE x \in MapContents
      <3>1. PICK b \in Bucket : \E i \in 1 .. Len(L[b]) : value[L[b][i]] = x
        BY DEF Pairs
      <3>2. PICK i \in 1 .. Len(L[b]) : value[L[b][i]] = x
        BY <3>1
      <3>3. x \in Range(Cont(L[b], value))
        BY <3>2, <2>3 DEF Range
      <3> QED BY <3>3, <2>4
    <2> QED BY <2>5, <2>6
  <1> QED BY <1>1, <1>2

\* The invariant is strong enough.
LEMMA InvImplies == Inv => ListsConsistent /\ CallsCorrect /\ PointerStays
  <1> SUFFICES ASSUME Inv PROVE ListsConsistent /\ CallsCorrect /\ PointerStays
    OBVIOUS
  <1>1. PICK L : Good(L)
    BY DEF Inv
  <1>2. TypeInv /\ Protocol /\ Shape(L) /\ Buckets(L, value) /\ Counted(L) /\ Pointer(L) /\ Progress(L)
    BY <1>1 DEF Inv, Good
  <1>3. L \in [Queues -> Seq(Node)] /\ Linked(L, Roots, next, live)
    BY <1>2 DEF Shape, Linked
  <1>4. Destroying => call.q = Plain /\ job.op = "none"
    BY <1>2 DEF Destroying, Protocol, Idle, TypeInv
  <1>5. \A q \in Queues : ~ (Destroying /\ q = call.q) => Nodes(q) = L[q] /\ Contents(q) = Cont(L[q], value)
    BY <1>3, ModelLists, Zenon
  <1>6. \A b \in Bucket : b \in Queues /\ Nodes(b) = L[b] /\ Contents(b) = Cont(L[b], value)
    BY <1>4, <1>5, BucketQueue
  <1>7. MapContents = Pairs(L, value)
    <2>1. (\A p \in live : value[p] \in Pair) /\ ~ (Destroying /\ call.q \in Bucket)
      BY <1>2, <1>4, BucketQueue DEF Shape
    <2> QED BY <2>1, <1>3, ModelLists, Zenon
  <1>8. \A q \in Queues : L[q] \in Seq(Node) /\ DOMAIN L[q] = 1 .. Len(L[q]) /\ Len(L[q]) \in Nat
    BY <1>3
  <1>9. NodesAccounted
    <2> SUFFICES ASSUME call.op # "destroy" PROVE NodesAccounted
      BY DEF NodesAccounted
    <2>1. \A q \in Queues : Nodes(q) = L[q] /\ size[q] = Len(L[q])
      BY <1>2, <1>5 DEF Destroying, Shape
    <2>2. live = UNION {Range(Nodes(q)) : q \in Queues}
      <3>1. live = {p \in Node : \E q \in Queues : \E i \in 1 .. Len(L[q]) : L[q][i] = p}
        BY <1>3 DEF Linked
      <3>2. \A q \in Queues : \A i \in 1 .. Len(L[q]) : L[q][i] \in Node
        BY <1>8
      <3>3. \A q \in Queues : Range(Nodes(q)) = {L[q][i] : i \in 1 .. Len(L[q])}
        BY <2>1, <1>8 DEF Range
      <3>4. UNION {Range(Nodes(q)) : q \in Queues} = UNION {{L[q][i] : i \in 1 .. Len(L[q])} : q \in Queues}
        BY <3>3
      <3> QED BY <3>1, <3>2, <3>4
    <2>3. \A q, r \in Queues : \A i \in DOMAIN Nodes(q), j \in DOMAIN Nodes(r) :
             Nodes(q)[i] = Nodes(r)[j] => q = r /\ i = j
      <3>1. \A q, r \in Queues : \A i \in 1 .. Len(L[q]), j \in 1 .. Len(L[r]) :
               L[q][i] = L[r][j] => q = r /\ i = j
        BY <1>3 DEF Linked
      <3> QED BY <3>1, <2>1, <1>8
    <2> QED BY <2>1, <2>2, <2>3 DEF NodesAccounted
  <1>10. BucketsAreMap
    <2>1. \A b \in Bucket : \A p \in Range(Nodes(b)) : find_bucket(value[p].first) = b
      <3>1. ASSUME NEW b \in Bucket, NEW p \in Range(Nodes(b)) PROVE find_bucket(value[p].first) = b
        <4>1. PICK i \in 1 .. Len(L[b]) : p = L[b][i]
          BY <1>6, <1>8 DEF Range
        <4> QED BY <4>1, <1>2 DEF Buckets
      <3> QED BY <3>1
    <2>2. \A b \in Bucket : \A i, j \in 1 .. Len(Nodes(b)) :
             i # j => Contents(b)[i].first # Contents(b)[j].first
      <3>1. ASSUME NEW b \in Bucket, NEW i \in 1 .. Len(L[b]), NEW j \in 1 .. Len(L[b]), i # j
            PROVE  Cont(L[b], value)[i].first # Cont(L[b], value)[j].first
        <4>1. Cont(L[b], value)[i] = value[L[b][i]] /\ Cont(L[b], value)[j] = value[L[b][j]]
          BY DEF Cont
        <4> QED BY <4>1, <3>1, <1>2 DEF Buckets
      <3> QED BY <3>1, <1>6
    <2>3. Idle => item_count = Cardinality(MapContents)
      BY <1>2, <1>7 DEF Counted
    <2> QED BY <2>1, <2>2, <2>3 DEF BucketsAreMap
  <1>11. QueueCallsCorrect
    <2> SUFFICES ASSUME call.at = "returned", call.q = Plain PROVE QueueCallsCorrect
      BY DEF QueueCallsCorrect
    <2>1. ~ Idle /\ ~ Destroying /\ job.op = "none"
      <3>1. ~ Idle
        BY <1>2 DEF Protocol, NoCall
      <3>2. job.op = "none"
        BY <1>2, BucketQueue DEF Protocol, TypeInv
      <3> QED BY <3>1, <3>2 DEF Destroying
    <2>2. Nodes(Plain) = L[Plain] /\ Contents(Plain) = Cont(L[Plain], value)
      BY <2>1, <1>5, BucketQueue
    <2>3. Pairs(L, value) = before.map /\ QueueDone(L[Plain])
      BY <2>1, <1>2 DEF Progress
    <2> QED BY <2>2, <2>3, <1>7 DEF QueueCallsCorrect, QueueDone
  <1>12. MapCallsCorrect
    <2> SUFFICES ASSUME call.at = "answered" PROVE MapCallsCorrect
      BY DEF MapCallsCorrect
    <2>1. ~ Idle /\ ~ Destroying /\ job.op # "none"
      <3>1. ~ Idle
        BY <1>2 DEF Protocol, NoCall
      <3>2. job.op # "none"
        BY <3>1, <1>2 DEF Protocol
      <3> QED BY <3>1, <3>2 DEF Destroying
    <2>2. Contents(Plain) = Cont(L[Plain], value)
      BY <2>1, <1>5, BucketQueue
    <2>3. Cont(L[Plain], value) = before.queue /\ MapAnswer(Pairs(L, value))
      BY <2>1, <1>2 DEF Progress
    <2> QED BY <2>2, <2>3, <1>7 DEF MapCallsCorrect, MapAnswer
  <1>13. PointerStays
    <2> SUFFICES ASSUME held.ptr # NULL, ~ (job.op = "erase" /\ job.key = held.key)
                 PROVE  /\ held.ptr \in Range(Nodes(find_bucket(held.key)))
                        /\ value[held.ptr].first = held.key
      BY DEF PointerStays
    <2>1. find_bucket(held.key) \in Bucket
      BY <1>2, BucketQueue DEF TypeInv
    <2>2. PICK b \in Bucket : b = find_bucket(held.key)
      BY <2>1
    <2>3. PICK i \in 1 .. Len(L[b]) : L[b][i] = held.ptr /\ value[held.ptr].first = held.key
      BY <2>2, <1>2 DEF Pointer
    <2> QED BY <2>2, <2>3, <1>6, <1>8 DEF Range
  <1> QED BY <1>2, <1>9, <1>10, <1>11, <1>12, <1>13 DEF ListsConsistent, CallsCorrect, TypeInv

-----------------------------------------------------------------------------
(* It holds at the start.                                                  *)

LEMMA InitInv == Init => Inv
  <1> SUFFICES ASSUME Init PROVE Inv
    OBVIOUS
  <1> USE DEF Init, QueueInit
  <1> DEFINE L == [q \in Queues |-> <<>>]
  <1>1. NoCall.op = "none" /\ NoCall.at = "loop" /\ NoCall.q \in Queues
    BY BucketQueue DEF NoCall
  <1>2. job.op = "none" /\ job.key \in Keys /\ job.val \in Vals /\ held.ptr = NULL /\ held.key \in Keys
    BY MapAssumption DEF NoJob, Nobody
  <1>3. TypeInv
    <2>1. TypeOK
      BY MapAssumption, QueueAssumption DEF TypeOK, Node, NULL, Garbage
    <2>2. NoCall \in [op : Ops \cup {"none"}, q : Queues, match : SUBSET Pair, index : Nat,
                      at : {"loop", "returned", "answered", "fault"}]
      BY <1>1 DEF NoCall
    <2>3. Nothing \in [ok : BOOLEAN, num : Nat, val : Pair \cup {Blank}]
      BY DEF Nothing, NULL
    <2>4. NoJob \in [op : {"none", "insert", "find", "erase"}, stage : {"look", "change"},
                     key : Keys, val : Vals]
      BY <1>2 DEF NoJob
    <2>5. Nobody \in [key : Keys, ptr : Node \cup {NULL}]
      BY <1>2 DEF Nobody
    <2>6. NoHistory \in [map : SUBSET Pair, queue : Seq(Pair)]
      BY DEF NoHistory
    <2> QED BY <2>1, <2>2, <2>3, <2>4, <2>5, <2>6 DEF TypeInv
  <1>4. Protocol
    BY <1>1, <1>2 DEF Protocol, Idle
  <1>5. ~ Destroying /\ Idle /\ call.at # "answered"
    BY <1>1 DEF Destroying, Idle
  <1>6. L \in [Queues -> Seq(Node)] /\ \A q \in Queues : L[q] = <<>> /\ Len(L[q]) = 0 /\ Roots[q] = NULL
    BY <1>5 DEF Roots
  <1>7. \A q \in Queues : \A i \in 1 .. Len(L[q]) : FALSE
    BY <1>6
  <1> HIDE DEF L
  <1>8. Shape(L)
    <2>1. Linked(L, Roots, next, live)
      BY <1>6, <1>7 DEF Linked, IsList, At
    <2> QED BY <2>1, <1>6 DEF Shape
  <1>9. Pairs(L, value) = {} /\ Buckets(L, value)
    BY <1>7, BucketQueue DEF Pairs, Buckets
  <1>10. Counted(L)
    BY <1>5, <1>9, FS_EmptySet DEF Counted
  <1>11. Pointer(L) /\ Progress(L)
    BY <1>2, <1>5 DEF Pointer, Progress
  <1> QED BY <1>3, <1>4, <1>8, <1>9, <1>10, <1>11 DEF Inv, Good

-----------------------------------------------------------------------------
(* Steps that leave the lists alone.                                       *)

\* The lists are what they were, also when a destructor starts.
LEMMA KeepLists ==
    ASSUME NEW L, TypeInv, Shape(L), Buckets(L, value), UNCHANGED <<heap, objects>>, ~ Destroying,
           Destroying' => curr' = head[call'.q]
    PROVE  /\ Shape(L)' /\ Buckets(L, value)' /\ Pairs(L, value)' = Pairs(L, value)
           /\ \A q \in Queues : Cont(L[q], value)' = Cont(L[q], value)
  <1>1. UNCHANGED <<next, value, live, head, size>>
    BY DEF heap, objects
  <1>2. Roots = head
    <2>1. head = [q \in Queues |-> head[q]]
      BY DEF TypeInv, TypeOK
    <2> QED BY <2>1 DEF Roots
  <1>3. Roots' = head
    <2>1. head = [q \in Queues |-> head[q]]
      BY DEF TypeInv, TypeOK
    <2> QED BY <2>1, <1>1 DEF Roots
  <1>4. Linked(L, Roots', next', live')
    BY <1>1, <1>2, <1>3 DEF Shape
  <1>5. Linked(L, Roots, next, live)'
    BY <1>4 DEF Linked, IsList
  <1>6. Shape(L)'
    BY <1>1, <1>5 DEF Shape
  <1>7. Buckets(L, value)'
    BY <1>1 DEF Buckets
  <1> QED BY <1>1, <1>6, <1>7 DEF Pairs, Cont

\* The node at which a loop is.
LEMMA AtNode ==
    ASSUME NEW L, Shape(L), NEW q \in Queues, NEW k \in 1 .. (Len(L[q]) + 1),
           NEW c, c = At(L[q], k)
    PROVE  /\ L[q] \in Seq(Node) /\ Len(L[q]) \in Nat /\ k \in Nat
           /\ Cont(L[q], value) \in Seq(Pair) /\ Len(Cont(L[q], value)) = Len(L[q])
           /\ \A i \in 1 .. Len(L[q]) : /\ Cont(L[q], value)[i] = value[L[q][i]]
                                        /\ Cont(L[q], value)[i] \in Pair /\ L[q][i] \in live
           /\ c = NULL <=> k = Len(L[q]) + 1
           /\ c # NULL => /\ k \in 1 .. Len(L[q]) /\ k + 1 \in 1 .. (Len(L[q]) + 1)
                          /\ c = L[q][k] /\ c \in live /\ c \in Node
                          /\ value[c] = Cont(L[q], value)[k] /\ value[c] \in Pair
                          /\ next[c] = At(L[q], k + 1) /\ c = At(L[q], (k + 1) - 1)
           /\ At(L[q], k) \in Node \cup {NULL}
           /\ At(L[q], k - 1) \in Node \cup {NULL} /\ At(L[q], k + 1) \in Node \cup {NULL}
  <1>1. Linked(L, Roots, next, live) /\ \A p \in live : value[p] \in Pair
    BY DEF Shape
  <1>2. L \in [Queues -> Seq(Node)] /\ IsList(L[q], Roots[q], next)
    BY <1>1 DEF Linked
  <1>3. PICK s \in Seq(Node) : s = L[q]
    BY <1>2
  <1>4. PICK l \in Nat : l = Len(s)
    OBVIOUS
  <1>5. \A i \in 1 .. l : s[i] \in Node /\ s[i] \in live /\ s[i] # NULL /\ value[s[i]] \in Pair
    <2>1. \A i \in 1 .. Len(L[q]) : L[q][i] \in Node /\ L[q][i] \in live /\ L[q][i] # NULL
      BY <1>1, LinkedNode
    <2> QED BY <2>1, <1>1, <1>3, <1>4
  <1>6. /\ Cont(s, value) \in Seq(Pair) /\ Len(Cont(s, value)) = l
        /\ \A i \in 1 .. l : Cont(s, value)[i] = value[s[i]] /\ Cont(s, value)[i] \in Pair
    BY <1>4, <1>5, ContFacts
  <1>7. k \in 1 .. (l + 1) /\ c = At(s, k) /\ k \in Nat
    BY <1>3, <1>4
  <1>8. c = NULL <=> k = l + 1
    BY <1>4, <1>5, <1>7 DEF At
  <1>9. ASSUME c # NULL
        PROVE  /\ k \in 1 .. l /\ k + 1 \in 1 .. (l + 1) /\ c = s[k] /\ c \in live /\ c \in Node
               /\ value[c] = Cont(s, value)[k] /\ value[c] \in Pair
               /\ next[c] = At(s, k + 1) /\ c = At(s, (k + 1) - 1)
    <2>1. k \in 1 .. l /\ k + 1 \in 1 .. (l + 1) /\ (k + 1) - 1 = k
      BY <1>7, <1>8, <1>9
    <2>2. c = s[k]
      BY <2>1, <1>4, <1>7 DEF At
    <2>3. next[s[k]] = At(s, k + 1)
      BY <2>1, <1>2, <1>3, <1>4 DEF IsList
    <2> QED BY <2>1, <2>2, <2>3, <1>5, <1>6, <1>7
  <1>10. \A i \in Int : At(s, i) \in Node \cup {NULL}
    BY <1>4, <1>5 DEF At
  <1>11. At(s, k) \in Node \cup {NULL} /\ At(s, k - 1) \in Node \cup {NULL} /\ At(s, k + 1) \in Node \cup {NULL}
    BY <1>7, <1>10
  <1> QED BY <1>3, <1>4, <1>5, <1>6, <1>7, <1>8, <1>9, <1>11

\* A step of a queue operation that only reads.
Reads(a) ==
    /\ ~ Idle /\ call.at = "loop" /\ call.op # "destroy"
    /\ call' = [call EXCEPT !.at = a] /\ (a = "fault" => call.op = "insert")
    /\ UNCHANGED <<heap, objects, item_count, job, held, before>>
    /\ curr' \in Node \cup {NULL} /\ prev' \in Node \cup {NULL} /\ n' \in Nat
    /\ ret' \in [ok : BOOLEAN, num : Nat, val : Pair \cup {Blank}]

\* Everything but the progress of the call is as it was.
LEMMA ReadsKeep ==
    ASSUME NEW L, TypeInv, Protocol, Good(L), NEW a \in {"loop", "returned", "fault"}, Reads(a)
    PROVE  /\ TypeInv' /\ Protocol'
           /\ Shape(L)' /\ Buckets(L, value)' /\ Counted(L)' /\ Pointer(L)'
           /\ ~ Idle' /\ call'.op = call.op /\ call'.q = call.q /\ call'.match = call.match
           /\ call'.index = call.index /\ call'.at = a /\ before' = before /\ job' = job /\ value' = value
           /\ Pairs(L, value)' = Pairs(L, value)
           /\ \A q \in Queues : Cont(L[q], value)' = Cont(L[q], value)
           /\ ~ Idle' /\ job'.op # "none" => Cont(L[Plain], value)' = before'.queue
           /\ ~ Idle' /\ job'.op = "none" => Pairs(L, value)' = before'.map
  <1>1. /\ call \in [op : Ops \cup {"none"}, q : Queues, match : SUBSET Pair, index : Nat,
                     at : {"loop", "returned", "answered", "fault"}]
        /\ call' = [call EXCEPT !.at = a] /\ UNCHANGED <<item_count, job, held, before>>
        /\ ~ Idle /\ call.at = "loop" /\ call.op # "destroy"
    BY DEF TypeInv, Reads
  <1>2. /\ call'.op = call.op /\ call'.q = call.q /\ call'.match = call.match
        /\ call'.index = call.index /\ call'.at = a
        /\ call' \in [op : Ops \cup {"none"}, q : Queues, match : SUBSET Pair, index : Nat,
                      at : {"loop", "returned", "answered", "fault"}]
    BY <1>1
  <1>3. ~ Idle' /\ ~ Destroying /\ ~ Destroying'
    BY <1>1, <1>2 DEF Idle, Destroying
  <1>4. UNCHANGED <<next, value, live, head, size>>
    BY DEF Reads, heap, objects
  <1>5. TypeInv'
    <2>1. TypeOK'
      BY <1>1, <1>4 DEF TypeInv, TypeOK, Reads
    <2> QED BY <2>1, <1>1, <1>2 DEF TypeInv, Reads
  <1>6. Protocol'
    <2>1. Idle' => call' = NoCall' /\ job'.op = "none"
      BY <1>3
    <2>2. ~ Idle' /\ job'.op = "none" =>
             /\ call'.q = Plain /\ call'.at # "answered"
             /\ call'.op = "insert" => \E pair \in Pair : call'.match = {pair}
      BY <1>1, <1>2 DEF Protocol
    <2>3. job'.op # "none" =>
          /\ ~ Idle' /\ call'.q = find_bucket(job'.key)
          /\ job'.stage = "look" => call'.op = "find" /\ call'.match = WithKey(job'.key) /\ call'.at # "fault"
          /\ job'.stage = "change" =>
                \/ job'.op = "insert" /\ call'.op = "insert" /\ call'.match = {[first |-> job'.key, second |-> job'.val]}
                \/ /\ job'.op = "erase" /\ call'.op = "erase_item"
                   /\ \E pair \in Pair : pair.first = job'.key /\ call'.match = {pair}
      BY <1>1, <1>2, <1>3 DEF Protocol, Reads
    <2> QED BY <2>1, <2>2, <2>3 DEF Protocol, find_bucket, WithKey
  <1>7. /\ Shape(L)' /\ Buckets(L, value)' /\ Pairs(L, value)' = Pairs(L, value)
        /\ \A q \in Queues : Cont(L[q], value)' = Cont(L[q], value)
    BY <1>3, KeepLists DEF Good, Reads
  <1>8. Counted(L)'
    BY <1>1, <1>2, <1>3, <1>7 DEF Good, Counted
  <1>9. Pointer(L)'
    BY <1>1, <1>4 DEF Good, Pointer
  <1>10. /\ job.op # "none" => Cont(L[Plain], value) = before.queue
         /\ job.op = "none" => Pairs(L, value) = before.map
    BY <1>1 DEF Good, Progress
  <1> QED BY <1>1, <1>2, <1>3, <1>4, <1>5, <1>6, <1>7, <1>8, <1>9, <1>10, BucketQueue

\* The place of a call in its loop.
LEMMA InLoop ==
    ASSUME NEW L, TypeInv, Protocol, Good(L), ~ Idle, call.at = "loop"
    PROVE  \E k \in 1 .. (Len(L[call.q]) + 1) :
              /\ curr = At(L[call.q], k) /\ prev = At(L[call.q], k - 1)
              /\ job.op = "none" => call.q = Plain /\ QueueLoop(Cont(L[call.q], value), k)
              /\ job.op # "none" => call.q # Plain /\ MapLoop(Cont(L[call.q], value), Pairs(L, value), k)
  <1>1. PICK k \in 1 .. (Len(L[call.q]) + 1) :
              /\ curr = At(L[call.q], k) /\ prev = At(L[call.q], k - 1)
              /\ job.op = "none" => QueueLoop(Cont(L[Plain], value), k)
              /\ job.op # "none" => MapLoop(Cont(L[call.q], value), Pairs(L, value), k)
    BY DEF Good, Progress
  <1>2. job.op = "none" => call.q = Plain
    BY DEF Protocol
  <1>3. job.op # "none" => call.q # Plain
    BY BucketQueue DEF Protocol, TypeInv
  <1> QED BY <1>1, <1>2, <1>3

\* A loop goes on to the next node.
LEMMA GoesOn ==
    ASSUME NEW L, TypeInv, Protocol, Good(L), Reads("loop"),
           NEW k \in 1 .. (Len(L[call.q]) + 1), curr' = At(L[call.q], k), prev' = At(L[call.q], k - 1),
           job.op = "none" => QueueLoop(Cont(L[call.q], value), k)',
           job.op # "none" => MapLoop(Cont(L[call.q], value), Pairs(L, value), k)'
    PROVE  Inv'
  <1>1. /\ TypeInv' /\ Protocol'
        /\ Shape(L)' /\ Buckets(L, value)' /\ Counted(L)' /\ Pointer(L)'
        /\ ~ Idle' /\ call'.q = call.q /\ call'.at = "loop" /\ job' = job
        /\ ~ Idle' /\ job'.op # "none" => Cont(L[Plain], value)' = before'.queue
        /\ ~ Idle' /\ job'.op = "none" => Pairs(L, value)' = before'.map
    BY ReadsKeep
  <1>2. job.op = "none" => call.q = Plain
    BY DEF Protocol, Reads
  <1>3. Progress(L)'
    BY <1>1, <1>2 DEF Progress
  <1> QED BY <1>1, <1>3 DEF Inv, Good

\* A loop ends.
LEMMA Returns ==
    ASSUME NEW L, TypeInv, Protocol, Good(L), Reads("returned"),
           job.op = "none" => QueueDone(L[call.q])',
           job.op # "none" => MapDone(L[call.q], Pairs(L, value))'
    PROVE  Inv'
  <1>1. /\ TypeInv' /\ Protocol'
        /\ Shape(L)' /\ Buckets(L, value)' /\ Counted(L)' /\ Pointer(L)'
        /\ ~ Idle' /\ call'.q = call.q /\ call'.at = "returned" /\ job' = job
        /\ ~ Idle' /\ job'.op # "none" => Cont(L[Plain], value)' = before'.queue
        /\ ~ Idle' /\ job'.op = "none" => Pairs(L, value)' = before'.map
    BY ReadsKeep
  <1>2. job.op = "none" => call.q = Plain
    BY DEF Protocol, Reads
  <1>3. Progress(L)'
    BY <1>1, <1>2 DEF Progress
  <1> QED BY <1>1, <1>3 DEF Inv, Good

\* The values that are returned.
LEMMA Results ==
    /\ \A b \in BOOLEAN : /\ Success(b) \in [ok : BOOLEAN, num : Nat, val : Pair \cup {Blank}]
                          /\ Success(b).ok = b
    /\ \A i \in Nat : /\ Number(i) \in [ok : BOOLEAN, num : Nat, val : Pair \cup {Blank}]
                      /\ Number(i).num = i
    /\ \A v \in Pair : Value(v) \in [ok : BOOLEAN, num : Nat, val : Pair \cup {Blank}]
    /\ Nothing \in [ok : BOOLEAN, num : Nat, val : Pair \cup {Blank}]
  <1>1. Nothing = [ok |-> FALSE, num |-> 0, val |-> Blank]
    BY DEF Nothing, NULL
  <1>2. ASSUME NEW b \in BOOLEAN
        PROVE  Success(b) \in [ok : BOOLEAN, num : Nat, val : Pair \cup {Blank}] /\ Success(b).ok = b
    <2>1. Success(b) = [ok |-> b, num |-> 0, val |-> Blank]
      BY <1>1 DEF Success
    <2> QED BY <2>1
  <1>3. ASSUME NEW i \in Nat
        PROVE  Number(i) \in [ok : BOOLEAN, num : Nat, val : Pair \cup {Blank}] /\ Number(i).num = i
    <2>1. Number(i) = [ok |-> FALSE, num |-> i, val |-> Blank]
      <3>1. Number(i) = [[ok |-> FALSE, num |-> 0, val |-> Blank] EXCEPT !.num = i]
        BY ONLY <1>1, Zenon DEF Number
      <3>2. \A b, u, w : [[ok |-> b, num |-> u, val |-> w] EXCEPT !.num = i] = [ok |-> b, num |-> i, val |-> w]
        OBVIOUS
      <3> QED BY ONLY <3>1, <3>2, Zenon
    <2> QED BY <2>1
  <1>4. ASSUME NEW v \in Pair
        PROVE  Value(v) \in [ok : BOOLEAN, num : Nat, val : Pair \cup {Blank}]
    <2>1. Value(v) = [ok |-> FALSE, num |-> 0, val |-> v]
      <3>1. Value(v) = [[ok |-> FALSE, num |-> 0, val |-> Blank] EXCEPT !.val = v]
        BY ONLY <1>1, Zenon DEF Value
      <3>2. \A b, u, w : [[ok |-> b, num |-> u, val |-> w] EXCEPT !.val = v] = [ok |-> b, num |-> u, val |-> v]
        OBVIOUS
      <3> QED BY ONLY <3>1, <3>2, Zenon
    <2> QED BY <2>1
  <1> QED BY <1>1, <1>2, <1>3, <1>4

\* The meaning of an operation op in the next state.
LEMMA MeaningNext ==
    ASSUME NEW s
    PROVE  /\ call'.op = "insert" => Meaning(s)' = [s |-> s \o SetToSeq(call'.match), ret |-> Success(TRUE)]
           /\ call'.op = "erase_item" =>
                 Meaning(s)' = [s |-> Without(call'.match, s),
                                ret |-> Number(Cardinality(Positions(call'.match, s)))]
           /\ call'.op = "erase_idx" =>
                 Meaning(s)' = IF call'.index < Len(s)
                               THEN [s |-> RemoveAt(s, call'.index + 1), ret |-> Success(TRUE)]
                               ELSE [s |-> s, ret |-> Success(FALSE)]
           /\ call'.op = "dequeue" =>
                 Meaning(s)' = IF s = <<>> THEN [s |-> s, ret |-> Nothing]
                               ELSE [s |-> Tail(s), ret |-> Value(Head(s))]
           /\ call'.op = "top" =>
                 Meaning(s)' = [s |-> s, ret |-> IF s = <<>> THEN Nothing ELSE Value(Head(s))]
           /\ call'.op = "destroy" => Meaning(s)' = [s |-> <<>>, ret |-> Nothing]
           /\ call'.op = "find" => Meaning(s)' = [s |-> s, ret |-> ret']
  <1> DEFINE op == call'.op
  <1>1. Meaning(s)' =
    CASE op = "insert"     -> [s |-> s \o SetToSeq(call'.match), ret |-> Success(TRUE)]
      [] op = "erase_item" -> [s |-> Without(call'.match, s),
                               ret |-> Number(Cardinality(Positions(call'.match, s)))]
      [] op = "erase_idx"  -> IF call'.index < Len(s)
                              THEN [s |-> RemoveAt(s, call'.index + 1), ret |-> Success(TRUE)]
                              ELSE [s |-> s, ret |-> Success(FALSE)]
      [] op = "dequeue"    -> IF s = <<>> THEN [s |-> s, ret |-> Nothing]
                              ELSE [s |-> Tail(s), ret |-> Value(Head(s))]
      [] op = "top"        -> [s |-> s, ret |-> IF s = <<>> THEN Nothing ELSE Value(Head(s))]
      [] op = "destroy"    -> [s |-> <<>>, ret |-> Nothing]
      [] OTHER             -> [s |-> s, ret |-> ret']
    BY Zenon DEF Meaning, Success, Number, Value, Nothing
  <1> HIDE DEF op
  <1>2. /\ op = "insert" => Meaning(s)' = [s |-> s \o SetToSeq(call'.match), ret |-> Success(TRUE)]
        /\ op = "erase_item" => Meaning(s)' = [s |-> Without(call'.match, s),
                                ret |-> Number(Cardinality(Positions(call'.match, s)))]
    BY <1>1
  <1>3. /\ op = "erase_idx" => Meaning(s)' = IF call'.index < Len(s)
                               THEN [s |-> RemoveAt(s, call'.index + 1), ret |-> Success(TRUE)]
                               ELSE [s |-> s, ret |-> Success(FALSE)]
        /\ op = "dequeue" => Meaning(s)' = IF s = <<>> THEN [s |-> s, ret |-> Nothing]
                               ELSE [s |-> Tail(s), ret |-> Value(Head(s))]
    BY <1>1
  <1>4. /\ op = "top" => Meaning(s)' = [s |-> s, ret |-> IF s = <<>> THEN Nothing ELSE Value(Head(s))]
        /\ op = "destroy" => Meaning(s)' = [s |-> <<>>, ret |-> Nothing]
        /\ op = "find" => Meaning(s)' = [s |-> s, ret |-> ret']
    BY <1>1
  <1> QED BY <1>2, <1>3, <1>4 DEF op

\* What is known of a call at node k of its list.
Place(L, k) ==
    LET s == L[call.q]
        c == Cont(s, value) IN
    /\ TypeInv /\ Protocol /\ Good(L) /\ call.q \in Queues
    /\ s \in Seq(Node) /\ Len(s) \in Nat /\ k \in Nat /\ k \in 1 .. (Len(s) + 1)
    /\ c \in Seq(Pair) /\ Len(c) = Len(s)
    /\ \A i \in 1 .. Len(s) : c[i] = value[s[i]] /\ c[i] \in Pair /\ s[i] \in live
    /\ curr = At(s, k) /\ prev = At(s, k - 1)
    /\ curr \in Node \cup {NULL} /\ prev \in Node \cup {NULL} /\ At(s, k + 1) \in Node \cup {NULL}
    /\ curr = NULL <=> k = Len(s) + 1
    /\ curr # NULL => /\ k \in 1 .. Len(s) /\ k + 1 \in 1 .. (Len(s) + 1)
                      /\ curr = s[k] /\ curr \in live /\ curr \in Node
                      /\ value[curr] = c[k] /\ value[curr] \in Pair
                      /\ next[curr] = At(s, k + 1) /\ curr = At(s, (k + 1) - 1)
    /\ job.op = "none" => call.q = Plain /\ QueueLoop(c, k)
    /\ job.op # "none" => call.q # Plain /\ MapLoop(c, Pairs(L, value), k)

LEMMA HasPlace ==
    ASSUME Inv, ~ Idle, call.at = "loop"
    PROVE  \E L : \E k : Place(L, k)
  <1>1. PICK L : Good(L)
    BY DEF Inv
  <1>2. TypeInv /\ Protocol /\ Shape(L)
    BY <1>1 DEF Inv, Good
  <1>3. call.q \in Queues
    BY <1>2 DEF TypeInv
  <1>4. PICK k \in 1 .. (Len(L[call.q]) + 1) :
              /\ curr = At(L[call.q], k) /\ prev = At(L[call.q], k - 1)
              /\ job.op = "none" => call.q = Plain /\ QueueLoop(Cont(L[call.q], value), k)
              /\ job.op # "none" => call.q # Plain /\ MapLoop(Cont(L[call.q], value), Pairs(L, value), k)
    BY <1>1, <1>2, InLoop
  <1>5. PICK q \in Queues : q = call.q
    BY <1>3
  <1>6. PICK c : c = curr
    OBVIOUS
  <1>7. k \in 1 .. (Len(L[q]) + 1) /\ c = At(L[q], k)
    BY <1>4, <1>5, <1>6
  <1>8.    /\ L[q] \in Seq(Node) /\ Len(L[q]) \in Nat /\ k \in Nat
           /\ Cont(L[q], value) \in Seq(Pair) /\ Len(Cont(L[q], value)) = Len(L[q])
           /\ \A i \in 1 .. Len(L[q]) : /\ Cont(L[q], value)[i] = value[L[q][i]]
                                        /\ Cont(L[q], value)[i] \in Pair /\ L[q][i] \in live
           /\ c = NULL <=> k = Len(L[q]) + 1
           /\ c # NULL => /\ k \in 1 .. Len(L[q]) /\ k + 1 \in 1 .. (Len(L[q]) + 1)
                          /\ c = L[q][k] /\ c \in live /\ c \in Node
                          /\ value[c] = Cont(L[q], value)[k] /\ value[c] \in Pair
                          /\ next[c] = At(L[q], k + 1) /\ c = At(L[q], (k + 1) - 1)
           /\ At(L[q], k) \in Node \cup {NULL}
           /\ At(L[q], k - 1) \in Node \cup {NULL} /\ At(L[q], k + 1) \in Node \cup {NULL}
    BY <1>2, <1>7, AtNode
  <1>9. Place(L, k)
    BY <1>1, <1>2, <1>3, <1>4, <1>5, <1>6, <1>8 DEF Place
  <1> QED BY <1>9

\* What else is unchanged when a queue operation takes a step.
Rest == UNCHANGED <<item_count, job, held, before>>

LEMMA InsertWalkInv == ASSUME Inv, InsertWalk, Rest PROVE Inv'
  <1>1. ~ Idle /\ call.at = "loop" /\ call.op = "insert" /\ curr # NULL /\ prev' = curr /\ curr' = next[curr]
        /\ UNCHANGED <<heap, objects, call, n, ret>>
    BY DEF InsertWalk, In, Advance, Idle
  <1>2. PICK L : \E k : Place(L, k)
    BY <1>1, HasPlace
  <1>3. PICK k : Place(L, k)
    BY <1>2
  <1>4. TypeInv /\ Protocol /\ Good(L)
    BY <1>3 DEF Place
  <1>5. k + 1 \in 1 .. (Len(L[call.q]) + 1) /\ curr' = At(L[call.q], k + 1) /\ prev' = At(L[call.q], (k + 1) - 1)
    BY <1>1, <1>3 DEF Place
  <1>6. Reads("loop")
    <2>1. call' = [call EXCEPT !.at = "loop"]
      BY <1>1, <1>4 DEF TypeInv
    <2> QED BY <1>1, <1>3, <2>1 DEF Reads, Place, TypeInv, TypeOK, Rest
  <1>7. Cont(L[call.q], value)' = Cont(L[call.q], value) /\ Pairs(L, value)' = Pairs(L, value) /\ call' = call
        /\ before' = before /\ job' = job
    BY <1>1 DEF heap, Cont, Pairs, Rest
  <1>8. job.op = "none" => QueueLoop(Cont(L[call.q], value), k + 1)'
    BY <1>1, <1>3, <1>7 DEF Place, QueueLoop
  <1>9. job.op # "none" => MapLoop(Cont(L[call.q], value), Pairs(L, value), k + 1)'
    <2>1. job.op # "none" => job.op = "insert" /\ job.stage = "change"
      BY <1>1, <1>4 DEF Protocol, TypeInv
    <2> QED BY <1>3, <1>7, <2>1 DEF Place, MapLoop, Absent
  <1>10. PICK j : j = k + 1
    OBVIOUS
  <1> QED BY <1>4, <1>5, <1>6, <1>8, <1>9, <1>10, GoesOn

LEMMA InsertNoMemoryInv == ASSUME Inv, InsertNoMemory, Rest PROVE Inv'
  <1>1. ~ Idle /\ call.at = "loop" /\ call.op = "insert" /\ call' = [call EXCEPT !.at = "fault"]
        /\ UNCHANGED <<heap, objects, curr, prev, n, ret>>
    BY DEF InsertNoMemory, In, Idle
  <1>2. PICK L : Good(L)
    BY DEF Inv
  <1>3. TypeInv /\ Protocol
    BY DEF Inv
  <1>4. Reads("fault")
    BY <1>1, <1>3 DEF Reads, TypeInv, TypeOK, Rest
  <1>5. /\ TypeInv' /\ Protocol'
        /\ Shape(L)' /\ Buckets(L, value)' /\ Counted(L)' /\ Pointer(L)'
        /\ call'.at = "fault"
        /\ ~ Idle' /\ job'.op # "none" => Cont(L[Plain], value)' = before'.queue
        /\ ~ Idle' /\ job'.op = "none" => Pairs(L, value)' = before'.map
    BY <1>2, <1>3, <1>4, ReadsKeep
  <1>6. Progress(L)'
    BY <1>5 DEF Progress
  <1> QED BY <1>5, <1>6 DEF Inv, Good

\* A pair of the map is in the bucket of its key.
LEMMA KeyInBucket ==
    ASSUME NEW L, NEW val, Buckets(L, val), NEW x \in Pairs(L, val)
    PROVE  \E i \in 1 .. Len(L[find_bucket(x.first)]) : val[L[find_bucket(x.first)][i]] = x
  <1>1. PICK b \in Bucket : \E i \in 1 .. Len(L[b]) : val[L[b][i]] = x
    BY DEF Pairs
  <1>2. PICK i \in 1 .. Len(L[b]) : val[L[b][i]] = x
    BY <1>1
  <1>3. find_bucket(x.first) = b
    BY <1>2 DEF Buckets
  <1> QED BY <1>2, <1>3

LEMMA MinIs ==
    ASSUME NEW S, S \subseteq Nat, NEW k \in S, \A y \in S : k <= y
    PROVE  Min(S) = k
  <1>1. Min(S) \in S /\ \A y \in S : Min(S) <= y
    <2>1. Min(S) = CHOOSE x \in S : \A y \in S : x <= y
      BY Zenon DEF Min
    <2>2. \E x \in S : \A y \in S : x <= y
      OBVIOUS
    <2> QED BY <2>1, <2>2, Zenon
  <1>2. Min(S) <= k /\ k <= Min(S) /\ k \in Nat /\ Min(S) \in Nat
    BY <1>1
  <1> QED BY <1>2

LEMMA FindWalkInv == ASSUME Inv, FindWalk, Rest PROVE Inv'
  <1>1. ~ Idle /\ call.at = "loop" /\ call.op = "find" /\ curr # NULL /\ prev' = curr /\ curr' = next[curr]
        /\ value[curr] \notin call.match /\ UNCHANGED <<heap, objects, call, n, ret>>
    BY DEF FindWalk, In, Advance, Idle
  <1>2. PICK L : \E k : Place(L, k)
    BY <1>1, HasPlace
  <1>3. PICK k : Place(L, k)
    BY <1>2
  <1>4. TypeInv /\ Protocol /\ Good(L)
    BY <1>3 DEF Place
  <1>5. k + 1 \in 1 .. (Len(L[call.q]) + 1) /\ curr' = At(L[call.q], k + 1) /\ prev' = At(L[call.q], (k + 1) - 1)
    BY <1>1, <1>3 DEF Place
  <1>6. Reads("loop")
    <2>1. call' = [call EXCEPT !.at = "loop"]
      BY <1>1, <1>4 DEF TypeInv
    <2> QED BY <1>1, <1>3, <2>1 DEF Reads, Place, TypeInv, TypeOK, Rest
  <1>7. Cont(L[call.q], value)' = Cont(L[call.q], value) /\ Pairs(L, value)' = Pairs(L, value) /\ call' = call
        /\ before' = before /\ job' = job
    BY <1>1 DEF heap, Cont, Pairs, Rest
  <1>8. PICK c : c = Cont(L[call.q], value)
    OBVIOUS
  <1>9. k \in Nat /\ (k + 1) - 1 = k /\ c[k] \notin call.match /\ c[k] \in Pair
        /\ \A i \in 1 .. k : i = k \/ i \in 1 .. (k - 1)
    <2>1. k \in Nat /\ c[k] \notin call.match /\ c[k] \in Pair
      BY <1>1, <1>3, <1>8 DEF Place
    <2> QED BY <2>1
  <1>10. job.op = "none" => QueueLoop(Cont(L[call.q], value), k + 1)'
    <2>1. SUFFICES ASSUME job.op = "none" PROVE QueueLoop(Cont(L[call.q], value), k + 1)'
      OBVIOUS
    <2>2. QueueLoop(c, k)
      BY <2>1, <1>3, <1>8 DEF Place
    <2>3. c = before.queue /\ \A i \in 1 .. (k - 1) : c[i] \notin call.match
      BY <2>2, <1>1 DEF QueueLoop
    <2>4. \A i \in 1 .. ((k + 1) - 1) : c[i] \notin call.match
      BY <2>3, <1>9
    <2> QED BY <2>3, <2>4, <1>1, <1>7, <1>8 DEF QueueLoop
  <1>11. job.op # "none" => MapLoop(Cont(L[call.q], value), Pairs(L, value), k + 1)'
    <2>1. SUFFICES ASSUME job.op # "none" PROVE MapLoop(Cont(L[call.q], value), Pairs(L, value), k + 1)'
      OBVIOUS
    <2>2. job.stage = "look" /\ call.match = WithKey(job.key)
      BY <1>1, <1>4, <2>1 DEF Protocol, TypeInv
    <2>3. Pairs(L, value) = before.map /\ \A i \in 1 .. (k - 1) : c[i].first # job.key
      BY <2>1, <2>2, <1>3, <1>8 DEF Place, MapLoop
    <2>4. c[k].first # job.key
      BY <2>2, <1>9 DEF WithKey
    <2>5. \A i \in 1 .. ((k + 1) - 1) : c[i].first # job.key
      BY <2>3, <2>4, <1>9
    <2> QED BY <2>2, <2>3, <2>5, <1>7, <1>8 DEF MapLoop
  <1> QED BY <1>4, <1>5, <1>6, <1>10, <1>11, GoesOn

LEMMA FindEndInv == ASSUME Inv, FindEnd, Rest PROVE Inv'
  <1>1. ~ Idle /\ call.at = "loop" /\ call.op = "find" /\ (curr # NULL => value[curr] \in call.match)
        /\ ret' = Number(curr) /\ call' = [call EXCEPT !.at = "returned"]
        /\ UNCHANGED <<heap, objects, curr, prev, n>>
    BY DEF FindEnd, In, Return, Idle
  <1>2. PICK L : \E k : Place(L, k)
    BY <1>1, HasPlace
  <1>3. PICK k : Place(L, k)
    BY <1>2
  <1>4. TypeInv /\ Protocol /\ Good(L)
    BY <1>3 DEF Place
  <1>5. curr \in Nat
    BY <1>4, QueueAssumption DEF TypeInv, TypeOK, Node, NULL
  <1>6. Reads("returned") /\ ret'.num = curr
    BY <1>1, <1>4, <1>5, Results DEF Reads, TypeInv, TypeOK, Rest
  <1>7. /\ call'.op = call.op /\ call'.q = call.q /\ call'.match = call.match
        /\ before' = before /\ job' = job /\ value' = value
        /\ Pairs(L, value)' = Pairs(L, value)
        /\ \A q \in Queues : Cont(L[q], value)' = Cont(L[q], value)
    BY <1>4, <1>6, ReadsKeep
  <1>8. PICK s \in Seq(Node) : s = L[call.q]
    BY <1>3 DEF Place
  <1>9. PICK c \in Seq(Pair) : c = Cont(s, value)
    BY <1>3, <1>8 DEF Place
  <1>10. /\ Len(c) = Len(s) /\ Len(s) \in Nat /\ k \in 1 .. (Len(s) + 1) /\ DOMAIN c = 1 .. Len(s)
         /\ curr = NULL <=> k = Len(s) + 1
         /\ curr # NULL => k \in 1 .. Len(s) /\ curr = s[k] /\ value[curr] = c[k]
    BY <1>3, <1>8, <1>9 DEF Place
  <1>11. \A i \in 1 .. Len(s) : c[i] = value[s[i]]
    BY <1>3, <1>8, <1>9 DEF Place
  <1>12. job.op = "none" => QueueDone(L[call.q])'
    <2>1. SUFFICES ASSUME job.op = "none" PROVE QueueDone(L[call.q])'
      OBVIOUS
    <2>2. QueueLoop(c, k)
      BY <2>1, <1>3, <1>8, <1>9 DEF Place
    <2>3. c = before.queue /\ \A i \in 1 .. (k - 1) : c[i] \notin call.match
      BY <2>2, <1>1 DEF QueueLoop
    <2>4. Meaning(before.queue)' = [s |-> c, ret |-> ret']
      <3>1. PICK b : b = before.queue
        OBVIOUS
      <3>2. Meaning(b)' = [s |-> b, ret |-> ret']
        BY <1>1, <1>7, MeaningNext
      <3>3. Meaning(before.queue)' = Meaning(b)'
        BY <3>1, <1>7 DEF Meaning
      <3> QED BY <3>1, <3>2, <3>3, <2>3
    <2>5. IF Positions(call.match, c) = {} THEN curr = NULL ELSE curr = s[Min(Positions(call.match, c))]
      <3>1. CASE curr = NULL
        <4>1. \A i \in 1 .. Len(s) : i \in 1 .. (k - 1)
          BY <3>1, <1>10
        <4> QED BY <3>1, <4>1, <2>3, <1>10 DEF Positions
      <3>2. CASE curr # NULL
        <4>1. k \in Positions(call.match, c)
          BY <3>2, <1>1, <1>10 DEF Positions
        <4>2. \A y \in Positions(call.match, c) : k <= y
          BY <3>2, <2>3, <1>10 DEF Positions
        <4>3. Positions(call.match, c) \subseteq Nat
          BY <1>10 DEF Positions
        <4>4. Min(Positions(call.match, c)) = k
          BY <4>1, <4>2, <4>3, MinIs
        <4> QED BY <3>2, <4>1, <4>4, <1>10
      <3> QED BY <3>1, <3>2
    <2>6. Cont(L[call.q], value)' = c /\ L[call.q]' = s
      BY <1>7, <1>8, <1>9 DEF Cont
    <2>7. Positions(call.match, before.queue)' = Positions(call.match, c)
      BY <2>3, <1>7 DEF Positions
    <2> QED BY <2>3, <2>4, <2>5, <2>6, <2>7, <1>6, <1>7 DEF QueueDone
  <1>13. job.op # "none" => MapDone(L[call.q], Pairs(L, value))'
    <2>1. SUFFICES ASSUME job.op # "none" PROVE MapDone(L[call.q], Pairs(L, value))'
      OBVIOUS
    <2>2. job.stage = "look" /\ call.match = WithKey(job.key) /\ call.q = find_bucket(job.key)
      BY <1>1, <1>4, <2>1 DEF Protocol, TypeInv
    <2>3. Pairs(L, value) = before.map /\ \A i \in 1 .. (k - 1) : c[i].first # job.key
      BY <2>1, <2>2, <1>3, <1>8, <1>9 DEF Place, MapLoop
    <2>4. curr = NULL => Absent
      <3>1. SUFFICES ASSUME curr = NULL, NEW x \in before.map, x.first = job.key PROVE FALSE
        BY DEF Absent
      <3>2. Buckets(L, value) /\ x \in Pairs(L, value)
        BY <1>4, <2>3 DEF Good
      <3>3. PICK i \in 1 .. Len(s) : value[s[i]] = x
        BY <3>1, <3>2, <2>2, <1>8, KeyInBucket
      <3>4. i \in 1 .. (k - 1)
        BY <3>1, <1>10
      <3> QED BY <3>1, <3>3, <3>4, <2>3, <1>11
    <2>5. curr # NULL => k \in 1 .. Len(s) /\ s[k] = curr /\ value[s[k]].first = job.key
      BY <2>2, <1>1, <1>10 DEF WithKey
    <2>6. L[call.q]' = s
      BY <1>7, <1>8
    <2> QED BY <2>2, <2>3, <2>4, <2>5, <2>6, <1>6, <1>7 DEF MapDone, Absent
  <1> QED BY <1>4, <1>6, <1>12, <1>13, Returns

\* erase_item() begins,
LEMMA ErasedStart ==
    ASSUME NEW match, NEW b \in Seq(Pair)
    PROVE  0 \in 0 .. Len(b) /\ Erased(match, 0, b, b, 1, 0)
  <1>1. PICK l \in Nat : l = Len(b)
    OBVIOUS
  <1>2. KeptOf(match, b)[0] = <<>>
    BY KeptStep
  <1>3. {i \in 1 .. 0 : b[i] \in match} = {} /\ Cardinality({}) = 0
    BY FS_EmptySet
  <1>4. <<>> \in Seq(Pair) /\ Len(<<>>) = 0
    OBVIOUS
  <1> QED BY <1>1, <1>2, <1>3, <1>4 DEF Erased

\* looks at a value,
LEMMA ErasedHere ==
    ASSUME NEW match, NEW cnt, NEW b \in Seq(Pair), NEW c \in Seq(Pair), NEW k \in 1 .. Len(c),
           NEW m \in 0 .. Len(b), Erased(match, cnt, b, c, k, m)
    PROVE  m + 1 \in 1 .. Len(b) /\ b[m + 1] = c[k] /\ m \in Nat
  <1>1. PICK l \in Nat : l = Len(b)
    OBVIOUS
  <1>2. PICK a \in Seq(Pair) : a = KeptOf(match, b)[m]
    BY DEF Erased
  <1>3. /\ k = Len(a) + 1 /\ Len(c) = Len(a) + (l - m) /\ Len(a) \in Nat
        /\ \A i \in (m + 1) .. l : c[(Len(a) + i) - m] = b[i]
    BY <1>1, <1>2 DEF Erased
  <1>4. m \in Nat /\ m + 1 \in 1 .. l /\ m + 1 \in (m + 1) .. l /\ (Len(a) + (m + 1)) - m = k
    BY <1>1, <1>3
  <1> QED BY <1>1, <1>3, <1>4

\* keeps it
LEMMA ErasedPass ==
    ASSUME NEW match, NEW cnt, NEW b \in Seq(Pair), NEW c \in Seq(Pair), NEW k \in 1 .. Len(c),
           NEW m \in 0 .. Len(b), Erased(match, cnt, b, c, k, m), c[k] \notin match
    PROVE  m + 1 \in 0 .. Len(b) /\ Erased(match, cnt, b, c, k + 1, m + 1)
  <1>1. PICK l \in Nat : l = Len(b)
    OBVIOUS
  <1>2. PICK a \in Seq(Pair) : a = KeptOf(match, b)[m]
    BY DEF Erased
  <1>3. /\ k = Len(a) + 1 /\ Len(c) = Len(a) + (l - m) /\ Len(a) \in Nat
        /\ \A i \in 1 .. Len(a) : c[i] = a[i]
        /\ \A i \in (m + 1) .. l : c[(Len(a) + i) - m] = b[i]
        /\ cnt = Cardinality({i \in 1 .. m : b[i] \in match})
    BY <1>1, <1>2 DEF Erased
  <1>4. m + 1 \in 1 .. Len(b) /\ b[m + 1] = c[k] /\ m \in Nat
    BY ErasedHere
  <1>5. (m + 1) - 1 = m
    BY <1>4
  <1>6. KeptOf(match, b)[m + 1] = Append(a, b[m + 1])
    <2>1. PICK f : f = KeptOf(match, b)
      OBVIOUS
    <2>2. \A i \in 1 .. Len(b) : f[i] = IF b[i] \in match THEN f[i - 1] ELSE Append(f[i - 1], b[i])
      BY <2>1, KeptStep, SMTT(30)
    <2>3. f[m + 1] = Append(f[(m + 1) - 1], b[m + 1])
      BY ONLY <2>2, <1>4, c[k] \notin match
    <2> QED BY <2>1, <2>3, <1>2, <1>5
  <1>7. b[m + 1] \in Pair
    BY <1>4
  <1>8. PICK e \in Pair : e = b[m + 1]
    BY <1>7
  <1>9. PICK d : d = Append(a, e)
    OBVIOUS
  <1>10. d \in Seq(Pair) /\ Len(d) = Len(a) + 1 /\ d[Len(a) + 1] = e /\ \A i \in 1 .. Len(a) : d[i] = a[i]
    BY <1>9
  <1>11. /\ d \in Seq(Pair) /\ k + 1 = Len(d) + 1 /\ Len(c) = Len(d) + (l - (m + 1))
    BY <1>3, <1>4, <1>10
  <1>12. \A i \in 1 .. Len(d) : c[i] = d[i]
    <2>1. ASSUME NEW i \in 1 .. Len(d) PROVE c[i] = d[i]
      <3>1. CASE i = Len(a) + 1
        BY <3>1, <1>3, <1>4, <1>8, <1>10
      <3>2. CASE i # Len(a) + 1
        <4>1. i \in 1 .. Len(a)
          BY <3>2, <1>3, <1>10
        <4> QED BY <4>1, <1>3, <1>10
      <3> QED BY <3>1, <3>2
    <2> QED BY <2>1
  <1>13. \A i \in ((m + 1) + 1) .. l : c[(Len(d) + i) - (m + 1)] = b[i]
    <2>1. ASSUME NEW i \in ((m + 1) + 1) .. l PROVE c[(Len(d) + i) - (m + 1)] = b[i]
      <3>1. i \in (m + 1) .. l /\ (Len(d) + i) - (m + 1) = (Len(a) + i) - m
        BY <1>3, <1>4, <1>10
      <3> QED BY <3>1, <1>3
    <2> QED BY <2>1
  <1>14. {i \in 1 .. (m + 1) : b[i] \in match} = {i \in 1 .. m : b[i] \in match}
    BY <1>4
  <1>15. KeptOf(match, b)[m + 1] = d
    BY <1>6, <1>8, <1>9
  <1>16. Erased(match, cnt, b, c, k + 1, m + 1)
    BY ONLY <1>1, <1>3, <1>11, <1>12, <1>13, <1>14, <1>15 DEF Erased
  <1> QED BY <1>1, <1>4, <1>16

\* or erases it,
LEMMA ErasedHit ==
    ASSUME NEW match, NEW cnt, NEW b \in Seq(Pair), NEW c \in Seq(Pair), NEW k \in 1 .. Len(c),
           NEW m \in 0 .. Len(b), Erased(match, cnt, b, c, k, m), c[k] \in match
    PROVE  m + 1 \in 0 .. Len(b) /\ Erased(match, cnt + 1, b, Removed(c, k), k, m + 1)
  <1>1. PICK l \in Nat : l = Len(b)
    OBVIOUS
  <1>2. PICK a \in Seq(Pair) : a = KeptOf(match, b)[m]
    BY DEF Erased
  <1>3. /\ k = Len(a) + 1 /\ Len(c) = Len(a) + (l - m) /\ Len(a) \in Nat
        /\ \A i \in 1 .. Len(a) : c[i] = a[i]
        /\ \A i \in (m + 1) .. l : c[(Len(a) + i) - m] = b[i]
        /\ cnt = Cardinality({i \in 1 .. m : b[i] \in match})
    BY <1>1, <1>2 DEF Erased
  <1>4. m + 1 \in 1 .. Len(b) /\ b[m + 1] = c[k] /\ m \in Nat
    BY ErasedHere
  <1>5. (m + 1) - 1 = m
    BY <1>4
  <1>6. KeptOf(match, b)[m + 1] = a
    BY <1>2, <1>4, <1>5, KeptStep
  <1>7. PICK d : d = Removed(c, k)
    OBVIOUS
  <1>8. /\ Len(d) = Len(c) - 1 /\ Len(c) \in Nat
        /\ \A i \in 1 .. (Len(c) - 1) : d[i] = IF i < k THEN c[i] ELSE c[i + 1]
    BY <1>7, RemovedFacts
  <1>9. Len(d) = Len(a) + (l - (m + 1))
    BY <1>3, <1>4, <1>8
  <1>10. \A i \in 1 .. Len(a) : d[i] = a[i]
    <2>1. ASSUME NEW i \in 1 .. Len(a) PROVE d[i] = a[i]
      <3>1. i < k /\ i \in 1 .. (Len(c) - 1)
        BY <1>1, <1>3, <1>4
      <3> QED BY <3>1, <1>3, <1>8
    <2> QED BY <2>1
  <1>11. \A i \in ((m + 1) + 1) .. l : d[(Len(a) + i) - (m + 1)] = b[i]
    <2>1. ASSUME NEW i \in ((m + 1) + 1) .. l PROVE d[(Len(a) + i) - (m + 1)] = b[i]
      <3>1. PICK j \in Int : j = (Len(a) + i) - (m + 1)
        BY <1>3, <1>4
      <3>2. i \in (m + 1) .. l /\ j + 1 = (Len(a) + i) - m /\ j \in 1 .. (Len(c) - 1) /\ ~ (j < k)
        BY <3>1, <1>1, <1>3, <1>4
      <3> QED BY <3>1, <3>2, <1>3, <1>8
    <2> QED BY <2>1
  <1>12. Cardinality({i \in 1 .. (m + 1) : b[i] \in match}) = cnt + 1
    <2>1. {i \in 1 .. (m + 1) : b[i] \in match} = {i \in 1 .. m : b[i] \in match} \cup {m + 1}
      BY <1>4
    <2>2. m + 1 \notin {i \in 1 .. m : b[i] \in match}
      BY <1>4
    <2>3. IsFiniteSet({i \in 1 .. m : b[i] \in match})
      <3>1. IsFiniteSet(1 .. m)
        BY <1>4, FS_Interval
      <3> QED BY <3>1, FS_Subset
    <2> QED BY <2>1, <2>2, <2>3, <1>3, FS_AddElement, ZenonT(60)
  <1>13. Erased(match, cnt + 1, b, d, k, m + 1)
    BY <1>1, <1>3, <1>6, <1>9, <1>10, <1>11, <1>12 DEF Erased
  <1> QED BY <1>1, <1>4, <1>7, <1>13

\* and is done.
LEMMA ErasedEnd ==
    ASSUME NEW match, NEW cnt, NEW b \in Seq(Pair), NEW c \in Seq(Pair), NEW k, k = Len(c) + 1,
           NEW m \in 0 .. Len(b), Erased(match, cnt, b, c, k, m)
    PROVE  c = Without(match, b) /\ cnt = Cardinality(Positions(match, b))
  <1>1. PICK l \in Nat : l = Len(b)
    OBVIOUS
  <1>2. PICK a \in Seq(Pair) : a = KeptOf(match, b)[m]
    BY DEF Erased
  <1>3. /\ k = Len(a) + 1 /\ Len(c) = Len(a) + (l - m) /\ Len(a) \in Nat
        /\ \A i \in 1 .. Len(a) : c[i] = a[i]
        /\ cnt = Cardinality({i \in 1 .. m : b[i] \in match})
    BY <1>1, <1>2 DEF Erased
  <1>4. m = l /\ Len(c) = Len(a)
    BY <1>1, <1>3
  <1>5. c = a
    BY <1>3, <1>4, SameSeq
  <1>6. DOMAIN b = 1 .. l
    BY <1>1
  <1> QED BY <1>1, <1>2, <1>3, <1>4, <1>5, <1>6, WithoutIs DEF Positions

LEMMA EraseItemPassInv == ASSUME Inv, EraseItemPass, Rest PROVE Inv'
  <1>1. ~ Idle /\ call.at = "loop" /\ call.op = "erase_item" /\ curr # NULL /\ prev' = curr /\ curr' = next[curr]
        /\ value[curr] \notin call.match /\ UNCHANGED <<heap, objects, call, n, ret>>
    BY DEF EraseItemPass, In, Advance, Idle
  <1>2. PICK L : \E k : Place(L, k)
    BY <1>1, HasPlace
  <1>3. PICK k : Place(L, k)
    BY <1>2
  <1>4. TypeInv /\ Protocol /\ Good(L)
    BY <1>3 DEF Place
  <1>5. k + 1 \in 1 .. (Len(L[call.q]) + 1) /\ curr' = At(L[call.q], k + 1) /\ prev' = At(L[call.q], (k + 1) - 1)
    BY <1>1, <1>3 DEF Place
  <1>6. Reads("loop")
    <2>1. call' = [call EXCEPT !.at = "loop"]
      BY <1>1, <1>4 DEF TypeInv
    <2> QED BY <1>1, <1>3, <2>1 DEF Reads, Place, TypeInv, TypeOK, Rest
  <1>7. Cont(L[call.q], value)' = Cont(L[call.q], value) /\ Pairs(L, value)' = Pairs(L, value) /\ call' = call
        /\ before' = before /\ job' = job /\ n' = n
    BY <1>1 DEF heap, Cont, Pairs, Rest
  <1>8. PICK s \in Seq(Node) : s = L[call.q]
    BY <1>3 DEF Place
  <1>9. PICK c \in Seq(Pair) : c = Cont(s, value)
    BY <1>3, <1>8 DEF Place
  <1>10. /\ k \in Nat /\ k \in 1 .. Len(c) /\ Len(c) = Len(s) /\ c[k] = value[s[k]]
         /\ c[k] \notin call.match /\ c[k] \in Pair
         /\ \A i \in 1 .. ((k + 1) - 1) : i = k \/ i \in 1 .. (k - 1)
    <2>1. /\ k \in Nat /\ k \in 1 .. Len(c) /\ Len(c) = Len(s) /\ c[k] = value[s[k]]
          /\ c[k] \notin call.match /\ c[k] \in Pair
      BY <1>1, <1>3, <1>8, <1>9 DEF Place
    <2> QED BY <2>1
  <1>11. job.op = "none" => QueueLoop(Cont(L[call.q], value), k + 1)'
    <2>1. SUFFICES ASSUME job.op = "none" PROVE QueueLoop(Cont(L[call.q], value), k + 1)'
      OBVIOUS
    <2>2. QueueLoop(c, k)
      BY <2>1, <1>3, <1>8, <1>9 DEF Place
    <2>3. PICK b \in Seq(Pair) : b = before.queue
      BY <1>4 DEF TypeInv
    <2>4. PICK match : match = call.match
      OBVIOUS
    <2>5. PICK cnt : cnt = n
      OBVIOUS
    <2>6. PICK m \in 0 .. Len(b) : Erased(match, cnt, b, c, k, m)
      BY <2>2, <2>3, <2>4, <2>5, <1>1 DEF QueueLoop
    <2>7. m + 1 \in 0 .. Len(b) /\ Erased(match, cnt, b, c, k + 1, m + 1)
      BY <2>4, <2>6, <1>10, ErasedPass
    <2>8. (\E x \in 0 .. Len(before.queue) : Erased(call.match, n, before.queue, c, k + 1, x))'
      BY <2>3, <2>4, <2>5, <2>7, <1>7
    <2> QED BY <2>8, <1>1, <1>7, <1>8, <1>9 DEF QueueLoop
  <1>12. job.op # "none" => MapLoop(Cont(L[call.q], value), Pairs(L, value), k + 1)'
    <2>1. SUFFICES ASSUME job.op # "none" PROVE MapLoop(Cont(L[call.q], value), Pairs(L, value), k + 1)'
      OBVIOUS
    <2>2. job.stage = "change" /\ job.op = "erase" /\ call.q = find_bucket(job.key) /\ job.key \in Keys
      BY <1>1, <1>4, <2>1 DEF Protocol, TypeInv
    <2>3. PICK pair \in before.map :
              /\ call.match = {pair} /\ pair.first = job.key
              /\ \/ n = 0 /\ Pairs(L, value) = before.map /\ \A i \in 1 .. (k - 1) : c[i].first # job.key
                 \/ n = 1 /\ Pairs(L, value) = before.map \ {pair} /\ \A i \in 1 .. Len(c) : c[i].first # job.key
      BY <2>1, <2>2, <1>3, <1>8, <1>9 DEF Place, MapLoop
    <2>4. CASE n = 0 /\ Pairs(L, value) = before.map /\ \A i \in 1 .. (k - 1) : c[i].first # job.key
      <3>1. c[k].first # job.key
        <4>1. SUFFICES ASSUME c[k].first = job.key PROVE FALSE
          OBVIOUS
        <4>2. Buckets(L, value) /\ pair \in Pairs(L, value)
          BY <1>4, <2>4 DEF Good
        <4>3. PICK i \in 1 .. Len(s) : value[s[i]] = pair
          BY <4>2, <2>2, <2>3, <1>8, KeyInBucket
        <4>4. call.q \in Bucket
          BY <2>2, BucketQueue
        <4>5. i = k
          BY <4>1, <4>2, <4>3, <4>4, <2>3, <1>8, <1>10 DEF Buckets
        <4> QED BY <4>3, <4>5, <2>3, <1>10
      <3>2. \A i \in 1 .. ((k + 1) - 1) : c[i].first # job.key
        BY <3>1, <2>4, <1>10
      <3> QED BY <3>2, <2>2, <2>3, <2>4, <1>7, <1>8, <1>9 DEF MapLoop
    <2>5. CASE n = 1 /\ Pairs(L, value) = before.map \ {pair} /\ \A i \in 1 .. Len(c) : c[i].first # job.key
      BY <2>2, <2>3, <2>5, <1>7, <1>8, <1>9 DEF MapLoop
    <2> QED BY <2>3, <2>4, <2>5
  <1> QED BY <1>4, <1>5, <1>6, <1>11, <1>12, GoesOn

LEMMA EraseItemEndInv == ASSUME Inv, EraseItemEnd, Rest PROVE Inv'
  <1>1. ~ Idle /\ call.at = "loop" /\ call.op = "erase_item" /\ curr = NULL
        /\ ret' = Number(n) /\ call' = [call EXCEPT !.at = "returned"]
        /\ UNCHANGED <<heap, objects, curr, prev, n>>
    BY DEF EraseItemEnd, In, Return, Idle
  <1>2. PICK L : \E k : Place(L, k)
    BY <1>1, HasPlace
  <1>3. PICK k : Place(L, k)
    BY <1>2
  <1>4. TypeInv /\ Protocol /\ Good(L)
    BY <1>3 DEF Place
  <1>5. n \in Nat
    BY <1>4 DEF TypeInv, TypeOK
  <1>6. Reads("returned") /\ ret'.num = n
    BY <1>1, <1>4, <1>5, Results DEF Reads, TypeInv, TypeOK, Rest
  <1>7. /\ call'.op = call.op /\ call'.q = call.q /\ call'.match = call.match
        /\ before' = before /\ job' = job /\ value' = value
        /\ Pairs(L, value)' = Pairs(L, value)
        /\ \A q \in Queues : Cont(L[q], value)' = Cont(L[q], value)
    BY <1>4, <1>6, ReadsKeep
  <1>8. PICK s \in Seq(Node) : s = L[call.q]
    BY <1>3 DEF Place
  <1>9. PICK c \in Seq(Pair) : c = Cont(s, value)
    BY <1>3, <1>8 DEF Place
  <1>10. Len(c) = Len(s) /\ Len(s) \in Nat /\ k = Len(c) + 1 /\ \A i \in 1 .. Len(s) : c[i] = value[s[i]]
    BY <1>1, <1>3, <1>8, <1>9 DEF Place
  <1>11. job.op = "none" => QueueDone(L[call.q])'
    <2>1. SUFFICES ASSUME job.op = "none" PROVE QueueDone(L[call.q])'
      OBVIOUS
    <2>2. QueueLoop(c, k)
      BY <2>1, <1>3, <1>8, <1>9 DEF Place
    <2>3. PICK b \in Seq(Pair) : b = before.queue
      BY <1>4 DEF TypeInv
    <2>4. PICK match : match = call.match
      OBVIOUS
    <2>5. PICK cnt : cnt = n
      OBVIOUS
    <2>6. PICK m \in 0 .. Len(b) : Erased(match, cnt, b, c, k, m)
      BY <2>2, <2>3, <2>4, <2>5, <1>1 DEF QueueLoop
    <2>7. c = Without(match, b) /\ cnt = Cardinality(Positions(match, b))
      BY <2>6, <1>10, ErasedEnd
    <2>8. Meaning(b)' = [s |-> Without(match, b), ret |-> Number(Cardinality(Positions(match, b)))]
      BY <2>4, <1>1, <1>7, MeaningNext
    <2>9. Meaning(before.queue)' = Meaning(b)'
      BY <2>3, <1>7 DEF Meaning
    <2>10. Cont(L[call.q], value)' = c
      BY <1>7, <1>8, <1>9 DEF Cont
    <2> QED BY <2>5, <2>7, <2>8, <2>9, <2>10, <1>1, <1>7 DEF QueueDone
  <1>12. job.op # "none" => MapDone(L[call.q], Pairs(L, value))'
    <2>1. SUFFICES ASSUME job.op # "none" PROVE MapDone(L[call.q], Pairs(L, value))'
      OBVIOUS
    <2>2. job.stage = "change" /\ job.op = "erase" /\ call.q = find_bucket(job.key) /\ job.key \in Keys
      BY <1>1, <1>4, <2>1 DEF Protocol, TypeInv
    <2>3. PICK pair \in before.map :
              /\ call.match = {pair} /\ pair.first = job.key
              /\ \/ n = 0 /\ Pairs(L, value) = before.map /\ \A i \in 1 .. (k - 1) : c[i].first # job.key
                 \/ n = 1 /\ Pairs(L, value) = before.map \ {pair} /\ \A i \in 1 .. Len(c) : c[i].first # job.key
      BY <2>1, <2>2, <1>3, <1>8, <1>9 DEF Place, MapLoop
    <2>4. ~ (n = 0 /\ Pairs(L, value) = before.map /\ \A i \in 1 .. (k - 1) : c[i].first # job.key)
      <3>1. SUFFICES ASSUME Pairs(L, value) = before.map, \A i \in 1 .. (k - 1) : c[i].first # job.key
                     PROVE  FALSE
        OBVIOUS
      <3>2. Buckets(L, value) /\ pair \in Pairs(L, value)
        BY <1>4, <3>1 DEF Good
      <3>3. PICK i \in 1 .. Len(s) : value[s[i]] = pair
        BY <3>2, <2>2, <2>3, <1>8, KeyInBucket
      <3>4. i \in 1 .. (k - 1)
        BY <1>10
      <3> QED BY <3>1, <3>3, <3>4, <2>3, <1>10
    <2>5. ASSUME NEW other \in Pairs(L, value) PROVE other.first # job.key
      <3>1. SUFFICES ASSUME other.first = job.key PROVE FALSE
        OBVIOUS
      <3>2. PICK i \in 1 .. Len(s) : value[s[i]] = other
        BY <3>1, <2>2, <1>4, <1>8, KeyInBucket DEF Good
      <3> QED BY <3>1, <3>2, <2>3, <2>4, <1>10
    <2> QED BY <2>2, <2>3, <2>4, <2>5, <1>6, <1>7 DEF MapDone
  <1> QED BY <1>4, <1>6, <1>11, <1>12, Returns

\* The map calls no other operation of its buckets.
LEMMA OnlyQueue ==
    ASSUME TypeInv, Protocol, ~ Idle, call.op \in {"erase_idx", "dequeue", "top", "destroy"}
    PROVE  job.op = "none" /\ call.q = Plain
  BY DEF Protocol, TypeInv

LEMMA EraseIdxWalkInv == ASSUME Inv, EraseIdxWalk, Rest PROVE Inv'
  <1>1. ~ Idle /\ call.at = "loop" /\ call.op = "erase_idx" /\ curr # NULL /\ n # call.index
        /\ prev' = curr /\ curr' = next[curr] /\ n' = n + 1 /\ UNCHANGED <<heap, objects, call, ret>>
    BY DEF EraseIdxWalk, In, Advance, Idle
  <1>2. PICK L : \E k : Place(L, k)
    BY <1>1, HasPlace
  <1>3. PICK k : Place(L, k)
    BY <1>2
  <1>4. TypeInv /\ Protocol /\ Good(L)
    BY <1>3 DEF Place
  <1>5. k + 1 \in 1 .. (Len(L[call.q]) + 1) /\ curr' = At(L[call.q], k + 1) /\ prev' = At(L[call.q], (k + 1) - 1)
    BY <1>1, <1>3 DEF Place
  <1>6. Reads("loop")
    <2>1. call' = [call EXCEPT !.at = "loop"]
      BY <1>1, <1>4 DEF TypeInv
    <2>2. n' \in Nat
      BY <1>1, <1>4 DEF TypeInv, TypeOK
    <2> QED BY <1>1, <1>3, <2>1, <2>2 DEF Reads, Place, TypeInv, TypeOK, Rest
  <1>7. Cont(L[call.q], value)' = Cont(L[call.q], value) /\ call' = call /\ before' = before /\ job.op = "none"
    BY <1>1, <1>4, OnlyQueue DEF heap, Cont, Rest
  <1>8. /\ Cont(L[call.q], value) = before.queue /\ k = n + 1 /\ n <= call.index /\ n \in Nat /\ call.index \in Nat
    BY <1>1, <1>3, <1>7 DEF Place, QueueLoop, TypeInv, TypeOK
  <1>9. k + 1 = n' + 1 /\ n' <= call.index
    BY <1>1, <1>8
  <1>10. QueueLoop(Cont(L[call.q], value), k + 1)'
    BY <1>1, <1>7, <1>8, <1>9 DEF QueueLoop
  <1> QED BY <1>4, <1>5, <1>6, <1>7, <1>10, GoesOn

LEMMA EraseIdxMissInv == ASSUME Inv, EraseIdxMiss, Rest PROVE Inv'
  <1>1. ~ Idle /\ call.at = "loop" /\ call.op = "erase_idx" /\ curr = NULL
        /\ ret' = Success(FALSE) /\ call' = [call EXCEPT !.at = "returned"]
        /\ UNCHANGED <<heap, objects, curr, prev, n>>
    BY DEF EraseIdxMiss, In, Return, Idle
  <1>2. PICK L : \E k : Place(L, k)
    BY <1>1, HasPlace
  <1>3. PICK k : Place(L, k)
    BY <1>2
  <1>4. TypeInv /\ Protocol /\ Good(L)
    BY <1>3 DEF Place
  <1>5. Reads("returned")
    BY <1>1, <1>4, Results DEF Reads, TypeInv, TypeOK, Rest
  <1>6. /\ call'.op = call.op /\ call'.q = call.q /\ call'.index = call.index
        /\ before' = before /\ job' = job /\ \A q \in Queues : Cont(L[q], value)' = Cont(L[q], value)
    BY <1>4, <1>5, ReadsKeep
  <1>7. job.op = "none"
    BY <1>1, <1>4, OnlyQueue
  <1>8. PICK c \in Seq(Pair) : c = Cont(L[call.q], value)
    BY <1>3 DEF Place
  <1>9. /\ c = before.queue /\ k = n + 1 /\ n <= call.index /\ n \in Nat /\ call.index \in Nat
        /\ k = Len(c) + 1
    BY <1>1, <1>3, <1>7, <1>8 DEF Place, QueueLoop, TypeInv, TypeOK
  <1>10. ~ (call.index < Len(c))
    BY <1>9
  <1>11. Meaning(c)' = [s |-> c, ret |-> Success(FALSE)]
    BY <1>1, <1>6, <1>10, MeaningNext
  <1>12. Meaning(before.queue)' = Meaning(c)'
    BY <1>6, <1>9 DEF Meaning
  <1>13. Cont(L[call.q], value)' = c
    BY <1>4, <1>6, <1>8 DEF TypeInv, Cont
  <1>14. QueueDone(L[call.q])'
    BY <1>1, <1>6, <1>11, <1>12, <1>13 DEF QueueDone
  <1> QED BY <1>4, <1>5, <1>7, <1>14, Returns

\* top(), and dequeue() of the empty queue.
LEMMA LooksInv ==
    ASSUME Inv, Rest, In("top") \/ (In("dequeue") /\ curr = NULL),
           Return(IF curr = NULL THEN Nothing ELSE Value(value[curr])), UNCHANGED <<heap, objects>>
    PROVE  Inv'
  <1>1. ~ Idle /\ call.at = "loop" /\ call.op \in {"dequeue", "top"} /\ (call.op = "dequeue" => curr = NULL)
        /\ ret' = (IF curr = NULL THEN Nothing ELSE Value(value[curr])) /\ call' = [call EXCEPT !.at = "returned"]
        /\ UNCHANGED <<heap, objects, curr, prev, n>>
    BY DEF In, Return, Idle
  <1>2. PICK L : \E k : Place(L, k)
    BY <1>1, HasPlace
  <1>3. PICK k : Place(L, k)
    BY <1>2
  <1>4. TypeInv /\ Protocol /\ Good(L)
    BY <1>3 DEF Place
  <1>5. PICK c \in Seq(Pair) : c = Cont(L[call.q], value)
    BY <1>3 DEF Place
  <1>6. job.op = "none"
    BY <1>1, <1>4, OnlyQueue
  <1>7. /\ c = before.queue /\ k = 1 /\ Len(c) \in Nat
        /\ curr = NULL <=> k = Len(c) + 1
        /\ curr # NULL => value[curr] = c[k] /\ value[curr] \in Pair
    BY <1>1, <1>3, <1>5, <1>6 DEF Place, QueueLoop
  <1>8. curr = NULL <=> c = <<>>
    BY <1>7
  <1>9. ret' \in [ok : BOOLEAN, num : Nat, val : Pair \cup {Blank}]
    BY <1>1, <1>7, Results
  <1>10. Reads("returned")
    BY <1>1, <1>4, <1>9 DEF Reads, TypeInv, TypeOK, Rest
  <1>11. /\ call'.op = call.op /\ call'.q = call.q
         /\ before' = before /\ job' = job /\ \A q \in Queues : Cont(L[q], value)' = Cont(L[q], value)
    BY <1>4, <1>10, ReadsKeep
  <1>12. Meaning(c)' = [s |-> c, ret |-> IF c = <<>> THEN Nothing ELSE Value(Head(c))]
    <2>1. CASE call.op = "top"
      BY <2>1, <1>11, MeaningNext
    <2>2. CASE call.op = "dequeue"
      BY <2>2, <1>1, <1>8, <1>11, MeaningNext
    <2> QED BY <2>1, <2>2, <1>1
  <1>13. ret' = IF c = <<>> THEN Nothing ELSE Value(Head(c))
    <2>1. c # <<>> => Head(c) = c[1]
      BY TailIs
    <2> QED BY <2>1, <1>1, <1>7, <1>8
  <1>14. Meaning(before.queue)' = Meaning(c)'
    BY <1>7, <1>11 DEF Meaning
  <1>15. Cont(L[call.q], value)' = c
    BY <1>4, <1>5, <1>11 DEF TypeInv, Cont
  <1>16. QueueDone(L[call.q])'
    BY <1>1, <1>11, <1>12, <1>13, <1>14, <1>15 DEF QueueDone
  <1> QED BY <1>4, <1>6, <1>10, <1>16, Returns

-----------------------------------------------------------------------------
(* Steps that change a list.                                               *)

\* A step of a queue operation that goes on in its loop or returns.
Works(a) ==
    /\ ~ Idle /\ call.at = "loop"
    /\ call' = [call EXCEPT !.at = a]
    /\ UNCHANGED <<item_count, job, held, before>>
    /\ curr' \in Node \cup {NULL} /\ prev' \in Node \cup {NULL} /\ n' \in Nat
    /\ ret' \in [ok : BOOLEAN, num : Nat, val : Pair \cup {Blank}]

\* The call remains the one it was.
LEMMA WorksKeep ==
    ASSUME TypeInv, Protocol, NEW a \in {"loop", "returned"}, Works(a)
    PROVE  /\ Protocol' /\ ~ Idle' /\ call'.op = call.op /\ call'.q = call.q /\ call'.match = call.match
           /\ call'.index = call.index /\ call'.at = a /\ before' = before /\ job' = job
           /\ held' = held /\ item_count' = item_count
           /\ TypeOK' => TypeInv'
  <1>1. /\ call \in [op : Ops \cup {"none"}, q : Queues, match : SUBSET Pair, index : Nat,
                     at : {"loop", "returned", "answered", "fault"}]
        /\ call' = [call EXCEPT !.at = a] /\ UNCHANGED <<item_count, job, held, before>>
        /\ ~ Idle /\ call.at = "loop"
    BY DEF TypeInv, Works
  <1>2. /\ call'.op = call.op /\ call'.q = call.q /\ call'.match = call.match
        /\ call'.index = call.index /\ call'.at = a
        /\ call' \in [op : Ops \cup {"none"}, q : Queues, match : SUBSET Pair, index : Nat,
                      at : {"loop", "returned", "answered", "fault"}]
    BY <1>1
  <1>3. ~ Idle'
    BY <1>1, <1>2 DEF Idle
  <1>4. TypeOK' => TypeInv'
    BY <1>1, <1>2 DEF TypeInv, Works
  <1>5. Protocol'
    <2>1. Idle' => call' = NoCall' /\ job'.op = "none"
      BY <1>3
    <2>2. ~ Idle' /\ job'.op = "none" =>
             /\ call'.q = Plain /\ call'.at # "answered"
             /\ call'.op = "insert" => \E pair \in Pair : call'.match = {pair}
      BY <1>1, <1>2 DEF Protocol
    <2>3. job'.op # "none" =>
          /\ ~ Idle' /\ call'.q = find_bucket(job'.key)
          /\ job'.stage = "look" => call'.op = "find" /\ call'.match = WithKey(job'.key) /\ call'.at # "fault"
          /\ job'.stage = "change" =>
                \/ job'.op = "insert" /\ call'.op = "insert" /\ call'.match = {[first |-> job'.key, second |-> job'.val]}
                \/ /\ job'.op = "erase" /\ call'.op = "erase_item"
                   /\ \E pair \in Pair : pair.first = job'.key /\ call'.match = {pair}
      BY <1>1, <1>2, <1>3 DEF Protocol
    <2> QED BY <2>1, <2>2, <2>3 DEF Protocol, find_bucket, WithKey
  <1> QED BY <1>1, <1>2, <1>3, <1>4, <1>5

\* The other elements of a sequence remain.
LEMMA RemovedHas ==
    ASSUME NEW S, NEW s \in Seq(S), NEW k \in 1 .. Len(s), NEW j \in 1 .. Len(s), j # k
    PROVE  \E i \in 1 .. Len(Removed(s, k)) : Removed(s, k)[i] = s[j]
  <1>1. /\ Len(s) \in Nat /\ Len(Removed(s, k)) = Len(s) - 1
        /\ \A i \in 1 .. (Len(s) - 1) : Removed(s, k)[i] = IF i < k THEN s[i] ELSE s[i + 1]
    BY RemovedFacts
  <1>2. PICK i \in 1 .. (Len(s) - 1) : i = IF j < k THEN j ELSE j - 1
    BY <1>1
  <1>3. Removed(s, k)[i] = s[j]
    BY <1>1, <1>2
  <1> QED BY <1>1, <1>2, <1>3

\* Unlinked: before the step, and after it.
CanUnlink(L, k, q) ==
    /\ Place(L, k) /\ curr # NULL /\ call.op # "destroy" /\ q = call.q
    /\ job.op # "none" => job.op = "erase" /\ value[curr].first = job.key

Unlinks(L, k, q, M) ==
    /\ TypeInv' /\ Shape(M)' /\ Buckets(M, value)' /\ Counted(M)' /\ Pointer(M)'
    /\ M[q] = Removed(L[q], k)
    /\ Cont(M[q], value)' = Removed(Cont(L[q], value), k)
    /\ q # Plain => Cont(M[Plain], value)' = Cont(L[Plain], value)
    /\ Pairs(M, value)' = IF q = Plain THEN Pairs(L, value) ELSE Pairs(L, value) \ {value[curr]}

LEMMA UnlinkedKeeps ==
    ASSUME NEW L, NEW k, NEW q, CanUnlink(L, k, q), Unlinked, NEW a \in {"loop", "returned"}, Works(a),
           NEW M, M = [L EXCEPT ![q] = Removed(L[q], k)]
    PROVE  Unlinks(L, k, q, M)
  <1> USE DEF CanUnlink
  <1>1. TypeInv /\ Protocol /\ Good(L) /\ q \in Queues /\ call.at = "loop" /\ ~ Idle
    BY DEF Place, Works
  <1>2. /\ Linked(L, Roots, next, live) /\ (\A p \in live : value[p] \in Pair) /\ Buckets(L, value)
        /\ \A r \in Queues : ~ (Destroying /\ r = call.q) => size[r] = Len(L[r])
    BY <1>1 DEF Good, Shape
  <1>3. /\ k \in 1 .. Len(L[q]) /\ L[q] \in Seq(Node) /\ Len(L[q]) \in Nat /\ curr = L[q][k]
        /\ curr \in Node /\ curr \in live /\ prev = At(L[q], k - 1) /\ prev \in Node \cup {NULL}
        /\ next[curr] \in Node \cup {NULL}
    BY DEF Place
  <1>4. /\ call'.op = call.op /\ call'.q = call.q /\ call'.at = a /\ ~ Idle' /\ before' = before
        /\ job' = job /\ held' = held /\ item_count' = item_count /\ (TypeOK' => TypeInv')
    BY <1>1, WorksKeep
  <1>5. ~ Destroying /\ ~ Destroying'
    BY <1>4 DEF Destroying
  <1>6. /\ head \in [Queues -> Node \cup {NULL}] /\ next \in [Node -> Node \cup {NULL, Garbage}]
        /\ value \in [Node -> Pair \cup {Blank}] /\ size \in [Queues -> Nat] /\ live \subseteq Node
        /\ item_count \in Nat
    BY <1>1 DEF TypeInv, TypeOK
  <1>7. Roots = head
    BY <1>5, <1>6 DEF Roots
  <1>8. /\ head' = IF prev = NULL THEN [head EXCEPT ![q] = next[curr]] ELSE head
        /\ next' = [p \in Node |-> IF p \in {curr} THEN Garbage
                       ELSE (IF prev = NULL THEN next ELSE [next EXCEPT ![prev] = next[curr]])[p]]
        /\ live' = live \ {curr}
        /\ value' = [p \in Node |-> IF p \in {curr} THEN Blank ELSE value[p]]
        /\ size' = [size EXCEPT ![q] = @ - 1]
    BY DEF Unlinked, FreedFields
  <1>9. size[q] = Len(L[q]) /\ size[q] - 1 \in Nat
    BY <1>2, <1>3, <1>5, <1>1
  <1>10. TypeOK'
    <2>1. head' \in [Queues -> Node \cup {NULL}]
      BY <1>1, <1>3, <1>6, <1>8
    <2>2. next' \in [Node -> Node \cup {NULL, Garbage}]
      <3>1. PICK links : links = IF prev = NULL THEN next ELSE [next EXCEPT ![prev] = next[curr]]
        OBVIOUS
      <3>2. links \in [Node -> Node \cup {NULL, Garbage}]
        BY <3>1, <1>3, <1>6
      <3>3. next' = [p \in Node |-> IF p \in {curr} THEN Garbage ELSE links[p]]
        BY <3>1, <1>8
      <3> QED BY <3>2, <3>3
    <2>3. value' \in [Node -> Pair \cup {Blank}] /\ live' \subseteq Node
      BY <1>6, <1>8
    <2>4. size' \in [Queues -> Nat]
      BY <1>1, <1>6, <1>8, <1>9
    <2> QED BY <2>1, <2>2, <2>3, <2>4, <1>4, <1>6 DEF TypeOK, Works
  <1>11. PICK hd : hd = head
    OBVIOUS
  <1>12. PICK nx : nx = next
    OBVIOUS
  <1>13. PICK lv : lv = live
    OBVIOUS
  <1>14. PICK val : val = value
    OBVIOUS
  <1>15. PICK c : c = curr
    OBVIOUS
  <1>16. PICK pv : pv = prev
    OBVIOUS
  <1>17. PICK hd2 : hd2 = head'
    OBVIOUS
  <1>18. PICK nx2 : nx2 = next'
    OBVIOUS
  <1>19. PICK lv2 : lv2 = live'
    OBVIOUS
  <1>20. PICK val2 : val2 = value'
    OBVIOUS
  <1>21. Linked(L, hd, nx, lv) /\ q \in Queues /\ k \in 1 .. Len(L[q]) /\ c = L[q][k]
    BY <1>1, <1>2, <1>3, <1>7, <1>11, <1>12, <1>13, <1>15
  <1>22. Linked(M, hd2, nx2, lv2)
    <2>1. hd \in [Queues -> Node \cup {NULL}] /\ nx \in [Node -> Node \cup {NULL, Garbage}]
          /\ pv = At(L[q], k - 1) /\ lv2 = lv \ {c}
      BY <1>3, <1>6, <1>8, <1>11, <1>12, <1>13, <1>15, <1>16, <1>19
    <2>2. hd2 = IF pv = NULL THEN [hd EXCEPT ![q] = nx[c]] ELSE hd
      BY <1>8, <1>11, <1>12, <1>15, <1>16, <1>17
    <2>3. nx2 = FreedLinks(nx, pv, c)
      <3>1. next' = FreedLinks(next, prev, curr)
        BY <1>8, Zenon DEF FreedLinks
      <3> QED BY <3>1, <1>12, <1>15, <1>16, <1>18
    <2>4. Linked([L EXCEPT ![q] = Removed(L[q], k)], hd2, nx2, lv2)
      BY ONLY <1>21, <2>1, <2>2, <2>3, LinkedRemove
    <2> QED BY <2>4
  <1>23. /\ Buckets(M, val2) /\ val2 \in [Node -> Pair \cup {Blank}]
         /\ \A p \in lv \ {c} : val2[p] = val[p]
         /\ Cont(M[q], val2) = Removed(Cont(L[q], val), k)
         /\ \A r \in Queues : r # q => Cont(M[r], val2) = Cont(L[r], val)
         /\ Pairs(M, val2) = IF q = Plain THEN Pairs(L, val) ELSE Pairs(L, val) \ {val[c]}
    <2>1. val \in [Node -> Pair \cup {Blank}] /\ Filled(lv, val) /\ Buckets(L, val)
      BY <1>2, <1>6, <1>13, <1>14 DEF Filled
    <2>2. val2 = FreedValues(val, c)
      <3>1. value' = FreedValues(value, curr)
        BY <1>8, Zenon DEF FreedValues
      <3> QED BY <3>1, <1>14, <1>15, <1>20
    <2>3. WithoutNode(L, lv, val, q, k, c, M, val2)
      BY ONLY <1>21, <2>1, <2>2, M = [L EXCEPT ![q] = Removed(L[q], k)], ValuesRemove
    <2> QED BY ONLY <2>3 DEF WithoutNode
  <1>24. M[q] = Removed(L[q], k) /\ \A r \in Queues : r # q => M[r] = L[r]
    BY <1>1, <1>2 DEF Linked
  <1>25. Shape(M)'
    <2>1. Roots' = head'
      BY <1>5, <1>10 DEF Roots, TypeOK
    <2>2. Linked(M, Roots', next', live')
      BY <2>1, <1>17, <1>18, <1>19, <1>22
    <2>3. Linked(M, Roots, next, live)'
      BY <2>2 DEF Linked, IsList
    <2>4. \A p \in live' : value'[p] \in Pair
      BY <1>2, <1>8, <1>13, <1>14, <1>15, <1>20, <1>23
    <2>5. \A r \in Queues : size'[r] = Len(M[r])
      <3>1. Len(Removed(L[q], k)) = Len(L[q]) - 1
        BY <1>3, RemovedFacts
      <3>2. size'[q] = Len(M[q])
        BY <3>1, <1>1, <1>6, <1>8, <1>9, <1>24
      <3>3. \A r \in Queues : r # q => size'[r] = Len(M[r])
        BY <1>2, <1>5, <1>6, <1>8, <1>24
      <3> QED BY <3>2, <3>3
    <2> QED BY <2>3, <2>4, <2>5 DEF Shape
  <1>26. Buckets(M, value)'
    BY <1>20, <1>23 DEF Buckets
  <1>27. Counted(M)'
    BY <1>1, <1>4 DEF Good, Counted
  <1>28. Pointer(M)'
    <2>1. SUFFICES ASSUME held.ptr # NULL, ~ (job.op = "erase" /\ job.key = held.key)
                   PROVE  \E i \in 1 .. Len(M[find_bucket(held.key)]) :
                             /\ M[find_bucket(held.key)][i] = held.ptr
                             /\ value'[held.ptr].first = held.key
      BY <1>4 DEF Pointer, find_bucket
    <2>2. PICK b \in Bucket : b = find_bucket(held.key)
      BY <1>1, BucketQueue DEF TypeInv
    <2>3. PICK j \in 1 .. Len(L[b]) : L[b][j] = held.ptr /\ value[held.ptr].first = held.key
      BY <2>1, <2>2, <1>1 DEF Good, Pointer
    <2>4. b \in Queues /\ held.ptr \in live
      BY <2>3, <1>2, BucketQueue, LinkedNode
    <2>5. held.ptr # curr
      <3>1. CASE job.op = "none"
        <4>1. q = Plain /\ b # q
          BY <3>1, <1>1, BucketQueue DEF Protocol
        <4> QED BY <4>1, <2>3, <2>4, <1>1, <1>2, <1>3 DEF Linked
      <3>2. CASE job.op # "none"
        BY <3>2, <2>1, <2>3
      <3> QED BY <3>1, <3>2
    <2>6. value'[held.ptr] = value[held.ptr]
      BY <2>4, <2>5, <1>13, <1>14, <1>15, <1>20, <1>23
    <2>7. \E i \in 1 .. Len(M[b]) : M[b][i] = held.ptr
      <3>1. CASE b = q
        <4>1. j # k
          BY <3>1, <2>3, <2>5, <1>3
        <4>2. \E i \in 1 .. Len(Removed(L[q], k)) : Removed(L[q], k)[i] = L[q][j]
          BY <4>1, <3>1, <1>3, RemovedHas
        <4> QED BY <4>2, <3>1, <2>3, <1>24
      <3>2. CASE b # q
        BY <3>2, <2>3, <2>4, <1>24
      <3> QED BY <3>1, <3>2
    <2> QED BY <2>2, <2>3, <2>6, <2>7
  <1>29. /\ Cont(M[q], value)' = Cont(M[q], val2) /\ Cont(M[Plain], value)' = Cont(M[Plain], val2)
         /\ Pairs(M, value)' = Pairs(M, val2)
    BY <1>20 DEF Cont, Pairs
  <1> HIDE DEF Cont, Pairs
  <1>30. /\ Cont(M[q], value)' = Removed(Cont(L[q], value), k)
         /\ q # Plain => Cont(M[Plain], value)' = Cont(L[Plain], value)
         /\ Pairs(M, value)' = IF q = Plain THEN Pairs(L, value) ELSE Pairs(L, value) \ {value[curr]}
    BY <1>14, <1>15, <1>23, <1>29, BucketQueue
  <1> QED BY <1>4, <1>10, <1>24, <1>25, <1>26, <1>27, <1>28, <1>30 DEF Unlinks

LEMMA EraseItemHitInv == ASSUME Inv, EraseItemHit, Rest PROVE Inv'
  <1>1. ~ Idle /\ call.at = "loop" /\ call.op = "erase_item" /\ curr # NULL /\ value[curr] \in call.match
        /\ Unlinked /\ curr' = next[curr] /\ n' = n + 1 /\ UNCHANGED <<call, prev, ret>>
    BY DEF EraseItemHit, In, Idle
  <1>2. PICK L : \E k : Place(L, k)
    BY <1>1, HasPlace
  <1>3. PICK k : Place(L, k)
    BY <1>2
  <1>4. TypeInv /\ Protocol /\ Good(L) /\ n \in Nat
    BY <1>3 DEF Place, TypeInv, TypeOK
  <1>5. PICK q \in Queues : q = call.q
    BY <1>3 DEF Place
  <1>6. PICK s \in Seq(Node) : s = L[q]
    BY <1>3, <1>5 DEF Place
  <1>7. PICK c \in Seq(Pair) : c = Cont(s, value)
    BY <1>3, <1>5, <1>6 DEF Place
  <1>8. /\ k \in 1 .. Len(s) /\ k \in Nat /\ Len(c) = Len(s) /\ Len(s) \in Nat
        /\ curr = s[k] /\ value[curr] = c[k] /\ c[k] \in Pair
        /\ next[curr] = At(s, k + 1) /\ prev = At(s, k - 1)
        /\ next[curr] \in Node \cup {NULL} /\ prev \in Node \cup {NULL}
        /\ \A i \in 1 .. Len(s) : c[i] = value[s[i]]
    BY <1>1, <1>3, <1>5, <1>6, <1>7 DEF Place
  <1>9. Works("loop")
    <2>1. call' = [call EXCEPT !.at = "loop"]
      BY <1>1, <1>4 DEF TypeInv
    <2>2. n' \in Nat
      BY <1>1, <1>4
    <2> QED BY <2>1, <2>2, <1>1, <1>4, <1>8 DEF Works, Rest, TypeInv, TypeOK
  <1>10. job.op # "none" =>
           /\ job.stage = "change" /\ job.op = "erase" /\ q = find_bucket(job.key) /\ q \in Bucket
           /\ value[curr].first = job.key
           /\ \E pair \in before.map : call.match = {pair} /\ pair.first = job.key /\ value[curr] = pair
                 /\ n = 0 /\ Pairs(L, value) = before.map
    <2>1. SUFFICES ASSUME job.op # "none"
                   PROVE  /\ job.stage = "change" /\ job.op = "erase" /\ q = find_bucket(job.key) /\ q \in Bucket
                          /\ value[curr].first = job.key
                          /\ \E pair \in before.map :
                                /\ call.match = {pair} /\ pair.first = job.key /\ value[curr] = pair
                                /\ n = 0 /\ Pairs(L, value) = before.map
      OBVIOUS
    <2>2. job.stage = "change" /\ job.op = "erase" /\ call.q = find_bucket(job.key) /\ job.key \in Keys
      BY <1>1, <1>4, <2>1 DEF Protocol, TypeInv
    <2>3. PICK pair \in before.map :
              /\ call.match = {pair} /\ pair.first = job.key
              /\ \/ n = 0 /\ Pairs(L, value) = before.map /\ \A i \in 1 .. (k - 1) : c[i].first # job.key
                 \/ n = 1 /\ Pairs(L, value) = before.map \ {pair} /\ \A i \in 1 .. Len(c) : c[i].first # job.key
      BY <2>1, <2>2, <1>3, <1>5, <1>6, <1>7 DEF Place, MapLoop
    <2>4. value[curr] = pair /\ c[k].first = job.key
      BY <2>3, <1>1, <1>8
    <2>5. n = 0 /\ Pairs(L, value) = before.map
      BY <2>3, <2>4, <1>8
    <2> QED BY <2>2, <2>3, <2>4, <2>5, <1>5, BucketQueue
  <1>11. PICK M : M = [L EXCEPT ![q] = Removed(L[q], k)]
    OBVIOUS
  <1>12.   /\ TypeInv' /\ Shape(M)' /\ Buckets(M, value)' /\ Counted(M)' /\ Pointer(M)'
           /\ M[q] = Removed(L[q], k)
           /\ Cont(M[q], value)' = Removed(Cont(L[q], value), k)
           /\ q # Plain => Cont(M[Plain], value)' = Cont(L[Plain], value)
           /\ Pairs(M, value)' = IF q = Plain THEN Pairs(L, value) ELSE Pairs(L, value) \ {value[curr]}
    <2>1. CanUnlink(L, k, q)
      BY <1>1, <1>3, <1>5, <1>10 DEF CanUnlink
    <2>2. Unlinks(L, k, q, M)
      BY <2>1, <1>1, <1>9, <1>11, UnlinkedKeeps
    <2> QED BY <2>2 DEF Unlinks
  <1>13. /\ Protocol' /\ ~ Idle' /\ call'.op = call.op /\ call'.q = call.q /\ call'.match = call.match
         /\ call'.at = "loop" /\ before' = before /\ job' = job
    BY <1>4, <1>9, WorksKeep
  <1>14. PICK t : t = Removed(s, k)
    OBVIOUS
  <1>15. k \in 1 .. (Len(t) + 1) /\ curr' = At(t, k) /\ prev' = At(t, k - 1)
    <2>1. Len(t) = Len(s) - 1 /\ \A i \in Nat : At(t, i) = At(s, IF i < k THEN i ELSE i + 1)
      BY <1>8, <1>14, RemovedFacts
    <2>2. k - 1 \in Nat /\ k - 1 < k /\ ~ (k < k)
      BY <1>8
    <2> QED BY <2>1, <2>2, <1>1, <1>8
  <1>16. PICK d : d = Removed(c, k)
    OBVIOUS
  <1>17. Cont(M[q], value)' = d /\ M[q] = t
    BY <1>6, <1>7, <1>12, <1>14, <1>16
  <1>18. job.op = "none" => q = Plain /\ QueueLoop(d, k)'
    <2>1. SUFFICES ASSUME job.op = "none" PROVE q = Plain /\ QueueLoop(d, k)'
      OBVIOUS
    <2>2. QueueLoop(c, k) /\ q = Plain
      BY <2>1, <1>3, <1>5, <1>6, <1>7 DEF Place
    <2>3. PICK b \in Seq(Pair) : b = before.queue
      BY <1>4 DEF TypeInv
    <2>4. PICK match : match = call.match
      OBVIOUS
    <2>5. PICK cnt : cnt = n
      OBVIOUS
    <2>6. PICK m \in 0 .. Len(b) : Erased(match, cnt, b, c, k, m)
      BY <2>2, <2>3, <2>4, <2>5, <1>1 DEF QueueLoop
    <2>7. k \in 1 .. Len(c) /\ c[k] \in match
      BY <2>4, <1>1, <1>8
    <2>8. m + 1 \in 0 .. Len(b) /\ Erased(match, cnt + 1, b, d, k, m + 1)
      BY <2>6, <2>7, <1>16, ErasedHit
    <2>9. (\E x \in 0 .. Len(before.queue) : Erased(call.match, n, before.queue, d, k, x))'
      BY <2>3, <2>4, <2>5, <2>8, <1>1, <1>13
    <2> QED BY <2>2, <2>9, <1>1, <1>13 DEF QueueLoop
  <1>19. job.op # "none" => MapLoop(d, Pairs(M, value), k)'
    <2>1. SUFFICES ASSUME job.op # "none" PROVE MapLoop(d, Pairs(M, value), k)'
      OBVIOUS
    <2>2. PICK pair \in before.map :
             /\ call.match = {pair} /\ pair.first = job.key /\ value[curr] = pair
             /\ n = 0 /\ Pairs(L, value) = before.map
      BY <2>1, <1>10
    <2>3. Pairs(M, value)' = before.map \ {pair} /\ n' = 1
      BY <2>1, <2>2, <1>1, <1>10, <1>12, BucketQueue
    <2>4. ASSUME NEW i \in 1 .. Len(d) PROVE d[i].first # job.key
      <3>1. /\ Len(d) = Len(c) - 1
            /\ \A x \in 1 .. (Len(c) - 1) : d[x] = IF x < k THEN c[x] ELSE c[x + 1]
        <4>1. k \in 1 .. Len(c)
          BY <1>8
        <4> QED BY <4>1, <1>16, RemovedFacts
      <3>2. PICK j \in 1 .. Len(s) : j # k /\ d[i] = c[j]
        <4>1. i \in 1 .. (Len(c) - 1) /\ i \in Nat
          BY <3>1, <1>8
        <4>2. CASE i < k
          BY <4>1, <4>2, <3>1, <1>8
        <4>3. CASE ~ (i < k)
          <5>1. i + 1 \in 1 .. Len(s) /\ i + 1 # k /\ d[i] = c[i + 1]
            BY <4>1, <4>3, <3>1, <1>8
          <5> QED BY <5>1
        <4> QED BY <4>2, <4>3
      <3>3. c[j].first # c[k].first
        BY <3>2, <2>1, <1>4, <1>6, <1>8, <1>10, SMTT(30) DEF Good, Buckets
      <3> QED BY <3>2, <3>3, <2>2, <1>8
    <2>5. job.stage = "change" /\ job.op = "erase"
      BY <2>1, <1>10
    <2> QED BY <2>2, <2>3, <2>4, <2>5, <1>13 DEF MapLoop
  <1>20. Progress(M)'
    <2>1. job.op # "none" => Cont(M[Plain], value)' = before'.queue
      <3>1. SUFFICES ASSUME job.op # "none" PROVE Cont(M[Plain], value)' = before'.queue
        OBVIOUS
      <3>2. q # Plain /\ Cont(L[Plain], value) = before.queue
        BY <3>1, <1>1, <1>4, <1>10, BucketQueue DEF Good, Progress
      <3> QED BY <3>2, <1>12, <1>13
    <2>2. job.op = "none" => Pairs(M, value)' = before'.map
      BY <1>1, <1>4, <1>12, <1>13, <1>18 DEF Good, Progress
    <2>3. (\E x \in 1 .. (Len(M[call.q]) + 1) :
              /\ curr = At(M[call.q], x) /\ prev = At(M[call.q], x - 1)
              /\ job.op = "none" => QueueLoop(Cont(M[Plain], value), x)
              /\ job.op # "none" => MapLoop(Cont(M[call.q], value), Pairs(M, value), x))'
      <3>1. call'.q = q /\ job' = job
        BY <1>5, <1>13
      <3>2. job.op = "none" => QueueLoop(Cont(M[Plain], value), k)'
        BY <1>17, <1>18
      <3>3. job.op # "none" => MapLoop(Cont(M[call.q], value), Pairs(M, value), k)'
        BY <3>1, <1>17, <1>19
      <3>4. k \in 1 .. (Len(M[q]) + 1) /\ curr' = At(M[q], k) /\ prev' = At(M[q], k - 1)
        BY <1>15, <1>17
      <3> QED BY <3>1, <3>2, <3>3, <3>4
    <2> QED BY <2>1, <2>2, <2>3, <1>13 DEF Progress
  <1> QED BY <1>12, <1>13, <1>20 DEF Inv, Good

\* erase_idx() and dequeue() take one node out and return.
LEMMA TakesInv ==
    ASSUME Inv, Rest, (In("erase_idx") /\ n = call.index) \/ In("dequeue"), curr # NULL,
           Unlinked, Return(IF call.op = "dequeue" THEN Value(value[curr]) ELSE Success(TRUE))
    PROVE  Inv'
  <1>1. ~ Idle /\ call.at = "loop" /\ call.op \in {"erase_idx", "dequeue"} /\ (call.op = "erase_idx" => n = call.index)
        /\ ret' = (IF call.op = "dequeue" THEN Value(value[curr]) ELSE Success(TRUE))
        /\ call' = [call EXCEPT !.at = "returned"] /\ UNCHANGED <<curr, prev, n>>
    BY DEF In, Return, Idle
  <1>2. PICK L : \E k : Place(L, k)
    BY <1>1, HasPlace
  <1>3. PICK k : Place(L, k)
    BY <1>2
  <1>4. TypeInv /\ Protocol /\ Good(L) /\ n \in Nat
    BY <1>3 DEF Place, TypeInv, TypeOK
  <1>5. job.op = "none" /\ call.q = Plain /\ Plain \in Queues
    BY <1>1, <1>4, OnlyQueue, BucketQueue
  <1>6. PICK s \in Seq(Node) : s = L[Plain]
    BY <1>3, <1>5 DEF Place
  <1>7. PICK c \in Seq(Pair) : c = Cont(s, value)
    BY <1>3, <1>5, <1>6 DEF Place
  <1>8. /\ k \in 1 .. Len(s) /\ k \in Nat /\ Len(c) = Len(s) /\ Len(s) \in Nat
        /\ value[curr] = c[k] /\ c[k] \in Pair /\ QueueLoop(c, k)
    BY <1>3, <1>5, <1>6, <1>7 DEF Place
  <1>9. ret' \in [ok : BOOLEAN, num : Nat, val : Pair \cup {Blank}]
    BY <1>1, <1>8, Results
  <1>10. Works("returned")
    BY <1>1, <1>4, <1>9 DEF Works, Rest, TypeInv, TypeOK
  <1>11. PICK M : M = [L EXCEPT ![Plain] = Removed(L[Plain], k)]
    OBVIOUS
  <1>12.   /\ TypeInv' /\ Shape(M)' /\ Buckets(M, value)' /\ Counted(M)' /\ Pointer(M)'
           /\ Cont(M[Plain], value)' = Removed(Cont(L[Plain], value), k)
           /\ Pairs(M, value)' = Pairs(L, value)
    <2>1. CanUnlink(L, k, Plain)
      BY <1>1, <1>3, <1>5 DEF CanUnlink
    <2>2. Unlinks(L, k, Plain, M)
      BY <2>1, <1>10, <1>11, UnlinkedKeeps
    <2> QED BY <2>2 DEF Unlinks
  <1>13. /\ Protocol' /\ ~ Idle' /\ call'.op = call.op /\ call'.q = call.q /\ call'.index = call.index
         /\ call'.at = "returned" /\ before' = before /\ job' = job
    BY <1>4, <1>10, WorksKeep
  <1>14. c = before.queue
    BY <1>1, <1>8 DEF QueueLoop
  <1>15. Meaning(c)' = [s |-> Removed(c, k), ret |-> ret']
    <2>1. CASE call.op = "erase_idx"
      <3>1. k = call.index + 1
        BY <2>1, <1>1, <1>8 DEF QueueLoop
      <3>2. call.index < Len(c) /\ call.index \in Nat
        BY <3>1, <1>1, <1>4, <1>8, <2>1
      <3>3. RemoveAt(c, call.index + 1) = Removed(c, k)
        BY <3>1, <1>8, RemoveAtIs
      <3>4. Meaning(c)' = [s |-> RemoveAt(c, call.index + 1), ret |-> Success(TRUE)]
        BY <2>1, <3>2, <1>13, MeaningNext
      <3>5. ret' = Success(TRUE)
        BY <2>1, <1>1
      <3> QED BY <3>3, <3>4, <3>5
    <2>2. CASE call.op = "dequeue"
      <3>1. k = 1 /\ c # <<>>
        BY <2>2, <1>8 DEF QueueLoop
      <3>2. Tail(c) = Removed(c, 1) /\ Head(c) = c[1]
        BY <3>1, TailIs
      <3>3. Meaning(c)' = [s |-> Tail(c), ret |-> Value(Head(c))]
        BY <2>2, <3>1, <1>13, MeaningNext
      <3>4. ret' = Value(Head(c))
        BY <2>2, <3>1, <3>2, <1>1, <1>8
      <3> QED BY <3>1, <3>2, <3>3, <3>4
    <2> QED BY <2>1, <2>2, <1>1
  <1>16. Meaning(before.queue)' = Meaning(c)'
    BY <1>13, <1>14 DEF Meaning
  <1>17. QueueDone(M[Plain])'
    <2>1. Cont(M[Plain], value)' = Removed(c, k)
      BY <1>6, <1>7, <1>12
    <2> QED BY <2>1, <1>1, <1>13, <1>15, <1>16 DEF QueueDone
  <1>18. Pairs(L, value) = before.map
    BY <1>1, <1>4, <1>5 DEF Good, Progress
  <1>19. Progress(M)'
    BY <1>5, <1>12, <1>13, <1>17, <1>18 DEF Progress
  <1> QED BY <1>12, <1>13, <1>19 DEF Inv, Good

\* The node of an insertion, and its value.
LEMMA InsertNodeKeeps ==
    ASSUME NEW L, NEW k, Place(L, k), call.op = "insert", curr = NULL, Works("returned"), InsertNode,
           NEW q, q = call.q, NEW e, call.match = {e}, Fits(L, value, q, e)
    PROVE  \E M : /\ TypeInv' /\ Shape(M)' /\ Buckets(M, value)' /\ Counted(M)' /\ Pointer(M)'
                  /\ Cont(M[q], value)' = Append(Cont(L[q], value), e)
                  /\ q # Plain => Cont(M[Plain], value)' = Cont(L[Plain], value)
                  /\ Pairs(M, value)' = IF q = Plain THEN Pairs(L, value) ELSE Pairs(L, value) \cup {e}
  <1>1. TypeInv /\ Protocol /\ Good(L) /\ q \in Queues /\ call.at = "loop" /\ ~ Idle
    BY DEF Place, Works
  <1>2. /\ Linked(L, Roots, next, live) /\ (\A p \in live : value[p] \in Pair) /\ Buckets(L, value)
        /\ \A r \in Queues : ~ (Destroying /\ r = call.q) => size[r] = Len(L[r])
    BY <1>1 DEF Good, Shape
  <1>3. /\ L[q] \in Seq(Node) /\ Len(L[q]) \in Nat /\ k = Len(L[q]) + 1
        /\ prev = At(L[q], Len(L[q])) /\ prev \in Node \cup {NULL}
    <2>1. /\ L[q] \in Seq(Node) /\ Len(L[q]) \in Nat /\ k = Len(L[q]) + 1
          /\ prev = At(L[q], k - 1) /\ prev \in Node \cup {NULL}
      BY DEF Place
    <2>2. k - 1 = Len(L[q])
      BY <2>1
    <2> QED BY <2>1, <2>2
  <1>4. /\ call'.op = call.op /\ call'.q = call.q /\ call'.at = "returned" /\ ~ Idle' /\ before' = before
        /\ job' = job /\ held' = held /\ item_count' = item_count /\ (TypeOK' => TypeInv')
    BY <1>1, WorksKeep
  <1>5. ~ Destroying /\ ~ Destroying'
    BY <1>4 DEF Destroying
  <1>6. /\ head \in [Queues -> Node \cup {NULL}] /\ next \in [Node -> Node \cup {NULL, Garbage}]
        /\ value \in [Node -> Pair \cup {Blank}] /\ size \in [Queues -> Nat] /\ live \subseteq Node
        /\ item_count \in Nat /\ e \in Pair
    BY <1>1 DEF TypeInv, TypeOK
  <1>7. Roots = head
    BY <1>5, <1>6 DEF Roots
  <1>8. PICK p \in Node \ live :
          /\ live' = live \cup {p}
          /\ \E elem \in call.match : value' = [value EXCEPT ![p] = elem]
          /\ LET links == [next EXCEPT ![p] = NULL] IN
             IF prev = NULL
             THEN head' = [head EXCEPT ![call.q] = p] /\ next' = links
             ELSE next' = [links EXCEPT ![prev] = p] /\ UNCHANGED head
    BY DEF InsertNode
  <1>9. /\ head' = IF prev = NULL THEN [head EXCEPT ![q] = p] ELSE head
        /\ next' = NewLinks(next, prev, p)
        /\ value' = [value EXCEPT ![p] = e]
        /\ size' = [size EXCEPT ![q] = @ + 1]
    BY <1>8 DEF InsertNode, NewLinks
  <1>10. size[q] = Len(L[q]) /\ size[q] + 1 \in Nat
    BY <1>1, <1>2, <1>3, <1>5
  <1>11. TypeOK'
    <2>1. head' \in [Queues -> Node \cup {NULL}]
      BY <1>1, <1>6, <1>9
    <2>2. next' \in [Node -> Node \cup {NULL, Garbage}]
      BY <1>3, <1>6, <1>9 DEF NewLinks
    <2>3. value' \in [Node -> Pair \cup {Blank}] /\ live' \subseteq Node
      BY <1>6, <1>8, <1>9
    <2>4. size' \in [Queues -> Nat]
      BY <1>1, <1>6, <1>9, <1>10
    <2> QED BY <2>1, <2>2, <2>3, <2>4, <1>4, <1>6 DEF TypeOK, Works
  <1>12. PICK M : M = [L EXCEPT ![q] = Append(L[q], p)]
    OBVIOUS
  <1>13. PICK hd : hd = head
    OBVIOUS
  <1>14. PICK nx : nx = next
    OBVIOUS
  <1>15. PICK lv : lv = live
    OBVIOUS
  <1>16. PICK val : val = value
    OBVIOUS
  <1>17. PICK pv : pv = prev
    OBVIOUS
  <1>18. PICK hd2 : hd2 = head'
    OBVIOUS
  <1>19. PICK nx2 : nx2 = next'
    OBVIOUS
  <1>20. PICK lv2 : lv2 = live'
    OBVIOUS
  <1>21. PICK val2 : val2 = value'
    OBVIOUS
  <1>22. Linked(L, hd, nx, lv) /\ q \in Queues /\ p \in Node /\ p \notin lv
    BY <1>1, <1>2, <1>7, <1>8, <1>13, <1>14, <1>15
  <1>23. Linked(M, hd2, nx2, lv2)
    <2>1. hd \in [Queues -> Node \cup {NULL}] /\ nx \in [Node -> Node \cup {NULL, Garbage}]
          /\ pv = At(L[q], Len(L[q])) /\ lv2 = lv \cup {p}
      BY <1>3, <1>6, <1>8, <1>13, <1>14, <1>15, <1>17, <1>20
    <2>2. hd2 = IF pv = NULL THEN [hd EXCEPT ![q] = p] ELSE hd
      BY <1>9, <1>13, <1>17, <1>18
    <2>3. nx2 = NewLinks(nx, pv, p)
      BY <1>9, <1>14, <1>17, <1>19
    <2>4. Linked([L EXCEPT ![q] = Append(L[q], p)], hd2, nx2, lv2)
      BY ONLY <1>22, <2>1, <2>2, <2>3, LinkedInsert
    <2> QED BY <2>4, <1>12
  <1>24. /\ Buckets(M, val2) /\ val2 \in [Node -> Pair \cup {Blank}]
         /\ \A x \in lv \cup {p} : val2[x] \in Pair /\ (x # p => val2[x] = val[x])
         /\ Cont(M[q], val2) = Append(Cont(L[q], val), e)
         /\ \A r \in Queues : r # q => Cont(M[r], val2) = Cont(L[r], val)
         /\ Pairs(M, val2) = IF q = Plain THEN Pairs(L, val) ELSE Pairs(L, val) \cup {e}
    <2>1. val \in [Node -> Pair \cup {Blank}] /\ Filled(lv, val) /\ Buckets(L, val) /\ Fits(L, val, q, e)
          /\ e \in Pair
      BY <1>2, <1>6, <1>15, <1>16 DEF Filled
    <2>2. val2 = [val EXCEPT ![p] = e]
      BY <1>9, <1>16, <1>21
    <2>3. WithNode(L, lv, val, q, p, e, M, val2)
      BY ONLY <1>12, <1>22, <2>1, <2>2, ValuesInsert
    <2> QED BY ONLY <2>3 DEF WithNode
  <1>25. M[q] = Append(L[q], p) /\ \A r \in Queues : r # q => M[r] = L[r]
    BY <1>1, <1>2, <1>12 DEF Linked
  <1>26. Len(M[q]) = Len(L[q]) + 1 /\ \A i \in 1 .. Len(L[q]) : M[q][i] = L[q][i]
    BY <1>3, <1>25
  <1>27. Shape(M)'
    <2>1. Roots' = head'
      BY <1>5, <1>11 DEF Roots, TypeOK
    <2>2. Linked(M, Roots', next', live')
      BY <2>1, <1>18, <1>19, <1>20, <1>23
    <2>3. Linked(M, Roots, next, live)'
      BY <2>2 DEF Linked, IsList
    <2>4. \A x \in live' : value'[x] \in Pair
      BY <1>8, <1>15, <1>21, <1>24
    <2>5. \A r \in Queues : size'[r] = Len(M[r])
      <3>1. size'[q] = Len(M[q])
        BY <1>1, <1>6, <1>9, <1>10, <1>26
      <3>2. \A r \in Queues : r # q => size'[r] = Len(M[r])
        BY <1>2, <1>5, <1>6, <1>9, <1>25
      <3> QED BY <3>1, <3>2
    <2> QED BY <2>3, <2>4, <2>5 DEF Shape
  <1>28. Buckets(M, value)'
    BY <1>21, <1>24 DEF Buckets
  <1>29. Counted(M)'
    BY <1>1, <1>4 DEF Good, Counted
  <1>30. Pointer(M)'
    <2>1. SUFFICES ASSUME held.ptr # NULL, ~ (job.op = "erase" /\ job.key = held.key)
                   PROVE  \E i \in 1 .. Len(M[find_bucket(held.key)]) :
                             /\ M[find_bucket(held.key)][i] = held.ptr
                             /\ value'[held.ptr].first = held.key
      BY <1>4 DEF Pointer, find_bucket
    <2>2. PICK b \in Bucket : b = find_bucket(held.key)
      BY <1>1, BucketQueue DEF TypeInv
    <2>3. PICK j \in 1 .. Len(L[b]) : L[b][j] = held.ptr /\ value[held.ptr].first = held.key
      BY <2>1, <2>2, <1>1 DEF Good, Pointer
    <2>4. b \in Queues /\ held.ptr \in live
      BY <2>3, <1>2, BucketQueue, LinkedNode
    <2>5. value'[held.ptr] = value[held.ptr]
      BY <2>4, <1>15, <1>16, <1>21, <1>22, <1>24
    <2>6. \E i \in 1 .. Len(M[b]) : M[b][i] = held.ptr
      <3>1. CASE b = q
        <4>1. j \in 1 .. Len(M[q]) /\ M[q][j] = L[q][j]
          BY <3>1, <1>3, <1>26
        <4> QED BY <4>1, <3>1, <2>3
      <3>2. CASE b # q
        BY <3>2, <2>3, <2>4, <1>25
      <3> QED BY <3>1, <3>2
    <2> QED BY <2>2, <2>3, <2>5, <2>6
  <1>31. /\ Cont(M[q], value)' = Cont(M[q], val2) /\ Cont(M[Plain], value)' = Cont(M[Plain], val2)
         /\ Pairs(M, value)' = Pairs(M, val2)
    BY <1>21 DEF Cont, Pairs
  <1>32. /\ Cont(M[q], value)' = Append(Cont(L[q], value), e)
         /\ q # Plain => Cont(M[Plain], value)' = Cont(L[Plain], value)
         /\ Pairs(M, value)' = IF q = Plain THEN Pairs(L, value) ELSE Pairs(L, value) \cup {e}
    BY <1>16, <1>24, <1>31, BucketQueue
  <1> QED BY <1>4, <1>11, <1>27, <1>28, <1>29, <1>30, <1>32

LEMMA InsertNodeInv == ASSUME Inv, InsertNode, Rest PROVE Inv'
  <1>1. ~ Idle /\ call.at = "loop" /\ call.op = "insert" /\ curr = NULL
        /\ ret' = Success(TRUE) /\ call' = [call EXCEPT !.at = "returned"] /\ UNCHANGED <<curr, prev, n>>
    BY DEF InsertNode, In, Return, Idle
  <1>2. PICK L : \E k : Place(L, k)
    BY <1>1, HasPlace
  <1>3. PICK k : Place(L, k)
    BY <1>2
  <1>4. TypeInv /\ Protocol /\ Good(L)
    BY <1>3 DEF Place
  <1>5. PICK q \in Queues : q = call.q
    BY <1>3 DEF Place
  <1>6. ret' \in [ok : BOOLEAN, num : Nat, val : Pair \cup {Blank}]
    BY <1>1, Results
  <1>7. Works("returned")
    BY <1>1, <1>4, <1>6 DEF Works, Rest, TypeInv, TypeOK
  <1>8. job.op # "none" => job.op = "insert" /\ job.stage = "change" /\ q = find_bucket(job.key) /\ q # Plain
               /\ call.match = {[first |-> job.key, second |-> job.val]}
               /\ Pairs(L, value) = before.map /\ Absent /\ job.key \in Keys /\ job.val \in Vals
    <2>1. SUFFICES ASSUME job.op # "none"
                   PROVE  job.op = "insert" /\ job.stage = "change" /\ q = find_bucket(job.key) /\ q # Plain
                          /\ call.match = {[first |-> job.key, second |-> job.val]}
                          /\ Pairs(L, value) = before.map /\ Absent /\ job.key \in Keys /\ job.val \in Vals
      OBVIOUS
    <2>2. job.op = "insert" /\ job.stage = "change" /\ q = find_bucket(job.key)
          /\ call.match = {[first |-> job.key, second |-> job.val]} /\ job.key \in Keys /\ job.val \in Vals
      BY <2>1, <1>1, <1>4, <1>5 DEF Protocol, TypeInv
    <2>3. q # Plain /\ Pairs(L, value) = before.map /\ Absent
      BY <2>1, <2>2, <1>3, <1>5 DEF Place, MapLoop
    <2> QED BY <2>2, <2>3
  <1>9. job.op = "none" => q = Plain /\ (\E pair \in Pair : call.match = {pair}) /\ Cont(L[q], value) = before.queue
               /\ Pairs(L, value) = before.map
    BY <1>1, <1>3, <1>4, <1>5 DEF Place, Protocol, QueueLoop, Good, Progress
  <1>10. \E e : call.match = {e} /\ (job.op # "none" => e = [first |-> job.key, second |-> job.val])
    BY <1>8, <1>9
  <1>11. PICK e : call.match = {e} /\ (job.op # "none" => e = [first |-> job.key, second |-> job.val])
    BY <1>10
  <1>12. Fits(L, value, q, e)
    <2>1. SUFFICES ASSUME q # Plain
                   PROVE  find_bucket(e.first) = q /\ \A i \in 1 .. Len(L[q]) : value[L[q][i]].first # e.first
      BY DEF Fits
    <2>2. job.op # "none"
      BY <2>1, <1>9
    <2>3. e.first = job.key /\ q \in Bucket
      BY <2>2, <1>8, <1>11, BucketQueue
    <2>4. ASSUME NEW i \in 1 .. Len(L[q]) PROVE value[L[q][i]] \in before.map
      <3>1. value[L[q][i]] \in Pair
        BY <1>3, <1>5 DEF Place
      <3>2. value[L[q][i]] \in Pairs(L, value)
        BY <3>1, <2>3 DEF Pairs
      <3> QED BY <3>2, <2>2, <1>8
    <2> QED BY <2>2, <2>3, <2>4, <1>8 DEF Absent
  <1>13. PICK M : /\ TypeInv' /\ Shape(M)' /\ Buckets(M, value)' /\ Counted(M)' /\ Pointer(M)'
                  /\ Cont(M[q], value)' = Append(Cont(L[q], value), e)
                  /\ q # Plain => Cont(M[Plain], value)' = Cont(L[Plain], value)
                  /\ Pairs(M, value)' = IF q = Plain THEN Pairs(L, value) ELSE Pairs(L, value) \cup {e}
    BY <1>1, <1>3, <1>5, <1>7, <1>11, <1>12, InsertNodeKeeps
  <1>14. /\ Protocol' /\ ~ Idle' /\ call'.op = call.op /\ call'.q = call.q /\ call'.match = call.match
         /\ call'.at = "returned" /\ before' = before /\ job' = job
    BY <1>4, <1>7, WorksKeep
  <1>15. job.op = "none" => QueueDone(M[Plain])'
    <2>1. SUFFICES ASSUME job.op = "none" PROVE QueueDone(M[Plain])'
      OBVIOUS
    <2>2. PICK b \in Seq(Pair) : b = before.queue
      BY <1>4 DEF TypeInv
    <2>3. Cont(M[Plain], value)' = Append(b, e)
      BY <2>1, <2>2, <1>9, <1>13
    <2>4. SetToSeq(call'.match) = <<e>>
      BY <1>11, <1>14, SetToSeqOne
    <2>5. Meaning(b)' = [s |-> b \o <<e>>, ret |-> Success(TRUE)]
      BY <2>4, <1>1, <1>14, MeaningNext
    <2>6. b \o <<e>> = Append(b, e)
      OBVIOUS
    <2>7. Meaning(before.queue)' = Meaning(b)'
      BY <2>2, <1>14 DEF Meaning
    <2> QED BY <2>3, <2>5, <2>6, <2>7, <1>1, <1>14 DEF QueueDone
  <1>16. job.op # "none" => MapDone(M[call.q], Pairs(M, value))'
    <2>1. SUFFICES ASSUME job.op # "none" PROVE MapDone(M[call.q], Pairs(M, value))'
      OBVIOUS
    <2>2. Pairs(M, value)' = before.map \cup {[first |-> job.key, second |-> job.val]}
      BY <2>1, <1>8, <1>11, <1>13
    <2> QED BY <2>1, <2>2, <1>8, <1>14 DEF MapDone, Absent
  <1>17. job.op # "none" => Cont(M[Plain], value)' = before'.queue
    BY <1>1, <1>4, <1>8, <1>13, <1>14 DEF Good, Progress
  <1>18. job.op = "none" => Pairs(M, value)' = before'.map
    BY <1>9, <1>13, <1>14
  <1>19. Progress(M)'
    BY <1>14, <1>15, <1>16, <1>17, <1>18 DEF Progress
  <1> QED BY <1>13, <1>14, <1>19 DEF Inv, Good


\* The destructor frees the first node of what is left of the queue.
LEMMA DestroyNodeInv == ASSUME Inv, DestroyNode, Rest PROVE Inv'
  <1>1. ~ Idle /\ call.at = "loop" /\ call.op = "destroy" /\ curr # NULL
        /\ live' = live \ {curr}
        /\ next' = [p \in Node |-> IF p \in {curr} THEN Garbage ELSE next[p]]
        /\ value' = [p \in Node |-> IF p \in {curr} THEN Blank ELSE value[p]]
        /\ curr' = next[curr] /\ UNCHANGED <<head, size, call, prev, n, ret>>
    BY DEF DestroyNode, In, Idle, FreedFields, objects
  <1>2. PICK L : \E k : Place(L, k)
    BY <1>1, HasPlace
  <1>3. PICK k : Place(L, k)
    BY <1>2
  <1>4. TypeInv /\ Protocol /\ Good(L)
    BY <1>3 DEF Place
  <1>5. job.op = "none" /\ call.q = Plain /\ Plain \in Queues
    BY <1>1, <1>4, OnlyQueue, BucketQueue
  <1>6. k = 1
    BY <1>1, <1>3, <1>5 DEF Place, QueueLoop
  <1>7. PICK s \in Seq(Node) : s = L[Plain]
    BY <1>3, <1>5 DEF Place
  <1>8. /\ 1 \in 1 .. Len(s) /\ Len(s) \in Nat /\ curr = s[1] /\ curr \in Node /\ curr \in live
        /\ prev = NULL /\ At(s, 0) = NULL /\ next[curr] = At(s, 2) /\ next[curr] \in Node \cup {NULL}
    <2>1. /\ k \in 1 .. Len(s) /\ Len(s) \in Nat /\ curr = s[k] /\ curr \in Node /\ curr \in live
          /\ prev = At(s, k - 1) /\ next[curr] = At(s, k + 1) /\ At(s, k + 1) \in Node \cup {NULL}
      BY <1>1, <1>3, <1>5, <1>7 DEF Place
    <2>2. At(s, 0) = NULL
      BY DEF At
    <2> QED BY <2>1, <2>2, <1>6
  <1>9. /\ Linked(L, Roots, next, live) /\ (\A p \in live : value[p] \in Pair) /\ Buckets(L, value)
        /\ \A r \in Queues : ~ (Destroying /\ r = call.q) => size[r] = Len(L[r])
    BY <1>4 DEF Good, Shape
  <1>10. /\ head \in [Queues -> Node \cup {NULL}] /\ next \in [Node -> Node \cup {NULL, Garbage}]
         /\ value \in [Node -> Pair \cup {Blank}] /\ size \in [Queues -> Nat] /\ live \subseteq Node
         /\ item_count \in Nat /\ prev \in Node \cup {NULL} /\ n \in Nat
         /\ call \in [op : Ops \cup {"none"}, q : Queues, match : SUBSET Pair, index : Nat,
                      at : {"loop", "returned", "answered", "fault"}]
         /\ ret \in [ok : BOOLEAN, num : Nat, val : Pair \cup {Blank}]
    BY <1>4 DEF TypeInv, TypeOK
  <1>11. Destroying /\ Destroying'
    BY <1>1 DEF Destroying
  <1>12. Roots = [head EXCEPT ![Plain] = curr] /\ Roots \in [Queues -> Node \cup {NULL}]
    BY <1>5, <1>8, <1>10, <1>11 DEF Roots
  <1>13. Roots' = [Roots EXCEPT ![Plain] = next[curr]]
    <2>1. Roots' = [q \in Queues |-> IF q = Plain THEN next[curr] ELSE head[q]]
      BY <1>1, <1>5, <1>11 DEF Roots
    <2> QED BY <2>1, <1>10, <1>12
  <1>14. call' = [call EXCEPT !.at = "loop"]
    BY <1>1, <1>10
  <1>15. Works("loop")
    BY <1>1, <1>8, <1>10, <1>14 DEF Works, Rest
  <1>16. /\ Protocol' /\ ~ Idle' /\ call' = call /\ before' = before /\ job' = job
         /\ held' = held /\ item_count' = item_count /\ (TypeOK' => TypeInv')
    BY <1>1, <1>4, <1>15, WorksKeep
  <1>17. TypeOK'
    BY <1>1, <1>8, <1>10, <1>16 DEF TypeOK
  <1>18. PICK M : M = [L EXCEPT ![Plain] = Removed(L[Plain], 1)]
    OBVIOUS
  <1>19. PICK hd : hd = Roots
    OBVIOUS
  <1>20. PICK nx : nx = next
    OBVIOUS
  <1>21. PICK lv : lv = live
    OBVIOUS
  <1>22. PICK val : val = value
    OBVIOUS
  <1>23. PICK c : c = curr
    OBVIOUS
  <1>24. PICK hd2 : hd2 = Roots'
    OBVIOUS
  <1>25. PICK nx2 : nx2 = next'
    OBVIOUS
  <1>26. PICK lv2 : lv2 = live'
    OBVIOUS
  <1>27. PICK val2 : val2 = value'
    OBVIOUS
  <1>28. /\ Linked(L, hd, nx, lv) /\ Plain \in Queues /\ 1 \in 1 .. Len(L[Plain]) /\ c = L[Plain][1]
         /\ hd \in [Queues -> Node \cup {NULL}] /\ nx \in [Node -> Node \cup {NULL, Garbage}]
         /\ lv2 = lv \ {c}
    BY <1>1, <1>5, <1>7, <1>8, <1>9, <1>10, <1>12, <1>19, <1>20, <1>21, <1>23, <1>26
  <1>29. PICK pv : pv = NULL
    OBVIOUS
  <1>30. Linked(M, hd2, nx2, lv2)
    <2>1. pv = At(L[Plain], 1 - 1)
      BY <1>7, <1>8, <1>29
    <2>2. hd2 = IF pv = NULL THEN [hd EXCEPT ![Plain] = nx[c]] ELSE hd
      BY <1>13, <1>19, <1>20, <1>23, <1>24, <1>29
    <2>3. nx2 = FreedLinks(nx, pv, c)
      <3>1. nx2 = [p \in Node |-> IF p \in {c} THEN Garbage ELSE nx[p]]
        BY <1>1, <1>20, <1>23, <1>25
      <3> QED BY <3>1, <1>29, Zenon DEF FreedLinks
    <2>4. Linked([L EXCEPT ![Plain] = Removed(L[Plain], 1)], hd2, nx2, lv2)
      BY ONLY <1>28, <2>1, <2>2, <2>3, LinkedRemove
    <2> QED BY <2>4, <1>18
  <1>31. /\ Buckets(M, val2)
         /\ \A p \in lv \ {c} : val2[p] = val[p]
         /\ Pairs(M, val2) = Pairs(L, val)
    <2>1. val \in [Node -> Pair \cup {Blank}] /\ Filled(lv, val) /\ Buckets(L, val)
      BY <1>9, <1>10, <1>21, <1>22 DEF Filled
    <2>2. val2 = FreedValues(val, c)
      <3>1. value' = FreedValues(value, curr)
        BY <1>1, Zenon DEF FreedValues
      <3> QED BY <3>1, <1>22, <1>23, <1>27
    <2>3. WithoutNode(L, lv, val, Plain, 1, c, M, val2)
      BY ONLY <1>28, <2>1, <2>2, <1>18, ValuesRemove
    <2> QED BY ONLY <2>3 DEF WithoutNode
  <1>32. M[Plain] = Removed(s, 1) /\ \A r \in Queues : r # Plain => M[r] = L[r]
    BY <1>5, <1>7, <1>9, <1>18 DEF Linked
  <1>33. Shape(M)'
    <2>1. Linked(M, Roots', next', live')
      BY <1>24, <1>25, <1>26, <1>30
    <2>2. Linked(M, Roots, next, live)'
      BY <2>1 DEF Linked, IsList
    <2>3. \A p \in live' : value'[p] \in Pair
      BY <1>1, <1>9, <1>21, <1>22, <1>23, <1>27, <1>31
    <2>4. \A r \in Queues : r # call'.q => size'[r] = Len(M[r])
      BY <1>1, <1>5, <1>9, <1>32
    <2> QED BY <2>2, <2>3, <2>4, <1>11 DEF Shape
  <1>34. Buckets(M, value)'
    BY <1>27, <1>31 DEF Buckets
  <1>35. Counted(M)'
    BY <1>1, <1>4, <1>16 DEF Good, Counted, Idle
  <1>36. Pointer(M)'
    <2>1. SUFFICES ASSUME held.ptr # NULL
                   PROVE  \E i \in 1 .. Len(M[find_bucket(held.key)]) :
                             /\ M[find_bucket(held.key)][i] = held.ptr
                             /\ value'[held.ptr].first = held.key
      BY <1>16 DEF Pointer, find_bucket
    <2>2. PICK b \in Bucket : b = find_bucket(held.key)
      BY <1>4, BucketQueue DEF TypeInv
    <2>3. PICK j \in 1 .. Len(L[b]) : L[b][j] = held.ptr /\ value[held.ptr].first = held.key
      BY <2>1, <2>2, <1>4, <1>5 DEF Good, Pointer
    <2>4. b \in Queues /\ b # Plain /\ held.ptr \in live
      BY <2>3, <1>9, BucketQueue, LinkedNode
    <2>5. held.ptr # curr
      BY <2>3, <2>4, <1>5, <1>7, <1>8, <1>9 DEF Linked
    <2>6. value'[held.ptr] = value[held.ptr]
      BY <2>4, <2>5, <1>21, <1>22, <1>23, <1>27, <1>31
    <2> QED BY <2>2, <2>3, <2>4, <2>6, <1>32
  <1>37. Pairs(M, value)' = before'.map
    <2>1. Pairs(M, value)' = Pairs(M, val2)
      BY <1>27 DEF Pairs
    <2>2. Pairs(L, value) = before.map
      BY <1>1, <1>4, <1>5 DEF Good, Progress
    <2> QED BY <2>1, <2>2, <1>16, <1>22, <1>31
  <1>38. Progress(M)'
    <2>1. 1 \in 1 .. (Len(M[Plain]) + 1) /\ At(M[Plain], 1) = At(s, 2) /\ At(M[Plain], 1 - 1) = NULL
      <3>1. Len(Removed(s, 1)) \in Nat /\ At(Removed(s, 1), 1) = At(s, 2)
        <4>1. Len(s) - 1 \in Nat /\ Len(Removed(s, 1)) = Len(s) - 1
          BY <1>8, RemovedFacts
        <4>2. At(Removed(s, 1), 1) = At(s, IF 1 < 1 THEN 1 ELSE 1 + 1)
          BY <1>8, RemovedFacts
        <4> QED BY <4>1, <4>2
      <3> QED BY <3>1, <1>32 DEF At
    <2>2. curr' = At(M[Plain], 1) /\ prev' = At(M[Plain], 1 - 1)
      BY <2>1, <1>1, <1>8
    <2>3. QueueLoop(Cont(M[Plain], value), 1)'
      BY <1>1, <1>16 DEF QueueLoop
    <2>4. \E j \in 1 .. (Len(M[call'.q]) + 1) :
             /\ curr' = At(M[call'.q], j) /\ prev' = At(M[call'.q], j - 1)
             /\ QueueLoop(Cont(M[Plain], value), j)'
      BY <2>1, <2>2, <2>3, <1>5, <1>16
    <2> QED BY <2>4, <1>1, <1>5, <1>16, <1>37 DEF Progress, At
  <1> QED BY <1>16, <1>17, <1>33, <1>34, <1>35, <1>36, <1>38 DEF Inv, Good

\* At its end the queue is as good as new.
LEMMA DestroyEndInv == ASSUME Inv, DestroyEnd, Rest PROVE Inv'
  <1>1. ~ Idle /\ call.at = "loop" /\ call.op = "destroy" /\ curr = NULL
        /\ head' = [head EXCEPT ![call.q] = NULL] /\ size' = [size EXCEPT ![call.q] = 0]
        /\ ret' = Nothing /\ call' = [call EXCEPT !.at = "returned"]
        /\ UNCHANGED <<next, value, live, curr, prev, n>>
    BY DEF DestroyEnd, In, Idle, Return, heap
  <1>2. PICK L : \E k : Place(L, k)
    BY <1>1, HasPlace
  <1>3. PICK k : Place(L, k)
    BY <1>2
  <1>4. TypeInv /\ Protocol /\ Good(L)
    BY <1>3 DEF Place
  <1>5. job.op = "none" /\ call.q = Plain /\ Plain \in Queues
    BY <1>1, <1>4, OnlyQueue, BucketQueue
  <1>6. Len(L[Plain]) = 0 /\ L[Plain] \in Seq(Node)
    BY <1>1, <1>3, <1>5 DEF Place, QueueLoop
  <1>7. /\ Linked(L, Roots, next, live) /\ (\A p \in live : value[p] \in Pair) /\ Buckets(L, value)
        /\ \A r \in Queues : ~ (Destroying /\ r = call.q) => size[r] = Len(L[r])
    BY <1>4 DEF Good, Shape
  <1>8. /\ head \in [Queues -> Node \cup {NULL}] /\ size \in [Queues -> Nat]
        /\ prev \in Node \cup {NULL} /\ n \in Nat
    BY <1>4 DEF TypeInv, TypeOK
  <1>9. Works("returned")
    BY <1>1, <1>8, Results DEF Works, Rest
  <1>10. /\ Protocol' /\ ~ Idle' /\ call'.op = call.op /\ call'.q = call.q /\ call'.at = "returned"
         /\ before' = before /\ job' = job
         /\ held' = held /\ item_count' = item_count /\ (TypeOK' => TypeInv')
    BY <1>4, <1>9, WorksKeep
  <1>11. TypeOK'
    BY <1>1, <1>4, <1>5, <1>8, <1>10 DEF TypeOK, TypeInv
  <1>12. Roots' = Roots
    <2>1. Roots' = head'
      BY <1>10, <1>11 DEF Roots, Destroying, TypeOK
    <2>2. Roots = [head EXCEPT ![Plain] = NULL]
      BY <1>1, <1>5, <1>8 DEF Roots, Destroying
    <2> QED BY <2>1, <2>2, <1>1, <1>5
  <1>13. Shape(L)'
    <2>1. Linked(L, Roots', next', live')
      BY <1>1, <1>7, <1>12
    <2>2. Linked(L, Roots, next, live)'
      BY <2>1 DEF Linked, IsList
    <2>3. \A r \in Queues : size'[r] = Len(L[r])
      BY <1>1, <1>5, <1>6, <1>7, <1>8
    <2> QED BY <2>2, <2>3, <1>1, <1>7 DEF Shape
  <1>14. Buckets(L, value)'
    BY <1>1, <1>7 DEF Buckets
  <1>15. Counted(L)'
    BY <1>1, <1>4, <1>10 DEF Good, Counted, Idle
  <1>16. Pointer(L)'
    BY <1>1, <1>4, <1>10 DEF Good, Pointer, find_bucket
  <1>17. Pairs(L, value)' = before'.map
    <2>1. Pairs(L, value) = before.map
      BY <1>1, <1>4, <1>5 DEF Good, Progress
    <2> QED BY <2>1, <1>1, <1>10 DEF Pairs
  <1>18. QueueDone(L[Plain])'
    <2>1. Cont(L[Plain], value)' = <<>>
      BY <1>6 DEF Cont
    <2>2. PICK b : b = before.queue
      OBVIOUS
    <2>3. Meaning(b)' = [s |-> <<>>, ret |-> Nothing]
      BY <1>1, <1>10, MeaningNext
    <2>4. Meaning(before.queue)' = Meaning(b)'
      BY <2>2, <1>10 DEF Meaning
    <2> QED BY <2>1, <2>3, <2>4, <1>1, <1>10 DEF QueueDone
  <1>19. Progress(L)'
    BY <1>5, <1>10, <1>17, <1>18 DEF Progress
  <1> QED BY <1>10, <1>11, <1>13, <1>14, <1>15, <1>16, <1>19 DEF Inv, Good


-----------------------------------------------------------------------------
(* The calls of the map and of its callers.                                *)

\* What holds when an operation of a queue starts.
Begun(L, op, q, match, index) ==
    /\ TypeInv' /\ Shape(L)' /\ Buckets(L, value)' /\ Pairs(L, value)' = Pairs(L, value)
    /\ \A r \in Queues : Cont(L[r], value)' = Cont(L[r], value)
    /\ ~ Idle' /\ call'.op = op /\ call'.q = q /\ call'.match = match /\ call'.index = index
    /\ call'.at = "loop" /\ value' = value
    /\ 1 \in 1 .. (Len(L[q]) + 1) /\ curr' = At(L[q], 1) /\ prev' = At(L[q], 1 - 1) /\ n' = 0

\* What else a step that starts one leaves as it should be.
Prepares ==
    /\ UNCHANGED <<heap, objects, item_count, held>>
    /\ job' \in [op : {"none", "insert", "find", "erase"}, stage : {"look", "change"},
                 key : Keys, val : Vals]
    /\ before' \in [map : SUBSET Pair, queue : Seq(Pair)]

LEMMA StartBegins ==
    ASSUME NEW L, TypeInv, Shape(L), Buckets(L, value), ~ Destroying, Prepares,
           NEW op \in Ops, NEW q \in Queues, NEW match \in SUBSET Pair, NEW index \in Nat,
           Start(op, q, match, index)
    PROVE  Begun(L, op, q, match, index)
  <1>1. /\ call' = [op |-> op, q |-> q, match |-> match, index |-> index, at |-> "loop"]
        /\ curr' = head[q] /\ prev' = NULL /\ n' = 0 /\ ret' = ret
        /\ UNCHANGED <<next, value, live, head, size, item_count, held>> /\ UNCHANGED <<heap, objects>>
    BY DEF Start, Prepares, heap, objects
  <1>2. /\ call' \in [op : Ops \cup {"none"}, q : Queues, match : SUBSET Pair, index : Nat,
                      at : {"loop", "returned", "answered", "fault"}]
        /\ call'.op = op /\ call'.q = q /\ call'.match = match /\ call'.index = index /\ call'.at = "loop"
    BY <1>1
  <1>3. ~ Idle'
    BY <1>2 DEF Idle, Ops
  <1>4. /\ Shape(L)' /\ Buckets(L, value)' /\ Pairs(L, value)' = Pairs(L, value)
        /\ \A r \in Queues : Cont(L[r], value)' = Cont(L[r], value)
    BY <1>1, <1>2, KeepLists
  <1>5. Roots = head
    <2>1. head = [r \in Queues |-> head[r]]
      BY DEF TypeInv, TypeOK
    <2> QED BY <2>1 DEF Roots
  <1>6. L[q] \in Seq(Node) /\ head[q] = At(L[q], 1)
    BY <1>5 DEF Shape, Linked, IsList
  <1>7. 1 \in 1 .. (Len(L[q]) + 1) /\ At(L[q], 1 - 1) = NULL
    BY <1>6 DEF At
  <1>8. TypeOK'
    BY <1>1 DEF TypeInv, TypeOK
  <1>9. TypeInv'
    BY <1>1, <1>2, <1>8 DEF TypeInv, Prepares
  <1> QED BY <1>1, <1>2, <1>3, <1>4, <1>6, <1>7, <1>9 DEF Begun

\* What the call remembers.
LEMMA Remembers ==
    ASSUME NEW L, TypeInv, Shape(L), ~ Destroying, Remember
    PROVE  /\ before' \in [map : SUBSET Pair, queue : Seq(Pair)]
           /\ before'.map = Pairs(L, value) /\ before'.queue = Cont(L[Plain], value)
  <1>1. Linked(L, Roots, next, live) /\ \A p \in live : value[p] \in Pair
    BY DEF Shape
  <1>2. MapContents = Pairs(L, value) /\ Contents(Plain) = Cont(L[Plain], value)
    BY <1>1, ModelLists, BucketQueue, Zenon
  <1>3. Pairs(L, value) \in SUBSET Pair
    BY DEF Pairs
  <1>4. Cont(L[Plain], value) \in Seq(Pair)
    <2>1. Plain \in Queues /\ L[Plain] \in Seq(Node)
      BY <1>1, BucketQueue DEF Linked
    <2>2. \A i \in 1 .. Len(L[Plain]) : value[L[Plain][i]] \in Pair
      BY <2>1, <1>1, LinkedNode
    <2> QED BY <2>1, <2>2, ContFacts
  <1> QED BY <1>2, <1>3, <1>4 DEF Remember

\* A call of the queue beside the map: its first step.
LEMMA QueueStartInv ==
    ASSUME Inv, Idle, Remember, UNCHANGED <<heap, objects, item_count, job, held>>,
           NEW op \in Ops, NEW match \in SUBSET Pair, NEW index \in Nat, Start(op, Plain, match, index),
           op = "insert" => \E pair \in Pair : match = {pair}
    PROVE  Inv'
  <1>1. PICK L : Good(L)
    BY DEF Inv
  <1>2. TypeInv /\ Protocol /\ Shape(L) /\ Buckets(L, value) /\ Counted(L) /\ Pointer(L)
    BY <1>1 DEF Inv, Good
  <1>3. ~ Destroying /\ job.op = "none" /\ job' = job /\ held' = held /\ item_count' = item_count
    BY <1>2 DEF Destroying, Idle, Protocol
  <1>4. /\ before' \in [map : SUBSET Pair, queue : Seq(Pair)]
        /\ before'.map = Pairs(L, value) /\ before'.queue = Cont(L[Plain], value)
    BY <1>2, <1>3, Remembers
  <1>5. Prepares
    BY <1>2, <1>4 DEF Prepares, TypeInv
  <1>6. Begun(L, op, Plain, match, index)
    BY <1>2, <1>3, <1>5, BucketQueue, StartBegins
  <1>7. /\ TypeInv' /\ Shape(L)' /\ Buckets(L, value)' /\ Pairs(L, value)' = Pairs(L, value)
        /\ Cont(L[Plain], value)' = Cont(L[Plain], value)
        /\ ~ Idle' /\ call'.op = op /\ call'.q = Plain /\ call'.match = match /\ call'.index = index
        /\ call'.at = "loop" /\ value' = value
        /\ 1 \in 1 .. (Len(L[Plain]) + 1) /\ curr' = At(L[Plain], 1) /\ prev' = At(L[Plain], 1 - 1) /\ n' = 0
    BY <1>6, BucketQueue DEF Begun
  <1>8. Protocol'
    BY <1>3, <1>7 DEF Protocol
  <1>9. Counted(L)'
    BY <1>2, <1>3, <1>4, <1>7 DEF Counted
  <1>10. Pointer(L)'
    BY <1>2, <1>3, <1>7 DEF Pointer, find_bucket
  <1>11. QueueLoop(Cont(L[Plain], value), 1)'
    <2>1. PICK b \in Seq(Pair) : b = before'.queue
      BY <1>4
    <2>2. 0 \in 0 .. Len(b) /\ Erased(match, 0, b, b, 1, 0)
      BY ErasedStart
    <2>3. Cont(L[Plain], value)' = b
      BY <2>1, <1>4, <1>7
    <2>4. \E m \in 0 .. Len(b) : Erased(match, 0, b, b, 1, m)
      BY <2>2
    <2>5. \E m \in 0 .. Len(before'.queue) :
              Erased(call'.match, n', before'.queue, Cont(L[Plain], value)', 1, m)
      BY <2>1, <2>3, <2>4, <1>7
    <2>6. (\E m \in 0 .. Len(before.queue) :
              Erased(call.match, n, before.queue, Cont(L[Plain], value), 1, m))'
      BY <2>5 DEF Erased, KeptOf, IsKept
    <2>7. 0 <= index
      OBVIOUS
    <2> QED BY <2>1, <2>3, <2>6, <2>7, <1>7 DEF QueueLoop
  <1>12. Progress(L)'
    <2>1. \E j \in 1 .. (Len(L[call'.q]) + 1) :
             /\ curr' = At(L[call'.q], j) /\ prev' = At(L[call'.q], j - 1)
             /\ QueueLoop(Cont(L[Plain], value), j)'
      BY <1>7, <1>11
    <2>2. Pairs(L, value)' = before'.map
      BY <1>4, <1>7
    <2> QED BY <2>1, <2>2, <1>3, <1>7 DEF Progress, At
  <1> QED BY <1>7, <1>8, <1>9, <1>10, <1>12 DEF Inv, Good

LEMMA QueueCallInv == ASSUME Inv, QueueCall PROVE Inv'
  <1>1. Idle /\ Remember /\ UNCHANGED <<heap, objects, item_count, job, held>>
    BY DEF QueueCall
  <1>2. ASSUME NEW op \in {"insert", "erase_item", "find"}, NEW pair \in Elems,
               Start(op, Plain, Equal(pair), 0)
        PROVE  Inv'
    <2>1. pair \in Pair /\ Equal(pair) = {pair}
      BY MapAssumption, PairIs
    <2>2. PICK m \in SUBSET Pair : m = Equal(pair)
      BY <2>1
    <2>3. Start(op, Plain, m, 0) /\ op \in Ops /\ 0 \in Nat /\ \E other \in Pair : m = {other}
      BY <1>2, <2>1, <2>2 DEF Ops
    <2> QED BY <2>3, <1>1, QueueStartInv
  <1>3. ASSUME NEW key \in Keys, Start("find", Plain, WithKey(key), 0) PROVE Inv'
    <2>1. PICK m \in SUBSET Pair : m = WithKey(key)
      BY DEF WithKey
    <2>2. PICK op \in Ops : op = "find"
      BY DEF Ops
    <2>3. Start(op, Plain, m, 0) /\ 0 \in Nat /\ op # "insert"
      BY <1>3, <2>1, <2>2
    <2> QED BY <2>3, <1>1, QueueStartInv
  <1>4. ASSUME NEW index \in 0 .. MaxIndex, Start("erase_idx", Plain, {}, index) PROVE Inv'
    <2>1. PICK m \in SUBSET Pair : m = {}
      OBVIOUS
    <2>2. PICK op \in Ops : op = "erase_idx"
      BY DEF Ops
    <2>3. Start(op, Plain, m, index) /\ index \in Nat /\ op # "insert"
      BY <1>4, <2>1, <2>2, MapAssumption
    <2> QED BY <2>3, <1>1, QueueStartInv
  <1>5. ASSUME NEW op \in {"dequeue", "top", "destroy"}, Start(op, Plain, {}, 0) PROVE Inv'
    <2>1. PICK m \in SUBSET Pair : m = {}
      OBVIOUS
    <2>2. Start(op, Plain, m, 0) /\ 0 \in Nat /\ op \in Ops /\ op # "insert"
      BY <1>5, <2>1 DEF Ops
    <2> QED BY <2>2, <1>1, QueueStartInv
  <1> QED BY <1>2, <1>3, <1>4, <1>5 DEF QueueCall


\* A step of the map that starts an operation of the bucket.
LEMMA MapStartInv ==
    ASSUME NEW L, TypeInv, Shape(L), Buckets(L, value), ~ Destroying, Prepares,
           NEW op \in Ops, NEW q \in Queues, NEW match \in SUBSET Pair, Start(op, q, match, 0),
           Protocol', job'.op # "none", item_count = Cardinality(before'.map),
           Cont(L[Plain], value) = before'.queue, Pointer(L)',
           MapLoop(Cont(L[q], value), Pairs(L, value), 1)'
    PROVE  Inv'
  <1>1. Begun(L, op, q, match, 0)
    BY StartBegins
  <1>2. /\ TypeInv' /\ Shape(L)' /\ Buckets(L, value)'
        /\ \A r \in Queues : Cont(L[r], value)' = Cont(L[r], value)
        /\ ~ Idle' /\ call'.q = q /\ call'.at = "loop"
        /\ 1 \in 1 .. (Len(L[q]) + 1) /\ curr' = At(L[q], 1) /\ prev' = At(L[q], 1 - 1)
    BY <1>1 DEF Begun
  <1>3. Counted(L)'
    BY <1>2 DEF Counted, Prepares
  <1>4. Progress(L)'
    <2>1. \E j \in 1 .. (Len(L[call'.q]) + 1) :
             /\ curr' = At(L[call'.q], j) /\ prev' = At(L[call'.q], j - 1)
             /\ MapLoop(Cont(L[call.q], value), Pairs(L, value), j)'
      BY <1>2
    <2>2. Cont(L[Plain], value)' = before'.queue
      BY <1>2, BucketQueue
    <2> QED BY <2>1, <2>2, <1>2 DEF Progress, At
  <1> QED BY <1>2, <1>3, <1>4 DEF Inv, Good

LEMMA MapCallInv ==
    ASSUME Inv, NEW op \in {"insert", "find", "erase"}, NEW key \in Keys, NEW val \in Vals, MapCall(op, key, val)
    PROVE  Inv'
  <1>1. /\ Idle /\ job' = [op |-> op, stage |-> "look", key |-> key, val |-> val]
        /\ Start("find", find_bucket(key), WithKey(key), 0) /\ Remember
        /\ UNCHANGED <<heap, objects, item_count, held>>
    BY DEF MapCall
  <1>2. PICK L : Good(L)
    BY DEF Inv
  <1>3. TypeInv /\ Protocol /\ Shape(L) /\ Buckets(L, value) /\ Counted(L) /\ Pointer(L)
    BY <1>2 DEF Inv, Good
  <1>4. ~ Destroying /\ job.op = "none" /\ held' = held /\ UNCHANGED <<next, value, live, head, size>>
    BY <1>1, <1>3 DEF Destroying, Idle, Protocol, heap, objects
  <1>5. /\ before' \in [map : SUBSET Pair, queue : Seq(Pair)]
        /\ before'.map = Pairs(L, value) /\ before'.queue = Cont(L[Plain], value)
    BY <1>1, <1>3, <1>4, Remembers
  <1>6. /\ job' \in [op : {"none", "insert", "find", "erase"}, stage : {"look", "change"},
                     key : Keys, val : Vals]
        /\ job'.op = op /\ job'.op # "none" /\ job'.stage = "look" /\ job'.key = key
    BY <1>1
  <1>7. Prepares
    BY <1>1, <1>5, <1>6 DEF Prepares
  <1>8. PICK f \in Ops : f = "find"
    BY DEF Ops
  <1>9. PICK q \in Queues : q = find_bucket(key)
    BY BucketQueue
  <1>10. PICK m \in SUBSET Pair : m = WithKey(key)
    BY DEF WithKey
  <1>11. Start(f, q, m, 0)
    BY <1>1, <1>8, <1>9, <1>10
  <1>12. Begun(L, f, q, m, 0)
    BY <1>3, <1>4, <1>7, <1>11, StartBegins
  <1>13. /\ ~ Idle' /\ call'.op = "find" /\ call'.q = find_bucket(job'.key) /\ call'.match = WithKey(job'.key)
         /\ call'.at = "loop" /\ Pairs(L, value)' = Pairs(L, value)
    BY <1>6, <1>8, <1>9, <1>10, <1>12 DEF Begun
  <1>14. Protocol'
    BY <1>6, <1>13 DEF Protocol, find_bucket, WithKey
  <1>15. item_count = Cardinality(before'.map)
    BY <1>1, <1>3, <1>5 DEF Counted
  <1>16. Pointer(L)'
    BY <1>3, <1>4 DEF Pointer, find_bucket
  <1>17. MapLoop(Cont(L[q], value), Pairs(L, value), 1)'
    BY <1>5, <1>6, <1>13 DEF MapLoop
  <1> QED BY <1>3, <1>4, <1>5, <1>6, <1>7, <1>11, <1>14, <1>15, <1>16, <1>17, MapStartInv

\* The map has looked the key up.
LookedUp(L) ==
    /\ TypeInv /\ Protocol /\ Good(L) /\ Shape(L) /\ Buckets(L, value) /\ Counted(L) /\ Pointer(L)
    /\ ~ Idle /\ ~ Destroying /\ job.op # "none" /\ job.key \in Keys /\ job.val \in Vals
    /\ call.q = find_bucket(job.key) /\ call.q \in Bucket /\ call.q \in Queues
    /\ item_count = Cardinality(before.map) /\ Cont(L[Plain], value) = before.queue
    /\ MapDone(L[call.q], Pairs(L, value))

LEMMA ReturnedToMap ==
    ASSUME Inv, job.op # "none", call.at = "returned"
    PROVE  \E L : LookedUp(L)
  <1>1. PICK L : Good(L)
    BY DEF Inv
  <1>2. TypeInv /\ Protocol /\ Shape(L) /\ Buckets(L, value) /\ Counted(L) /\ Pointer(L) /\ Progress(L)
    BY <1>1 DEF Inv, Good
  <1>3. ~ Idle /\ ~ Destroying /\ job.key \in Keys /\ job.val \in Vals /\ call.q = find_bucket(job.key)
    BY <1>2 DEF Protocol, Destroying, TypeInv
  <1>4. call.q \in Bucket /\ call.q \in Queues
    BY <1>3, BucketQueue
  <1>5. item_count = Cardinality(before.map)
    BY <1>2, <1>3 DEF Counted
  <1>6. Cont(L[Plain], value) = before.queue /\ MapDone(L[call.q], Pairs(L, value))
    BY <1>2, <1>3 DEF Progress
  <1> QED BY <1>1, <1>2, <1>3, <1>4, <1>5, <1>6 DEF LookedUp

\* The node that was found, and the only pair of its key.
LEMMA FoundPair ==
    ASSUME NEW L, LookedUp(L), Found
    PROVE  /\ value[ret.num] \in Pair /\ value[ret.num].first = job.key /\ value[ret.num] \in before.map
           /\ {pair \in before.map : pair.first = job.key} = {value[ret.num]}
           /\ \E i \in 1 .. Len(L[call.q]) : L[call.q][i] = ret.num
           /\ Pairs(L, value) = before.map
  <1>1. PICK i \in 1 .. Len(L[call.q]) : L[call.q][i] = ret.num /\ value[L[call.q][i]].first = job.key
    BY DEF LookedUp, MapDone, Found
  <1>2. Pairs(L, value) = before.map
    BY DEF LookedUp, MapDone, Found
  <1>3. PICK b \in Bucket : b = call.q
    BY DEF LookedUp
  <1>4. b \in Queues /\ b = find_bucket(job.key) /\ Buckets(L, value)
    BY <1>3 DEF LookedUp
  <1>5. value[ret.num] \in Pair
    <2>1. Linked(L, Roots, next, live) /\ \A p \in live : value[p] \in Pair
      BY DEF LookedUp, Shape
    <2>2. L[b][i] \in live
      BY <2>1, <1>1, <1>3, <1>4, LinkedNode
    <2> QED BY <2>1, <2>2, <1>1, <1>3
  <1>6. value[ret.num] \in before.map
    BY <1>1, <1>2, <1>3, <1>5 DEF Pairs
  <1>7. ASSUME NEW pair \in before.map, pair.first = job.key PROVE pair = value[ret.num]
    <2>1. pair \in Pairs(L, value)
      BY <1>2
    <2>2. PICK j \in 1 .. Len(L[b]) : value[L[b][j]] = pair
      BY <2>1, <1>4, <1>7, KeyInBucket
    <2>3. j = i
      BY <2>2, <1>1, <1>3, <1>4, <1>7 DEF Buckets
    <2> QED BY <2>2, <2>3, <1>1, <1>3
  <1> QED BY <1>1, <1>2, <1>5, <1>6, <1>7

LEMMA InsertNewInv == ASSUME Inv, InsertNew PROVE Inv'
  <1>1. /\ job.op = "insert" /\ Missing
        /\ Start("insert", find_bucket(job.key), {[first |-> job.key, second |-> job.val]}, 0)
        /\ job' = [job EXCEPT !.stage = "change"] /\ UNCHANGED <<heap, objects, item_count, held, before>>
    BY DEF InsertNew
  <1>2. PICK L : LookedUp(L)
    BY <1>1, ReturnedToMap DEF Missing
  <1>3. /\ job' \in [op : {"none", "insert", "find", "erase"}, stage : {"look", "change"},
                     key : Keys, val : Vals]
        /\ job'.op = "insert" /\ job'.stage = "change" /\ job'.key = job.key /\ job'.val = job.val
    BY <1>1, <1>2 DEF LookedUp, TypeInv
  <1>4. Prepares
    BY <1>1, <1>2, <1>3 DEF Prepares, LookedUp, TypeInv
  <1>5. PICK f \in Ops : f = "insert"
    BY DEF Ops
  <1>6. PICK q \in Queues : q = find_bucket(job.key)
    BY <1>2 DEF LookedUp
  <1>7. PICK m \in SUBSET Pair : m = {[first |-> job.key, second |-> job.val]}
    <2>1. job.key \in Keys /\ job.val \in Vals
      BY <1>2 DEF LookedUp
    <2>2. PICK e \in Pair : e = [first |-> job.key, second |-> job.val]
      BY <2>1, PairIs
    <2>3. {e} \in SUBSET Pair
      OBVIOUS
    <2> QED BY <2>2, <2>3
  <1>8. Start(f, q, m, 0)
    BY <1>1, <1>5, <1>6, <1>7
  <1>9. TypeInv /\ Shape(L) /\ Buckets(L, value) /\ ~ Destroying
    BY <1>2 DEF LookedUp
  <1>10. Begun(L, f, q, m, 0)
    BY <1>4, <1>8, <1>9, StartBegins
  <1>11. /\ ~ Idle' /\ call'.op = "insert" /\ call'.q = find_bucket(job'.key)
         /\ call'.match = {[first |-> job'.key, second |-> job'.val]}
         /\ Pairs(L, value)' = Pairs(L, value) /\ value' = value
    BY <1>3, <1>5, <1>6, <1>7, <1>10 DEF Begun
  <1>12. Protocol'
    BY <1>3, <1>11 DEF Protocol, find_bucket
  <1>13. Pointer(L)'
    BY <1>1, <1>2, <1>11 DEF LookedUp, Pointer, find_bucket
  <1>14. MapLoop(Cont(L[q], value), Pairs(L, value), 1)'
    BY <1>1, <1>2, <1>3, <1>11 DEF MapLoop, LookedUp, MapDone, Missing, Absent
  <1>15. item_count = Cardinality(before'.map) /\ Cont(L[Plain], value) = before'.queue
    BY <1>1, <1>2 DEF LookedUp
  <1> QED BY <1>3, <1>4, <1>8, <1>9, <1>12, <1>13, <1>14, <1>15, MapStartInv

LEMMA EraseFoundInv == ASSUME Inv, EraseFound PROVE Inv'
  <1>1. /\ job.op = "erase" /\ Found
        /\ Start("erase_item", find_bucket(job.key), Equal(value[ret.num]), 0)
        /\ job' = [job EXCEPT !.stage = "change"] /\ UNCHANGED <<heap, objects, item_count, held, before>>
    BY DEF EraseFound
  <1>2. PICK L : LookedUp(L)
    BY <1>1, ReturnedToMap DEF Found
  <1>3. /\ job' \in [op : {"none", "insert", "find", "erase"}, stage : {"look", "change"},
                     key : Keys, val : Vals]
        /\ job'.op = "erase" /\ job'.stage = "change" /\ job'.key = job.key
    BY <1>1, <1>2 DEF LookedUp, TypeInv
  <1>4. Prepares
    BY <1>1, <1>2, <1>3 DEF Prepares, LookedUp, TypeInv
  <1>5. PICK f \in Ops : f = "erase_item"
    BY DEF Ops
  <1>6. PICK q \in Queues : q = find_bucket(job.key)
    BY <1>2 DEF LookedUp
  <1>7. PICK pair \in Pair : pair = value[ret.num]
    BY <1>1, <1>2, FoundPair
  <1>8. pair.first = job.key /\ pair \in before.map /\ Pairs(L, value) = before.map
    BY <1>1, <1>2, <1>7, FoundPair
  <1>9. PICK m \in SUBSET Pair : m = {pair}
    OBVIOUS
  <1>10. Start(f, q, m, 0)
    <2>1. Equal(pair) = m
      BY <1>9, PairIs
    <2>2. Equal(value[ret.num]) = m
      BY <2>1, <1>7
    <2> QED BY <2>2, <1>1, <1>5, <1>6
  <1>11. TypeInv /\ Shape(L) /\ Buckets(L, value) /\ ~ Destroying
    BY <1>2 DEF LookedUp
  <1>12. Begun(L, f, q, m, 0)
    BY <1>4, <1>10, <1>11, StartBegins
  <1>13. /\ ~ Idle' /\ call'.op = "erase_item" /\ call'.q = find_bucket(job'.key)
         /\ call'.match = {pair} /\ Pairs(L, value)' = Pairs(L, value) /\ value' = value /\ n' = 0
    BY <1>3, <1>5, <1>6, <1>9, <1>12 DEF Begun
  <1>14. Protocol'
    BY <1>3, <1>8, <1>13 DEF Protocol, find_bucket
  <1>15. Pointer(L)'
    BY <1>1, <1>2, <1>3, <1>13 DEF LookedUp, Pointer, find_bucket
  <1>16. MapLoop(Cont(L[q], value), Pairs(L, value), 1)'
    <2>1. before' = before
      BY <1>1
    <2> QED BY <2>1, <1>3, <1>8, <1>13 DEF MapLoop
  <1>17. item_count = Cardinality(before'.map) /\ Cont(L[Plain], value) = before'.queue
    BY <1>1, <1>2 DEF LookedUp
  <1> QED BY <1>3, <1>4, <1>10, <1>11, <1>14, <1>15, <1>16, <1>17, MapStartInv


\* The map answers its caller.
Answers(result) ==
    /\ job.op # "none" /\ call.at = "returned" /\ Answer(result)
    /\ result \in [ok : BOOLEAN, num : Nat, val : Pair \cup {Blank}]
    /\ UNCHANGED <<heap, objects, job, before>>

LEMMA AnswerInv ==
    ASSUME NEW L, LookedUp(L), NEW result, Answers(result), item_count' \in Nat,
           held' \in [key : Keys, ptr : Node \cup {NULL}],
           item_count' = Cardinality(Pairs(L, value)), Pointer(L)',
           MapAnswer(Pairs(L, value))'
    PROVE  Inv'
  <1>1. /\ job.op # "none" /\ call.at = "returned" /\ ret' = result
        /\ call' = [call EXCEPT !.at = "answered"] /\ UNCHANGED <<curr, prev, n>>
        /\ result \in [ok : BOOLEAN, num : Nat, val : Pair \cup {Blank}]
        /\ UNCHANGED <<next, value, live, head, size, job, before>> /\ UNCHANGED <<heap, objects>>
    BY DEF Answers, Answer, heap, objects
  <1>2. /\ TypeInv /\ Protocol /\ Shape(L) /\ Buckets(L, value) /\ ~ Idle /\ ~ Destroying
        /\ Cont(L[Plain], value) = before.queue
    BY DEF LookedUp
  <1>3. /\ call' \in [op : Ops \cup {"none"}, q : Queues, match : SUBSET Pair, index : Nat,
                      at : {"loop", "returned", "answered", "fault"}]
        /\ call'.op = call.op /\ call'.q = call.q /\ call'.match = call.match /\ call'.at = "answered"
    BY <1>1, <1>2 DEF TypeInv
  <1>4. ~ Idle' /\ ~ Destroying'
    BY <1>2, <1>3 DEF Idle, Destroying
  <1>5. /\ Shape(L)' /\ Buckets(L, value)' /\ Pairs(L, value)' = Pairs(L, value)
        /\ \A r \in Queues : Cont(L[r], value)' = Cont(L[r], value)
    BY <1>1, <1>2, <1>4, KeepLists
  <1>6. TypeOK'
    BY <1>1, <1>2 DEF TypeInv, TypeOK
  <1>7. TypeInv'
    BY <1>1, <1>2, <1>3, <1>6 DEF TypeInv
  <1>8. Protocol'
    <2>1. job'.op # "none" /\ call'.q = find_bucket(job'.key)
      BY <1>1, <1>2, <1>3 DEF Protocol
    <2>2. job'.stage = "look" => call'.op = "find" /\ call'.match = WithKey(job'.key)
      BY <1>1, <1>2, <1>3 DEF Protocol
    <2>3. job'.stage = "change" =>
             \/ /\ job'.op = "insert" /\ call'.op = "insert"
                /\ call'.match = {[first |-> job'.key, second |-> job'.val]}
             \/ /\ job'.op = "erase" /\ call'.op = "erase_item"
                /\ \E pair \in Pair : pair.first = job'.key /\ call'.match = {pair}
      BY <1>1, <1>2, <1>3 DEF Protocol
    <2> QED BY <2>1, <2>2, <2>3, <1>3, <1>4 DEF Protocol, find_bucket, WithKey
  <1>9. Counted(L)'
    BY <1>3, <1>5 DEF Counted
  <1>10. Progress(L)'
    BY <1>1, <1>2, <1>3, <1>5, BucketQueue DEF Progress
  <1> QED BY <1>5, <1>7, <1>8, <1>9, <1>10 DEF Inv, Good

\* MapAnswer of the next state.
LEMMA MapAnswerNext ==
    ASSUME NEW x, NEW present, present = {pair \in before.map : pair.first = job.key},
           UNCHANGED <<job, before, value>>,
           job.op = "insert" =>
              /\ ret'.ok = (present = {})
              /\ x = before.map \cup (IF ret'.ok THEN {[first |-> job.key, second |-> job.val]} ELSE {}),
           job.op = "erase" => ret'.ok = (present # {}) /\ x = before.map \ present,
           job.op = "find" => /\ x = before.map
                              /\ IF present = {} THEN ret'.num = NULL ELSE {value[ret'.num]} = present
    PROVE  MapAnswer(x)'
  BY DEF MapAnswer

\* The pairs of the map at the call, and what was counted.
LEMMA CountedPairs ==
    ASSUME NEW L, LookedUp(L)
    PROVE  IsFiniteSet(Pairs(L, value)) /\ item_count \in Nat
  <1>1. L \in [Queues -> Seq(Node)] /\ Buckets(L, value)
    BY DEF LookedUp, Shape, Linked
  <1> QED BY <1>1, PairsCount DEF LookedUp, TypeInv, TypeOK

LEMMA RefusedInv ==
    ASSUME Inv, job.op \in {"insert", "erase"}, job.op = "insert" => Found, job.op = "erase" => Missing,
           Answer(Success(FALSE)), UNCHANGED <<heap, objects, item_count, job, held, before>>
    PROVE  Inv'
  <1>1. PICK L : LookedUp(L)
    BY ReturnedToMap DEF Found, Missing
  <1>2. PICK result : result = Success(FALSE)
    OBVIOUS
  <1>3. result \in [ok : BOOLEAN, num : Nat, val : Pair \cup {Blank}] /\ result.ok = FALSE
    BY <1>2, Results
  <1>4. Answers(result)
    BY <1>2, <1>3 DEF Answers, Found, Missing
  <1>5. /\ UNCHANGED <<job, before, value>> /\ ret' = result /\ held' = held /\ item_count' = item_count
    BY <1>4 DEF Answers, Answer, heap
  <1>6. Pairs(L, value) = before.map
    BY <1>1 DEF LookedUp, MapDone, Found, Missing
  <1>7. PICK present : present = {pair \in before.map : pair.first = job.key}
    OBVIOUS
  <1>8. (job.op = "insert" => present # {}) /\ (job.op = "erase" => present = {})
    <2>1. job.op = "insert" => present # {}
      BY <1>1, <1>7, FoundPair
    <2>2. job.op = "erase" => present = {}
      BY <1>1, <1>7 DEF LookedUp, MapDone, Missing, Absent
    <2> QED BY <2>1, <2>2
  <1>9. PICK x : x = Pairs(L, value)
    OBVIOUS
  <1>10. x = before.map /\ ret'.ok = FALSE
    BY <1>3, <1>5, <1>6, <1>9
  <1>11. MapAnswer(x)'
    BY <1>5, <1>7, <1>8, <1>10, MapAnswerNext
  <1>12. MapAnswer(Pairs(L, value))'
    <2>1. Pairs(L, value)' = x
      BY <1>5, <1>9 DEF Pairs
    <2> QED BY <2>1, <1>11 DEF MapAnswer
  <1>13. Pointer(L)'
    BY <1>1, <1>5 DEF LookedUp, Pointer, find_bucket
  <1>14. /\ item_count' \in Nat /\ held' \in [key : Keys, ptr : Node \cup {NULL}]
         /\ item_count' = Cardinality(Pairs(L, value))
    BY <1>1, <1>5, <1>6 DEF LookedUp, TypeInv, TypeOK
  <1> QED BY <1>1, <1>4, <1>12, <1>13, <1>14, AnswerInv

LEMMA InsertDoneInv == ASSUME Inv, InsertDone PROVE Inv'
  <1>1. /\ job.op = "insert" /\ call.at = "returned" /\ job.stage = "change"
        /\ item_count' = item_count + 1 /\ Answer(Success(TRUE))
        /\ UNCHANGED <<heap, objects, job, held, before>>
    BY DEF InsertDone
  <1>2. PICK L : LookedUp(L)
    BY <1>1, ReturnedToMap
  <1>3. PICK result : result = Success(TRUE)
    OBVIOUS
  <1>4. result \in [ok : BOOLEAN, num : Nat, val : Pair \cup {Blank}] /\ result.ok = TRUE
    BY <1>3, Results
  <1>5. Answers(result)
    BY <1>1, <1>3, <1>4 DEF Answers
  <1>6. UNCHANGED <<job, before, value>> /\ ret' = result /\ held' = held
    BY <1>1, <1>5 DEF Answers, Answer, heap
  <1>7. PICK e : e = [first |-> job.key, second |-> job.val]
    OBVIOUS
  <1>8. PICK x : x = Pairs(L, value)
    OBVIOUS
  <1>9. x = before.map \cup {e} /\ Absent /\ e.first = job.key
    BY <1>1, <1>2, <1>7, <1>8 DEF LookedUp, MapDone
  <1>10. PICK present : present = {pair \in before.map : pair.first = job.key}
    OBVIOUS
  <1>11. present = {} /\ e \notin before.map
    BY <1>9, <1>10 DEF Absent
  <1>12. MapAnswer(x)'
    BY <1>1, <1>4, <1>6, <1>7, <1>9, <1>10, <1>11, MapAnswerNext
  <1>13. MapAnswer(Pairs(L, value))'
    <2>1. Pairs(L, value)' = x
      BY <1>6, <1>8 DEF Pairs
    <2> QED BY <2>1, <1>12 DEF MapAnswer
  <1>14. Pointer(L)'
    BY <1>2, <1>6 DEF LookedUp, Pointer, find_bucket
  <1>15. item_count' \in Nat /\ item_count' = Cardinality(Pairs(L, value))
    <2>1. PICK b : b = before.map
      OBVIOUS
    <2>2. IsFiniteSet(x) /\ item_count \in Nat /\ item_count = Cardinality(b) /\ x = b \cup {e} /\ e \notin b
      BY <2>1, <1>2, <1>8, <1>9, <1>11, CountedPairs DEF LookedUp
    <2>3. IsFiniteSet(b)
      BY <2>2, FS_Subset
    <2>4. PICK m \in Nat : m = Cardinality(b)
      BY <2>3, FS_CardinalityType
    <2>5. Cardinality(x) = m + 1 /\ item_count = m
      BY <2>2, <2>3, <2>4, FS_AddElement
    <2>6. item_count' = m + 1
      BY <2>5, <1>1
    <2> QED BY <2>5, <2>6, <1>8
  <1>16. held' \in [key : Keys, ptr : Node \cup {NULL}]
    BY <1>2, <1>6 DEF LookedUp, TypeInv
  <1> QED BY <1>2, <1>5, <1>13, <1>14, <1>15, <1>16, AnswerInv

LEMMA EraseDoneInv == ASSUME Inv, EraseDone PROVE Inv'
  <1>1. /\ job.op = "erase" /\ call.at = "returned" /\ job.stage = "change"
        /\ item_count' = item_count - 1 /\ Answer(Success(TRUE))
        /\ UNCHANGED <<heap, objects, job, held, before>>
    BY DEF EraseDone
  <1>2. PICK L : LookedUp(L)
    BY <1>1, ReturnedToMap
  <1>3. PICK result : result = Success(TRUE)
    OBVIOUS
  <1>4. result \in [ok : BOOLEAN, num : Nat, val : Pair \cup {Blank}] /\ result.ok = TRUE
    BY <1>3, Results
  <1>5. Answers(result)
    BY <1>1, <1>3, <1>4 DEF Answers
  <1>6. UNCHANGED <<job, before, value>> /\ ret' = result /\ held' = held
    BY <1>1, <1>5 DEF Answers, Answer, heap
  <1>7. PICK x : x = Pairs(L, value)
    OBVIOUS
  <1>8. PICK e \in before.map : e.first = job.key /\ x = before.map \ {e} /\ \A other \in x : other.first # job.key
    BY <1>1, <1>2, <1>7 DEF LookedUp, MapDone
  <1>9. PICK present : present = {pair \in before.map : pair.first = job.key}
    OBVIOUS
  <1>10. present = {e}
    BY <1>8, <1>9
  <1>11. MapAnswer(x)'
    BY <1>1, <1>4, <1>6, <1>8, <1>9, <1>10, MapAnswerNext
  <1>12. MapAnswer(Pairs(L, value))'
    <2>1. Pairs(L, value)' = x
      BY <1>6, <1>7 DEF Pairs
    <2> QED BY <2>1, <1>11 DEF MapAnswer
  <1>13. Pointer(L)'
    BY <1>2, <1>6 DEF LookedUp, Pointer, find_bucket
  <1>14. item_count' \in Nat /\ item_count' = Cardinality(Pairs(L, value))
    <2>1. PICK b : b = before.map
      OBVIOUS
    <2>2. IsFiniteSet(x) /\ item_count \in Nat /\ item_count = Cardinality(b) /\ b = x \cup {e} /\ e \notin x
      BY <2>1, <1>2, <1>7, <1>8, CountedPairs DEF LookedUp
    <2>3. PICK m \in Nat : m = Cardinality(x)
      BY <2>2, FS_CardinalityType
    <2>4. item_count = m + 1
      BY <2>2, <2>3, FS_AddElement
    <2>5. item_count' = m
      BY <2>4, <1>1
    <2> QED BY <2>3, <2>5, <1>7
  <1>15. held' \in [key : Keys, ptr : Node \cup {NULL}]
    BY <1>2, <1>6 DEF LookedUp, TypeInv
  <1> QED BY <1>2, <1>5, <1>12, <1>13, <1>14, <1>15, AnswerInv

LEMMA FindAnsweredInv == ASSUME Inv, FindAnswered PROVE Inv'
  <1>1. /\ job.op = "find" /\ (Found \/ Missing) /\ Answer(ret)
        /\ held' = (IF Found THEN [key |-> job.key, ptr |-> ret.num] ELSE held)
        /\ UNCHANGED <<heap, objects, item_count, job, before>>
    BY DEF FindAnswered
  <1>2. PICK L : LookedUp(L)
    BY <1>1, ReturnedToMap DEF Found, Missing
  <1>3. PICK result : result = ret
    OBVIOUS
  <1>4. Answers(result)
    BY <1>1, <1>2, <1>3 DEF Answers, Found, Missing, LookedUp, TypeInv
  <1>5. UNCHANGED <<job, before, value, item_count>> /\ ret' = ret
    BY <1>1, <1>3, <1>4 DEF Answers, Answer, heap
  <1>6. PICK x : x = Pairs(L, value)
    OBVIOUS
  <1>7. x = before.map
    BY <1>1, <1>2, <1>6 DEF LookedUp, MapDone, Found, Missing
  <1>8. PICK present : present = {pair \in before.map : pair.first = job.key}
    OBVIOUS
  <1>9. IF present = {} THEN ret'.num = NULL ELSE {value[ret'.num]} = present
    <2>1. CASE Found
      BY <2>1, <1>2, <1>5, <1>8, FoundPair
    <2>2. CASE Missing
      BY <2>2, <1>2, <1>5, <1>8 DEF LookedUp, MapDone, Missing, Absent
    <2> QED BY <2>1, <2>2, <1>1
  <1>10. MapAnswer(x)'
    BY <1>1, <1>5, <1>7, <1>8, <1>9, MapAnswerNext
  <1>11. MapAnswer(Pairs(L, value))'
    <2>1. Pairs(L, value)' = x
      BY <1>5, <1>6 DEF Pairs
    <2> QED BY <2>1, <1>10 DEF MapAnswer
  <1>12. held' \in [key : Keys, ptr : Node \cup {NULL}] /\ Pointer(L)'
    <2>1. CASE Found
      <3>1. PICK i \in 1 .. Len(L[call.q]) : L[call.q][i] = ret.num
        BY <2>1, <1>2, FoundPair
      <3>2. value[ret.num].first = job.key /\ call.q = find_bucket(job.key) /\ call.q \in Queues /\ job.key \in Keys
        BY <2>1, <1>2, FoundPair DEF LookedUp
      <3>3. ret.num \in Node
        <4>1. Linked(L, Roots, next, live)
          BY <1>2 DEF LookedUp, Shape
        <4> QED BY <4>1, <3>1, <3>2, LinkedNode
      <3>4. /\ held' = [key |-> job.key, ptr |-> ret.num]
            /\ held' \in [key : Keys, ptr : Node \cup {NULL}]
            /\ held'.key = job.key /\ held'.ptr = ret.num
        BY <2>1, <3>2, <3>3, <1>1
      <3>5. \E j \in 1 .. Len(L[find_bucket(held'.key)]) :
               L[find_bucket(held'.key)][j] = held'.ptr /\ value'[held'.ptr].first = held'.key
        BY <3>1, <3>2, <3>4, <1>5
      <3> QED BY <3>4, <3>5 DEF Pointer, find_bucket
    <2>2. CASE ~ Found
      <3>1. held' = held
        BY <2>2, <1>1
      <3> QED BY <3>1, <1>2, <1>5 DEF LookedUp, TypeInv, Pointer, find_bucket
    <2> QED BY <2>1, <2>2
  <1>13. item_count' \in Nat /\ item_count' = Cardinality(Pairs(L, value))
    BY <1>2, <1>5, <1>6, <1>7 DEF LookedUp, TypeInv, TypeOK
  <1> QED BY <1>2, <1>4, <1>11, <1>12, <1>13, AnswerInv


\* The caller goes on.
LEMMA ResumedInv == ASSUME Inv, Resumed PROVE Inv'
  <1>1. /\ (call.at = "answered") \/ (call.at = "returned" /\ job.op = "none")
        /\ call' = NoCall /\ job' = NoJob /\ curr' = NULL /\ prev' = NULL /\ n' = 0 /\ ret' = Nothing
        /\ before' = NoHistory
        /\ held' = (IF job.op = "erase" /\ job.key = held.key THEN Nobody ELSE held)
        /\ UNCHANGED <<next, value, live, head, size, item_count>> /\ UNCHANGED <<heap, objects>>
    BY DEF Resumed, heap, objects
  <1>2. PICK L : Good(L)
    BY DEF Inv
  <1>3. TypeInv /\ Protocol /\ Shape(L) /\ Buckets(L, value) /\ Counted(L) /\ Pointer(L) /\ Progress(L)
    BY <1>2 DEF Inv, Good
  <1>4. ~ Idle /\ ~ Destroying
    <2>1. NoCall.at = "loop"
      BY DEF NoCall
    <2> QED BY <2>1, <1>1, <1>3 DEF Protocol, Destroying
  <1>5. /\ call' \in [op : Ops \cup {"none"}, q : Queues, match : SUBSET Pair, index : Nat,
                      at : {"loop", "returned", "answered", "fault"}]
        /\ call'.op = "none" /\ call'.at = "loop"
    <2>1. (CHOOSE q \in Queues : TRUE) \in Queues
      BY BucketQueue
    <2> QED BY <2>1, <1>1 DEF NoCall
  <1>6. /\ job' \in [op : {"none", "insert", "find", "erase"}, stage : {"look", "change"},
                     key : Keys, val : Vals]
        /\ job'.op = "none"
        /\ Nobody \in [key : Keys, ptr : Node \cup {NULL}] /\ Nobody.ptr = NULL
    <2>1. (CHOOSE k \in Keys : TRUE) \in Keys /\ (CHOOSE v \in Vals : TRUE) \in Vals
      BY MapAssumption
    <2> QED BY <2>1, <1>1 DEF NoJob, Nobody
  <1>7. Idle' /\ ~ Destroying'
    BY <1>5 DEF Idle, Destroying
  <1>8. /\ Shape(L)' /\ Buckets(L, value)' /\ Pairs(L, value)' = Pairs(L, value)
    BY <1>1, <1>3, <1>4, <1>7, KeepLists
  <1>9. TypeOK'
    BY <1>1, <1>3 DEF TypeInv, TypeOK
  <1>10. TypeInv'
    <2>1. before' \in [map : SUBSET Pair, queue : Seq(Pair)]
      BY <1>1 DEF NoHistory
    <2>2. held' \in [key : Keys, ptr : Node \cup {NULL}]
      BY <1>1, <1>3, <1>6 DEF TypeInv
    <2>3. ret' \in [ok : BOOLEAN, num : Nat, val : Pair \cup {Blank}]
      BY <1>1, Results
    <2> QED BY <2>1, <2>2, <2>3, <1>5, <1>6, <1>9 DEF TypeInv
  <1>11. Protocol'
    BY <1>1, <1>6, <1>7 DEF Protocol, NoCall
  <1>12. Counted(L)'
    <2>1. item_count = Cardinality(Pairs(L, value))
      BY <1>1, <1>3, <1>4 DEF Counted, Progress
    <2> QED BY <2>1, <1>1, <1>7, <1>8 DEF Counted
  <1>13. Pointer(L)'
    <2>1. CASE job.op = "erase" /\ job.key = held.key
      BY <2>1, <1>1, <1>6 DEF Pointer
    <2>2. CASE ~ (job.op = "erase" /\ job.key = held.key)
      BY <2>2, <1>1, <1>3 DEF Pointer, find_bucket
    <2> QED BY <2>1, <2>2
  <1>14. Progress(L)'
    BY <1>5, <1>7 DEF Progress
  <1> QED BY <1>8, <1>10, <1>11, <1>12, <1>13, <1>14 DEF Inv, Good

\* The caller writes through its pointer: the key of the pair stays.
LEMMA AssignInv == ASSUME Inv, NEW val \in Vals, Assign(val) PROVE Inv'
  <1>1. /\ Idle /\ held.ptr # NULL /\ value' = [value EXCEPT ![held.ptr].second = val]
        /\ UNCHANGED <<next, live, head, size, call, curr, prev, n, ret, item_count, job, held, before>>
    BY DEF Assign, objects, locals
  <1>2. PICK L : Good(L)
    BY DEF Inv
  <1>3. TypeInv /\ Protocol /\ Shape(L) /\ Buckets(L, value) /\ Counted(L) /\ Pointer(L) /\ Progress(L)
    BY <1>2 DEF Inv, Good
  <1>4. job.op = "none" /\ ~ Destroying /\ ~ Destroying' /\ Idle'
    BY <1>1, <1>3 DEF Protocol, Idle, Destroying
  <1>5. /\ Linked(L, Roots, next, live) /\ L \in [Queues -> Seq(Node)] /\ (\A p \in live : value[p] \in Pair)
        /\ \A q \in Queues : size[q] = Len(L[q])
    BY <1>3, <1>4 DEF Shape, Linked
  <1>6. PICK b \in Bucket : b = find_bucket(held.key)
    BY <1>3, BucketQueue DEF TypeInv
  <1>7. PICK j \in 1 .. Len(L[b]) : L[b][j] = held.ptr /\ value[held.ptr].first = held.key
    BY <1>1, <1>3, <1>4, <1>6 DEF Pointer
  <1>8. PICK p \in Node : p = held.ptr /\ p \in live
    <2>1. b \in Queues
      BY BucketQueue
    <2> QED BY <2>1, <1>5, <1>7, LinkedNode
  <1>9. PICK e \in Pair : e = value[p]
    BY <1>5, <1>8
  <1>10. PICK e2 : e2 = [e EXCEPT !.second = val]
    OBVIOUS
  <1>11. e2 \in Pair /\ e2.first = e.first
    BY <1>10 DEF Pair
  <1>12. value \in [Node -> Pair \cup {Blank}]
    BY <1>3 DEF TypeInv, TypeOK
  <1>13. value' = [value EXCEPT ![p] = e2]
    BY <1>1, <1>8, <1>9, <1>10, <1>12
  <1>14. /\ value' \in [Node -> Pair \cup {Blank}] /\ value'[p] = e2
         /\ \A x \in Node : x # p => value'[x] = value[x]
    BY <1>11, <1>12, <1>13
  <1>15. \A x \in live : value'[x] \in Pair /\ value'[x].first = value[x].first
    <2>1. live \subseteq Node
      BY <1>3 DEF TypeInv, TypeOK
    <2> QED BY <2>1, <1>5, <1>9, <1>11, <1>14
  <1>16. PICK v : v = value
    OBVIOUS
  <1>17. PICK v2 : v2 = value'
    OBVIOUS
  <1>18. Buckets(L, v2) /\ Cardinality(Pairs(L, v2)) = Cardinality(Pairs(L, v))
    <2>1. ASSUME NEW c \in Bucket, NEW i \in 1 .. Len(L[c])
          PROVE  v[L[c][i]] \in Pair /\ v2[L[c][i]] \in Pair /\ v2[L[c][i]].first = v[L[c][i]].first
      <3>1. c \in Queues
        BY BucketQueue
      <3>2. L[c][i] \in live
        BY <3>1, <1>5, LinkedNode
      <3> QED BY <3>2, <1>5, <1>15, <1>16, <1>17
    <2>2. Buckets(L, v)
      BY <1>3, <1>16
    <2> QED BY <2>1, <2>2, <1>5, PairsAssigned
  <1>19. Shape(L)'
    <2>1. Roots' = Roots
      BY <1>1 DEF Roots, Destroying
    <2>2. Linked(L, Roots', next', live')
      BY <2>1, <1>1, <1>5
    <2>3. Linked(L, Roots, next, live)'
      BY <2>2 DEF Linked, IsList
    <2> QED BY <2>3, <1>1, <1>5, <1>15 DEF Shape
  <1>20. Buckets(L, value)' /\ Pairs(L, value)' = Pairs(L, v2)
    BY <1>17, <1>18 DEF Buckets, Pairs
  <1>21. Counted(L)'
    BY <1>1, <1>3, <1>4, <1>16, <1>18, <1>20 DEF Counted
  <1>22. Pointer(L)'
    BY <1>1, <1>6, <1>7, <1>8, <1>15 DEF Pointer, find_bucket
  <1>23. TypeOK'
    BY <1>1, <1>3, <1>14 DEF TypeInv, TypeOK
  <1>24. TypeInv'
    BY <1>1, <1>3, <1>23 DEF TypeInv
  <1>25. Protocol'
    <2>1. call' = call /\ job' = job
      BY <1>1
    <2> QED BY <2>1, <1>3, <1>4 DEF Protocol, NoCall, Idle
  <1>26. Progress(L)'
    <2>1. call'.at # "answered"
      BY <1>1, <1>3 DEF Protocol, NoCall
    <2> QED BY <2>1, <1>4 DEF Progress
  <1> QED BY <1>19, <1>20, <1>21, <1>22, <1>24, <1>25, <1>26 DEF Inv, Good

-----------------------------------------------------------------------------
(* The theorems.                                                           *)

LEMMA QueueStepInv == ASSUME Inv, QueueStep, Rest PROVE Inv'
  <1>1. CASE EraseIdxHit
    <2>1. /\ In("erase_idx") /\ n = call.index /\ curr # NULL /\ Unlinked
          /\ Return(IF call.op = "dequeue" THEN Value(value[curr]) ELSE Success(TRUE))
      BY <1>1 DEF EraseIdxHit, In
    <2> QED BY <2>1, TakesInv
  <1>2. CASE Dequeue
    <2>1. CASE curr # NULL
      <3>1. /\ In("dequeue") /\ Unlinked
            /\ Return(IF call.op = "dequeue" THEN Value(value[curr]) ELSE Success(TRUE))
        BY <1>2, <2>1 DEF Dequeue, In
      <3> QED BY <2>1, <3>1, TakesInv
    <2>2. CASE curr = NULL
      <3>1. /\ In("dequeue") /\ UNCHANGED <<heap, objects>>
            /\ Return(IF curr = NULL THEN Nothing ELSE Value(value[curr]))
        BY <1>2, <2>2 DEF Dequeue
      <3> QED BY <2>2, <3>1, LooksInv
    <2> QED BY <2>1, <2>2
  <1>3. CASE Top
    <2>1. /\ In("top") /\ UNCHANGED <<heap, objects>>
          /\ Return(IF curr = NULL THEN Nothing ELSE Value(value[curr]))
      BY <1>3 DEF Top
    <2> QED BY <2>1, LooksInv
  <1> QED BY <1>1, <1>2, <1>3, InsertWalkInv, InsertNodeInv, InsertNoMemoryInv, EraseItemHitInv,
             EraseItemPassInv, EraseItemEndInv, EraseIdxWalkInv, EraseIdxMissInv, FindWalkInv, FindEndInv,
             DestroyNodeInv, DestroyEndInv DEF QueueStep

LEMMA StepInv == ASSUME Inv, Step PROVE Inv'
  <1>1. CASE Inner
    BY <1>1, QueueStepInv DEF Inner, Rest
  <1>2. CASE InsertRefused \/ EraseMissing
    <2>1. /\ job.op \in {"insert", "erase"} /\ (job.op = "insert" => Found) /\ (job.op = "erase" => Missing)
          /\ Answer(Success(FALSE)) /\ UNCHANGED <<heap, objects, item_count, job, held, before>>
      BY <1>2 DEF InsertRefused, EraseMissing
    <2> QED BY <2>1, RefusedInv
  <1> QED BY <1>1, <1>2, InsertNewInv, InsertDoneInv, FindAnsweredInv, EraseFoundInv, EraseDoneInv,
             ResumedInv DEF Step

\* No step leads out of the invariant.
LEMMA NextInv == ASSUME Inv, [Next]_vars PROVE Inv'
  <1>1. CASE UNCHANGED vars
    <2>1. UNCHANGED <<next, value, live, head, size, call, curr, prev, n, ret, item_count, job, held, before>>
      BY <1>1 DEF vars, heap, objects, locals
    <2>2. PICK L : Good(L)
      BY DEF Inv
    <2>3. TypeInv' /\ Protocol'
      BY <2>1 DEF Inv, TypeInv, TypeOK, Protocol, Idle, find_bucket, WithKey, NoCall
    <2>4. Roots' = Roots /\ Destroying' = Destroying /\ Idle' = Idle
      BY <2>1 DEF Roots, Destroying, Idle
    <2>5. Shape(L)'
      <3>1. Linked(L, Roots', next', live')
        BY <2>1, <2>2, <2>4 DEF Good, Shape
      <3>2. Linked(L, Roots, next, live)'
        BY <3>1 DEF Linked, IsList
      <3> QED BY <3>2, <2>1, <2>2, <2>4 DEF Good, Shape
    <2>6. Buckets(L, value)'
      BY <2>1, <2>2 DEF Good, Buckets, find_bucket
    <2>7. Counted(L)'
      BY <2>1, <2>2, <2>4 DEF Good, Counted, Pairs
    <2>8. Pointer(L)'
      BY <2>1, <2>2 DEF Good, Pointer, find_bucket
    <2>9. Progress(L)'
      <3>1. Cont(L[Plain], value)' = Cont(L[Plain], value) /\ Pairs(L, value)' = Pairs(L, value)
            /\ Cont(L[call.q], value)' = Cont(L[call.q], value)
        BY <2>1 DEF Cont, Pairs
      <3>2. \A c, k : QueueLoop(c, k)' = QueueLoop(c, k)
        BY <2>1, Zenon DEF QueueLoop
      <3>3. \A c, x, k : MapLoop(c, x, k)' = MapLoop(c, x, k)
        BY <2>1 DEF MapLoop, Absent
      <3>4. \A s : QueueDone(s)' = QueueDone(s)
        BY <2>1, Zenon DEF QueueDone, Meaning, Cont
      <3>5. \A s, x : MapDone(s, x)' = MapDone(s, x)
        BY <2>1, Zenon DEF MapDone, Absent
      <3>6. \A x : MapAnswer(x)' = MapAnswer(x)
        BY <2>1, Zenon DEF MapAnswer
      <3> QED BY <3>1, <3>2, <3>3, <3>4, <3>5, <3>6, <2>1, <2>2, <2>4 DEF Good, Progress
    <2> QED BY <2>3, <2>5, <2>6, <2>7, <2>8, <2>9 DEF Inv, Good
  <1>2. CASE QueueCall
    BY <1>2, QueueCallInv
  <1>3. ASSUME NEW key \in Keys, NEW val \in Vals, MapCall("insert", key, val) PROVE Inv'
    BY <1>3, MapCallInv
  <1>4. ASSUME NEW op \in {"find", "erase"}, NEW key \in Keys, MapCall(op, key, NoJob.val) PROVE Inv'
    <2>1. PICK val \in Vals : val = NoJob.val
      BY MapAssumption DEF NoJob
    <2>2. MapCall(op, key, val) /\ op \in {"insert", "find", "erase"}
      BY <2>1, <1>4
    <2> QED BY <2>2, MapCallInv
  <1>5. ASSUME NEW val \in Vals, Assign(val) PROVE Inv'
    BY <1>5, AssignInv
  <1>6. CASE Step
    BY <1>6, StepInv
  <1>7. CASE Stopped
    BY <1>7, <1>1 DEF Stopped
  <1> QED BY <1>1, <1>2, <1>3, <1>4, <1>5, <1>6, <1>7 DEF Next

\* The invariant of the containers holds throughout.
THEOREM ContainersInvariant == Spec => []Inv
  <1>1. Init => Inv
    BY InitInv
  <1>2. Inv /\ [Next]_vars => Inv'
    BY NextInv
  <1> QED BY <1>1, <1>2, PTL DEF Spec

\* The nodes in use are those of the lists of queue.h, each in one list and once,
\* _size is the length, every pair is in the bucket of its key, no key is there
\* twice, and between the calls size() of unordered_map is the number of pairs.
THEOREM ListsStayConsistent == Spec => []ListsConsistent
  <1>1. Inv => ListsConsistent
    BY InvImplies
  <1> QED BY <1>1, ContainersInvariant, PTL

\* Every call of queue.h does and returns what the same call does and returns on a
\* sequence, and every call of unordered_map what it does on a finite map.
THEOREM CallsDoWhatTheyShould == Spec => []CallsCorrect
  <1>1. Inv => CallsCorrect
    BY InvImplies
  <1> QED BY <1>1, ContainersInvariant, PTL

\* The pointer that find() of unordered_map returned leads to the value of its key
\* until that key is erased.
THEOREM FoundPointerStays == Spec => []PointerStays
  <1>1. Inv => PointerStays
    BY InvImplies
  <1> QED BY <1>1, ContainersInvariant, PTL

=============================================================================
