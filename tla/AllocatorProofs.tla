-------------------------- MODULE AllocatorProofs --------------------------
(***************************************************************************)
(* Proofs about Allocator: with one call of kmalloc() or kfree() at a time *)
(* the chunks tile the block and belong to their owners, for a block, a    *)
(* header and requests of any size.                                        *)
(***************************************************************************)
EXTENDS Allocator, TLAPS

\* Calls do not overlap.  Two threads that are preempted within allocate() can
\* be given the same chunk.
OneCaller == \A t, u \in Threads : t = u

-----------------------------------------------------------------------------
(* The inductive invariant.                                                *)

HeaderType == [size : 0 .. BlockSize, prev : {NULL} \cup (0 .. BlockSize),
               next : {NULL} \cup (0 .. BlockSize), taken : BOOLEAN]

\* The headers h are those of chunks within the block.
Headers(h) ==
    /\ DOMAIN h \subseteq 0 .. (BlockSize - 1)
    /\ h \in [DOMAIN h -> HeaderType]

End(h, a) == a + HeaderSize + h[a].size

\* Links forth and back agree with the sizes.  Other than in ChunksTileBlock the
\* chunk before is there by its link, and only a taken chunk leads out.
Row(h) ==
    /\ 0 \in DOMAIN h /\ h[0].prev = NULL
    /\ \A a \in DOMAIN h :
          \/ End(h, a) = BlockSize /\ h[a].next \in {NULL, BlockSize}
          \/ End(h, a) \in DOMAIN h /\ h[a].next = End(h, a) /\ h[End(h, a)].prev = a
    /\ \A a \in DOMAIN h \ {0} : h[a].prev \in DOMAIN h /\ End(h, h[a].prev) = a
    /\ \A a, b \in DOMAIN h : a < b => End(h, a) <= b
    /\ \A a \in DOMAIN h : h[a].next = BlockSize => h[a].taken

Typed ==
    /\ live \subseteq [addr : Nat, bytes : Nat, by : Threads]
    /\ pc \in [Threads -> {"idle", "walk", "take"}]
    /\ bytes \in [Threads -> Nat]
    /\ chunk \in [Threads -> {NULL} \cup (0 .. BlockSize)]
    /\ prev \in [Threads -> {NULL} \cup (0 .. BlockSize)]
    /\ wild \in BOOLEAN

Strays == \E a \in Chunks : hdr[a].next = BlockSize /\ jump(a) = BlockSize

\* What a call of allocate() knows about the chunk it is at.
Walking ==
    \A t \in Threads :
        /\ pc[t] # "idle" /\ chunk[t] \in Chunks => prev[t] = hdr[chunk[t]].prev
        /\ pc[t] = "walk" => \/ chunk[t] \in Chunks \cup {NULL}
                             \/ chunk[t] = BlockSize /\ Strays
        /\ pc[t] = "take" => chunk[t] \in Chunks /\ ~ PassedOver(hdr[chunk[t]], bytes[t])

IInv ==
    /\ Typed /\ Headers(hdr) /\ Row(hdr)
    /\ AllocationsDisjoint /\ NoChunkLost /\ Coalesced
    /\ Walking
    /\ wild => Strays

-----------------------------------------------------------------------------
(* What the operations on headers do to a row.                             *)

\* The numbers a header is made of.
LEMMA HeaderFacts ==
    ASSUME NEW h, Headers(h), NEW a \in DOMAIN h
    PROVE  /\ a \in Nat /\ a < BlockSize /\ a # NULL
           /\ h[a] \in HeaderType /\ h[a].size \in Nat /\ End(h, a) \in Nat /\ End(h, a) > a
           /\ BlockSize \in Nat /\ HeaderSize \in Nat \ {0} /\ MinChunkSize \in Nat
           /\ h[a].taken \in BOOLEAN
  <1>1. h[a] \in HeaderType /\ a \in Nat /\ a < BlockSize /\ a # NULL
    BY AllocatorAssumption DEF Headers, NULL
  <1>2. h[a].size \in Nat /\ h[a].taken \in BOOLEAN
    BY <1>1, AllocatorAssumption DEF HeaderType
  <1> QED BY <1>1, <1>2, AllocatorAssumption DEF End

\* The chunk that next leads to begins where this one ends, and knows it.
LEMMA NextFacts ==
    ASSUME NEW h, Headers(h), Row(h), NEW a \in DOMAIN h, h[a].next \in DOMAIN h
    PROVE  h[a].next = End(h, a) /\ h[h[a].next].prev = a
  <1>1. h[a].next # NULL /\ h[a].next # BlockSize
    BY HeaderFacts, AllocatorAssumption DEF Headers
  <1> QED BY <1>1 DEF Row

\* What merge() makes of a row: second is gone and first reaches to its end.
Merged(g, h, first, second) ==
    /\ Headers(g) /\ Row(g)
    /\ DOMAIN g = DOMAIN h \ {second} /\ first # second
    /\ g[first].next = h[second].next /\ g[first].prev = h[first].prev
    /\ End(g, first) = End(h, second)
    /\ \A a \in DOMAIN g : /\ g[a].taken = h[a].taken
                           /\ g[a].size >= h[a].size
                           /\ a # first => /\ End(g, a) = End(h, a)
                                           /\ g[a].next = h[a].next
                           /\ End(h, a) # second \/ a = first

\* Block::merge: the row is one chunk shorter, nothing is lost, and every other
\* chunk is as big and as taken as before.
LEMMA MergeFacts ==
    ASSUME NEW h, Headers(h), Row(h), NEW first \in DOMAIN h, NEW second \in DOMAIN h,
           h[first].next = second, h[second].next \in DOMAIN h \cup {NULL},
           NEW g, g = Merge(h, first, second)
    PROVE  Merged(g, h, first, second)
  <1> DEFINE s == h[second].next
             size == h[first].size + HeaderSize + h[second].size
             linked == SetPrev(h, s, first)
  <1>1. /\ first \in Nat /\ second \in Nat /\ second = End(h, first) /\ second > first
        /\ h[second].prev = first
        /\ first < BlockSize /\ second < BlockSize
    BY HeaderFacts, NextFacts
  <1>2. /\ h[first].size \in Nat /\ h[second].size \in Nat /\ BlockSize \in Nat
        /\ HeaderSize \in Nat \ {0}
        /\ End(h, second) = second + HeaderSize + h[second].size
        /\ second = first + HeaderSize + h[first].size
    BY <1>1, HeaderFacts DEF End
  <1>3. /\ \/ s = NULL /\ End(h, second) = BlockSize
           \/ s \in DOMAIN h /\ End(h, second) = s /\ h[s].prev = second
        /\ End(h, second) <= BlockSize
    <2>1. s # BlockSize
      BY AllocatorAssumption DEF Headers, NULL
    <2> QED BY <2>1, HeaderFacts DEF Row
  <1>4. s # first /\ s # second /\ NULL \notin DOMAIN h /\ s \in {NULL} \cup (0 .. BlockSize)
    BY <1>1, <1>2, <1>3, HeaderFacts DEF HeaderType, NULL
  <1>5. /\ DOMAIN linked = DOMAIN h
        /\ \A a \in DOMAIN h : linked[a] = IF a = s THEN [h[a] EXCEPT !.prev = first] ELSE h[a]
    <2>1. CASE s = NULL
      BY <2>1, <1>4 DEF SetPrev
    <2>2. CASE s # NULL
      BY <2>2, <1>3, <1>4 DEF SetPrev
    <2> QED BY <2>1, <2>2
  <1>6. g = [a \in DOMAIN h \ {second} |->
               IF a = first THEN [linked[a] EXCEPT !.size = size, !.next = s] ELSE linked[a]]
    BY DEF Merge
  <1> HIDE DEF linked
  <1>7. DOMAIN g = DOMAIN h \ {second} /\ first \in DOMAIN g
    <2>1. first # second
      BY <1>1
    <2>2. DOMAIN g = DOMAIN h \ {second}
      BY <1>6, Zenon
    <2> QED BY <2>1, <2>2
  <1>8. g[first] = [h[first] EXCEPT !.size = size, !.next = s]
    <2>1. linked[first] = h[first]
      BY <1>4, <1>5
    <2>2. g[first] = [linked[first] EXCEPT !.size = size, !.next = s]
      BY <1>6, <1>7
    <2> QED BY <2>1, <2>2
  <1>9. \A a \in DOMAIN g \ {first} : g[a] = IF a = s THEN [h[a] EXCEPT !.prev = first] ELSE h[a]
    BY <1>5, <1>6, <1>7
  <1>10. size \in 0 .. BlockSize
    BY <1>1, <1>2, <1>3
  <1> HIDE DEF s, size
  <1>11. ASSUME NEW a \in DOMAIN g
         PROVE  /\ g[a] \in HeaderType /\ g[a].taken = h[a].taken
                /\ g[a].size = (IF a = first THEN size ELSE h[a].size)
                /\ g[a].next = (IF a = first THEN s ELSE h[a].next)
                /\ g[a].prev = (IF a = s THEN first ELSE h[a].prev)
    <2>1. h[a] \in HeaderType /\ first \in 0 .. BlockSize
      BY <1>1, <1>2, <1>7, HeaderFacts
    <2>2. CASE a = first
      BY <2>1, <2>2, <1>4, <1>8, <1>10 DEF HeaderType
    <2>3. CASE a # first /\ a = s
      BY <2>1, <2>3, <1>4, <1>9 DEF HeaderType
    <2>4. CASE a # first /\ a # s
      BY <2>1, <2>4, <1>9
    <2> QED BY <2>2, <2>3, <2>4
  <1>12. Headers(g)
    <2>1. g = [a \in DOMAIN g |-> g[a]]
      BY <1>6, <1>7
    <2> QED BY <2>1, <1>7, <1>11 DEF Headers
  <1>13. End(g, first) = End(h, second)
    <2>1. g[first].size = size
      BY <1>7, <1>11
    <2>2. End(g, first) = first + HeaderSize + size
      BY <2>1 DEF End
    <2> QED BY <2>2, <1>1, <1>2 DEF size
  <1>14. \A a \in DOMAIN g \ {first} : End(g, a) = End(h, a) /\ End(h, a) # second
    <2> SUFFICES ASSUME NEW a \in DOMAIN g \ {first}
                 PROVE  End(g, a) = End(h, a) /\ End(h, a) # second
      OBVIOUS
    <2>1. End(g, a) = End(h, a)
      BY <1>11 DEF End
    <2>2. End(h, a) # second
      BY <1>1, <1>2, <1>7 DEF Row
    <2> QED BY <2>1, <2>2
  <1>15. Row(g)
    <2>1. 0 \in DOMAIN g /\ g[0].prev = NULL
      <3>1. 0 \in DOMAIN h /\ h[0].prev = NULL /\ second # 0
        BY <1>1 DEF Row
      <3>2. s # 0
        BY <1>1, <1>2, <1>3, <1>4, HeaderFacts DEF s, NULL
      <3> QED BY <3>1, <3>2, <1>7, <1>11
    <2>2. ASSUME NEW a \in DOMAIN g
          PROVE  \/ End(g, a) = BlockSize /\ g[a].next \in {NULL, BlockSize}
                 \/ End(g, a) \in DOMAIN g /\ g[a].next = End(g, a) /\ g[End(g, a)].prev = a
      <3>1. CASE a = first
        BY <3>1, <1>3, <1>4, <1>7, <1>11, <1>13 DEF s
      <3>2. CASE a # first
        <4>1. End(g, a) = End(h, a) /\ End(h, a) # second /\ g[a].next = h[a].next /\ a # second
          BY <3>2, <1>7, <1>11, <1>14
        <4>2. CASE End(h, a) = BlockSize /\ h[a].next \in {NULL, BlockSize}
          BY <4>1, <4>2
        <4>3. CASE End(h, a) \in DOMAIN h /\ h[a].next = End(h, a) /\ h[End(h, a)].prev = a
          <5>1. End(h, a) \in DOMAIN g
            BY <4>1, <4>3, <1>7
          <5>2. End(h, a) # s
            BY <4>1, <4>3, <1>3, <1>4 DEF s
          <5> QED BY <4>1, <4>3, <5>1, <5>2, <1>11
        <4> QED BY <4>2, <4>3, <1>7 DEF Row
      <3> QED BY <3>1, <3>2
    <2>3. ASSUME NEW a \in DOMAIN g \ {0}
          PROVE  g[a].prev \in DOMAIN g /\ End(g, g[a].prev) = a
      <3>1. CASE a = s
        BY <3>1, <1>3, <1>4, <1>7, <1>11, <1>13 DEF s
      <3>2. CASE a # s
        <4>1. h[a].prev \in DOMAIN h /\ End(h, h[a].prev) = a /\ g[a].prev = h[a].prev
          BY <3>2, <1>7, <1>11 DEF Row
        <4>2. h[a].prev # second
          BY <4>1, <3>2, <1>3, <1>7, HeaderFacts DEF s
        <4>3. h[a].prev # first
          BY <4>1, <1>1, <1>7
        <4> QED BY <4>1, <4>2, <4>3, <1>7, <1>14
      <3> QED BY <3>1, <3>2
    <2>4. ASSUME NEW a \in DOMAIN g, NEW b \in DOMAIN g, a < b
          PROVE  End(g, a) <= b
      <3>1. CASE a = first
        <4>1. second <= b /\ second # b /\ b \in Nat
          BY <2>4, <3>1, <1>1, <1>7, HeaderFacts DEF Row
        <4>2. End(h, second) <= b
          <5>1. second < b /\ b \in DOMAIN h
            BY <4>1, <1>1, <1>7
          <5> QED BY <5>1 DEF Row
        <4> QED BY <3>1, <4>2, <1>13
      <3>2. CASE a # first
        BY <2>4, <3>2, <1>7, <1>14 DEF Row
      <3> QED BY <3>1, <3>2
    <2>5. ASSUME NEW a \in DOMAIN g, g[a].next = BlockSize
          PROVE  g[a].taken
      <3>1. a # first
        BY <2>5, <1>3, <1>11, HeaderFacts, AllocatorAssumption DEF s, NULL
      <3> QED BY <2>5, <3>1, <1>7, <1>11 DEF Row
    <2> QED BY <2>1, <2>2, <2>3, <2>4, <2>5 DEF Row
  <1>16. g[first].next = h[second].next /\ g[first].prev = h[first].prev
    BY <1>4, <1>7, <1>11 DEF s
  <1>17. \A a \in DOMAIN g : g[a].size >= h[a].size
    BY <1>2, <1>7, <1>11, HeaderFacts DEF size
  <1> QED BY <1>1, <1>7, <1>11, <1>12, <1>13, <1>14, <1>15, <1>16, <1>17 DEF Merged

\* The split of allocate(): the row is one chunk longer, the first part is taken
\* and the second is what remains, in front of the same neighbour.
LEMMA SplitFacts ==
    ASSUME Headers(hdr), Row(hdr), NEW first \in Chunks, NEW n \in Nat,
           hdr[first].size >= n, hdr[first].size - n > HeaderSize + MinChunkSize,
           hdr[first].next \in Chunks \cup {NULL},
           NEW second, second = first + HeaderSize + n,
           NEW g, g = Split(first, hdr[first].prev, n)
    PROVE  /\ Headers(g) /\ Row(g)
           /\ second \notin Chunks /\ DOMAIN g = Chunks \cup {second}
           /\ g[first].taken /\ g[first].size = n
           /\ ~ g[second].taken /\ End(g, second) = End(hdr, first)
           /\ End(g, first) = second
           /\ \A a \in Chunks \ {first} :
                 g[a].taken = hdr[a].taken /\ g[a].size = hdr[a].size /\ End(g, a) = End(hdr, a)
  <1> DEFINE h == hdr
             s == h[first].next
             size == h[first].size - n - HeaderSize
             H1 == Header(size, first, s, FALSE)
             H2 == Header(n, h[first].prev, second, TRUE)
             p1 == Put(h, second, H1)
             p2 == SetPrev(p1, s, second)
  <1>1. /\ first \in Nat /\ first < BlockSize /\ h[first].size \in Nat /\ h[first] \in HeaderType
        /\ BlockSize \in Nat /\ HeaderSize \in Nat \ {0} /\ MinChunkSize \in Nat
        /\ End(h, first) = first + HeaderSize + h[first].size
    BY HeaderFacts DEF Chunks, End
  <1>2. /\ \/ s = NULL /\ End(h, first) = BlockSize
           \/ s \in Chunks /\ End(h, first) = s /\ h[s].prev = first
        /\ End(h, first) <= BlockSize
    <2>1. s # BlockSize
      BY AllocatorAssumption DEF Headers, NULL, Chunks
    <2> QED BY <2>1, HeaderFacts DEF Row, Chunks
  <1>3. /\ second \in Nat /\ first < second /\ second < End(h, first) /\ second < BlockSize
        /\ size \in 0 .. BlockSize /\ n \in 0 .. BlockSize /\ second # NULL /\ first # NULL
        /\ second + HeaderSize + size = End(h, first)
    BY <1>1, <1>2 DEF NULL
  <1>4. second \notin Chunks
    <2> SUFFICES ASSUME second \in Chunks PROVE FALSE
      OBVIOUS
    <2>1. End(h, first) <= second
      BY <1>3 DEF Row, Chunks
    <2> QED BY <2>1, <1>1, <1>3
  <1>5. s # first /\ s # second /\ NULL \notin Chunks /\ s \in {NULL} \cup (0 .. BlockSize)
    BY <1>1, <1>2, <1>3, <1>4, HeaderFacts DEF HeaderType, NULL, Chunks
  <1>6. /\ H1 \in HeaderType /\ H1.size = size /\ H1.prev = first /\ H1.next = s /\ ~ H1.taken
        /\ H2 \in HeaderType /\ H2.size = n /\ H2.prev = h[first].prev /\ H2.next = second
        /\ H2.taken
    BY <1>1, <1>3, <1>5 DEF Header, HeaderType
  <1>7. g = Put(p2, first, H2)
    BY DEF Split
  <1> HIDE DEF H1, H2
  <1>8. /\ DOMAIN p1 = Chunks \cup {second} /\ p1[second] = H1
        /\ \A a \in Chunks : p1[a] = h[a]
    BY <1>4 DEF Put, Chunks
  <1> HIDE DEF p1
  <1>9. /\ DOMAIN p2 = Chunks \cup {second} /\ p2[second] = H1
        /\ \A a \in Chunks : p2[a] = IF a = s THEN [h[a] EXCEPT !.prev = second] ELSE h[a]
    <2>1. CASE s = NULL
      BY <2>1, <1>5, <1>8 DEF SetPrev
    <2>2. CASE s # NULL
      BY <2>2, <1>2, <1>5, <1>8 DEF SetPrev
    <2> QED BY <2>1, <2>2
  <1> HIDE DEF p2
  <1>10. /\ DOMAIN g = Chunks \cup {second} /\ g[first] = H2 /\ g[second] = H1
         /\ \A a \in Chunks \ {first} :
               g[a] = IF a = s THEN [h[a] EXCEPT !.prev = second] ELSE h[a]
         /\ g = [a \in DOMAIN g |-> g[a]]
    <2>1. DOMAIN p2 \cup {first} = Chunks \cup {second} /\ first # second
      BY <1>3, <1>9
    <2> QED BY <2>1, <1>7, <1>9 DEF Put
  <1> HIDE DEF size
  <1>11. ASSUME NEW a \in Chunks \ {first}
         PROVE  /\ g[a] \in HeaderType /\ g[a].taken = h[a].taken
                /\ g[a].size = h[a].size /\ g[a].next = h[a].next
                /\ g[a].prev = (IF a = s THEN second ELSE h[a].prev)
    <2>1. h[a] \in HeaderType /\ second \in 0 .. BlockSize
      BY <1>1, <1>3, HeaderFacts DEF Chunks
    <2> HIDE DEF s, h
    <2>2. CASE a = s
      BY <2>1, <2>2, <1>10 DEF HeaderType
    <2>3. CASE a # s
      BY <2>1, <2>3, <1>10
    <2> QED BY <2>2, <2>3
  <1>12. Headers(g)
    <2>1. DOMAIN g \subseteq 0 .. (BlockSize - 1)
      BY <1>1, <1>3, <1>10 DEF Headers, Chunks
    <2>2. \A a \in DOMAIN g : g[a] \in HeaderType
      BY <1>6, <1>10, <1>11
    <2> QED BY <2>1, <2>2, <1>10 DEF Headers
  <1>13. End(g, first) = second /\ End(g, second) = End(h, first)
    BY <1>3, <1>6, <1>10 DEF End
  <1>14. \A a \in Chunks \ {first} : End(g, a) = End(h, a)
    BY <1>11 DEF End
  <1> HIDE DEF s, h
  <1>15. Headers(h) /\ Row(h) /\ Chunks = DOMAIN h
    BY DEF h, Chunks
  <1>16. Row(g)
    <2>1. 0 \in DOMAIN g /\ g[0].prev = NULL
      <3>1. 0 \in Chunks /\ h[0].prev = NULL
        BY <1>15 DEF Row
      <3>2. s # 0
        BY <1>1, <1>2 DEF NULL
      <3> QED BY <3>1, <3>2, <1>6, <1>10, <1>11
    <2>2. ASSUME NEW a \in DOMAIN g
          PROVE  \/ End(g, a) = BlockSize /\ g[a].next \in {NULL, BlockSize}
                 \/ End(g, a) \in DOMAIN g /\ g[a].next = End(g, a) /\ g[End(g, a)].prev = a
      <3>1. CASE a = first
        BY <3>1, <1>6, <1>10, <1>13
      <3>2. CASE a = second
        BY <3>2, <1>2, <1>5, <1>6, <1>10, <1>11, <1>13
      <3>3. CASE a # first /\ a # second
        <4>1. a \in Chunks \ {first} /\ End(g, a) = End(h, a) /\ g[a].next = h[a].next
          BY <3>3, <1>10, <1>11, <1>14
        <4>2. CASE End(h, a) = BlockSize /\ h[a].next \in {NULL, BlockSize}
          BY <4>1, <4>2
        <4>3. CASE End(h, a) \in DOMAIN h /\ h[a].next = End(h, a) /\ h[End(h, a)].prev = a
          <5>1. End(h, a) # s
            BY <4>1, <4>3, <1>2, <1>5, <1>15
          <5>2. CASE End(h, a) = first
            BY <4>1, <4>3, <5>2, <1>6, <1>10
          <5>3. CASE End(h, a) # first
            BY <4>1, <4>3, <5>1, <5>3, <1>10, <1>11, <1>15
          <5> QED BY <5>2, <5>3
        <4> QED BY <4>1, <4>2, <4>3, <1>15 DEF Row
      <3> QED BY <3>1, <3>2, <3>3
    <2>3. ASSUME NEW a \in DOMAIN g \ {0}
          PROVE  g[a].prev \in DOMAIN g /\ End(g, g[a].prev) = a
      <3>1. CASE a = second
        BY <3>1, <1>6, <1>10, <1>13
      <3>2. CASE a = s
        BY <3>2, <1>2, <1>5, <1>10, <1>11, <1>13
      <3>3. CASE a # second /\ a # s
        <4>1. a \in DOMAIN h \ {0}
          BY <3>3, <1>10, <1>15
        <4>2. h[a].prev \in DOMAIN h /\ End(h, h[a].prev) = a /\ g[a].prev = h[a].prev
          BY <4>1, <3>3, <1>6, <1>10, <1>11, <1>15 DEF Row
        <4>3. h[a].prev # first
          BY <4>1, <4>2, <3>3, <1>2, <1>15, HeaderFacts
        <4> QED BY <4>2, <4>3, <1>10, <1>14, <1>15
      <3> QED BY <3>1, <3>2, <3>3
    <2>4. ASSUME NEW a \in DOMAIN g, NEW b \in DOMAIN g, a < b
          PROVE  End(g, a) <= b
      <3>0. a \in Nat /\ b \in Nat /\ End(h, first) \in Nat
        BY <1>1, <1>12, HeaderFacts
      <3>1. CASE a \in {first, second} /\ b # second
        <4>1. b \in Chunks /\ first < b
          BY <2>4, <3>0, <3>1, <1>1, <1>3, <1>10
        <4>2. End(h, first) <= b
          BY <4>1, <1>15 DEF Row
        <4> QED BY <4>2, <3>0, <3>1, <1>1, <1>3, <1>13
      <3>2. CASE b = second
        <4>1. CASE a = first
          BY <4>1, <3>2, <1>3, <1>13
        <4>2. CASE a # first
          <5>1. a \in Chunks \ {first} /\ a # second
            BY <2>4, <3>0, <3>2, <4>2, <1>10
          <5>2. a < first
            <6> SUFFICES ASSUME first < a PROVE FALSE
              BY <3>0, <4>2, <1>1
            <6>1. End(h, first) <= a
              BY <5>1, <1>15 DEF Row
            <6> QED BY <6>1, <2>4, <3>0, <3>2, <1>3
          <5>3. End(h, a) <= first
            BY <5>1, <5>2, <1>15 DEF Row
          <5>4. End(h, a) \in Nat /\ End(g, a) = End(h, a)
            BY <5>1, <1>14, <1>15, HeaderFacts
          <5> QED BY <5>3, <5>4, <3>2, <1>1, <1>3
        <4> QED BY <4>1, <4>2
      <3>3. CASE a \notin {first, second} /\ b # second
        BY <2>4, <3>3, <1>10, <1>14, <1>15 DEF Row
      <3> QED BY <3>1, <3>2, <3>3
    <2>5. ASSUME NEW a \in DOMAIN g, g[a].next = BlockSize
          PROVE  g[a].taken
      <3>1. s # BlockSize
        BY <1>2, <1>15, HeaderFacts, AllocatorAssumption DEF NULL
      <3>2. CASE a = first
        BY <3>2, <1>6, <1>10
      <3>3. CASE a = second
        BY <2>5, <3>1, <3>3, <1>6, <1>10
      <3>4. CASE a # first /\ a # second
        BY <2>5, <3>4, <1>10, <1>11, <1>15 DEF Row
      <3> QED BY <3>2, <3>3, <3>4
    <2> QED BY <2>1, <2>2, <2>3, <2>4, <2>5 DEF Row
  <1> QED BY <1>4, <1>6, <1>10, <1>11, <1>12, <1>13, <1>14, <1>16 DEF h

\* allocate() gives a chunk out as it is: only its mark changes, and the next of
\* the last one.
LEMMA WholeFacts ==
    ASSUME Headers(hdr), Row(hdr), NEW first \in Chunks,
           NEW g, g = Whole(first, hdr[first].prev)
    PROVE  /\ Headers(g) /\ Row(g) /\ DOMAIN g = Chunks
           /\ g[first].taken
           /\ \A a \in Chunks : g[a].size = hdr[a].size /\ End(g, a) = End(hdr, a)
           /\ \A a \in Chunks \ {first} : g[a].taken = hdr[a].taken
  <1> DEFINE H == Header(hdr[first].size, hdr[first].prev, jump(first), TRUE)
  <1>1. /\ first \in Nat /\ hdr[first] \in HeaderType /\ BlockSize \in Nat
        /\ End(hdr, first) \in Nat /\ End(hdr, first) = jump(first)
    BY HeaderFacts DEF Chunks, End, jump
  <1>2. jump(first) \in 0 .. BlockSize
    BY <1>1, HeaderFacts DEF Row, Chunks
  <1>3. /\ H \in HeaderType /\ H.size = hdr[first].size /\ H.prev = hdr[first].prev
        /\ H.next = jump(first) /\ H.taken
    BY <1>1, <1>2 DEF Header, HeaderType
  <1>4. g = Put(hdr, first, H)
    BY DEF Whole
  <1> HIDE DEF H
  <1>5. /\ DOMAIN g = Chunks /\ g[first] = H /\ \A a \in Chunks \ {first} : g[a] = hdr[a]
        /\ g = [a \in DOMAIN g |-> g[a]]
    <2>1. DOMAIN hdr \cup {first} = Chunks
      BY DEF Chunks
    <2> QED BY <2>1, <1>4 DEF Put, Chunks
  <1>6. Headers(g)
    BY <1>3, <1>5 DEF Headers, Chunks
  <1>7. \A a \in Chunks : /\ g[a].size = hdr[a].size /\ End(g, a) = End(hdr, a)
                          /\ g[a].prev = hdr[a].prev
    BY <1>3, <1>5 DEF End
  <1>8. Row(g)
    <2>1. 0 \in DOMAIN g /\ g[0].prev = NULL
      BY <1>5, <1>7 DEF Row, Chunks
    <2>2. ASSUME NEW a \in DOMAIN g
          PROVE  \/ End(g, a) = BlockSize /\ g[a].next \in {NULL, BlockSize}
                 \/ End(g, a) \in DOMAIN g /\ g[a].next = End(g, a) /\ g[End(g, a)].prev = a
      <3>1. a \in Chunks /\ End(g, a) = End(hdr, a) /\ g[a].next \in {hdr[a].next, End(hdr, a)}
        BY <1>1, <1>3, <1>5, <1>7
      <3>2. CASE End(hdr, a) = BlockSize /\ hdr[a].next \in {NULL, BlockSize}
        BY <3>1, <3>2
      <3>3. CASE /\ End(hdr, a) \in Chunks /\ hdr[a].next = End(hdr, a)
                 /\ hdr[End(hdr, a)].prev = a
        BY <3>1, <3>3, <1>5, <1>7
      <3> QED BY <3>1, <3>2, <3>3 DEF Row, Chunks
    <2>3. ASSUME NEW a \in DOMAIN g \ {0}
          PROVE  g[a].prev \in DOMAIN g /\ End(g, g[a].prev) = a
      BY <1>5, <1>7 DEF Row, Chunks
    <2>4. ASSUME NEW a \in DOMAIN g, NEW b \in DOMAIN g, a < b
          PROVE  End(g, a) <= b
      BY <2>4, <1>5, <1>7 DEF Row, Chunks
    <2>5. ASSUME NEW a \in DOMAIN g, g[a].next = BlockSize
          PROVE  g[a].taken
      BY <2>5, <1>3, <1>5 DEF Row, Chunks
    <2> QED BY <2>1, <2>2, <2>3, <2>4, <2>5 DEF Row
  <1> QED BY <1>3, <1>5, <1>6, <1>7, <1>8

\* A chunk that is free leads to another chunk or ends the row.
LEMMA FreeNext ==
    ASSUME NEW h, Headers(h), Row(h), NEW a \in DOMAIN h, ~ h[a].taken
    PROVE  h[a].next \in DOMAIN h \cup {NULL}
  BY DEF Row

\* Block::free: the row stays a row, two free neighbours are merged at once, and
\* no other chunk that is taken is touched.
LEMMA FreedFacts ==
    ASSUME Headers(hdr), Row(hdr), Coalesced, NEW a \in Chunks,
           hdr[a].next \in Chunks \cup {NULL},
           NEW g, g = Freed(a)
    PROVE  /\ Headers(g) /\ Row(g) /\ DOMAIN g \subseteq Chunks
           /\ \A b \in DOMAIN g : g[b].taken => b # a /\ hdr[b].taken
           /\ \A b \in Chunks \ {a} :
                 hdr[b].taken => b \in DOMAIN g /\ g[b].taken /\ g[b].size >= hdr[b].size
           /\ \A b \in DOMAIN g : End(g, b) \in DOMAIN g => g[b].taken \/ g[End(g, b)].taken
  <1> DEFINE h == [hdr EXCEPT ![a].taken = FALSE]
             next == h[a].next
             before == h[a].prev
             h2 == IF isFree(h, next) THEN Merge(h, a, next) ELSE h
  <1>1. /\ DOMAIN h = Chunks
        /\ \A b \in Chunks : /\ h[b] \in HeaderType
                             /\ h[b].size = hdr[b].size /\ h[b].next = hdr[b].next
                             /\ h[b].prev = hdr[b].prev
                             /\ b # a => h[b].taken = hdr[b].taken
        /\ ~ h[a].taken
    <2>1. \A b \in Chunks : hdr[b] \in HeaderType
      BY DEF Headers, Chunks
    <2>2. h[a] = [hdr[a] EXCEPT !.taken = FALSE] /\ DOMAIN h = Chunks
          /\ \A b \in Chunks \ {a} : h[b] = hdr[b]
      BY DEF Chunks
    <2>3. /\ h[a] \in HeaderType /\ h[a].size = hdr[a].size /\ h[a].next = hdr[a].next
          /\ h[a].prev = hdr[a].prev /\ ~ h[a].taken
      <3> HIDE DEF h
      <3> QED BY <2>1, <2>2 DEF HeaderType
    <2> HIDE DEF h
    <2> QED BY <2>1, <2>2, <2>3
  <1>2. h = [b \in DOMAIN h |-> h[b]]
    OBVIOUS
  <1> HIDE DEF h
  <1>3. \A b \in Chunks : End(h, b) = End(hdr, b) /\ jump(b) = End(hdr, b)
    BY <1>1 DEF End, jump
  <1>4. Headers(h)
    BY <1>1, <1>2 DEF Headers, Chunks
  <1>5. Row(h)
    <2>1. 0 \in DOMAIN h /\ h[0].prev = NULL
      BY <1>1 DEF Row, Chunks
    <2>2. ASSUME NEW b \in DOMAIN h
          PROVE  \/ End(h, b) = BlockSize /\ h[b].next \in {NULL, BlockSize}
                 \/ End(h, b) \in DOMAIN h /\ h[b].next = End(h, b) /\ h[End(h, b)].prev = b
      BY <1>1, <1>3 DEF Row, Chunks
    <2>3. ASSUME NEW b \in DOMAIN h \ {0}
          PROVE  h[b].prev \in DOMAIN h /\ End(h, h[b].prev) = b
      BY <1>1, <1>3 DEF Row, Chunks
    <2>4. ASSUME NEW b \in DOMAIN h, NEW c \in DOMAIN h, b < c
          PROVE  End(h, b) <= c
      BY <2>4, <1>1, <1>3 DEF Row, Chunks
    <2>5. ASSUME NEW b \in DOMAIN h, h[b].next = BlockSize
          PROVE  h[b].taken
      <3>1. b # a
        BY <2>5, <1>1, HeaderFacts, AllocatorAssumption DEF Chunks, NULL
      <3> QED BY <2>5, <3>1, <1>1 DEF Row, Chunks
    <2> QED BY <2>1, <2>2, <2>3, <2>4, <2>5 DEF Row
  <1>6. next \in Chunks \cup {NULL} /\ NULL \notin Chunks
    BY <1>1, HeaderFacts DEF Chunks
  <1>7. \A b \in Chunks : End(h, b) \in Chunks =>
             h[b].taken \/ h[End(h, b)].taken \/ b = a \/ End(h, b) = a
    BY <1>1, <1>3 DEF Coalesced
  <1>8. /\ Headers(h2) /\ Row(h2) /\ DOMAIN h2 \subseteq Chunks /\ a \in DOMAIN h2
        /\ h2[a].next \in DOMAIN h2 \cup {NULL} /\ h2[a].prev = before
        /\ \A b \in DOMAIN h2 : h2[b].taken = h[b].taken /\ h2[b].size >= h[b].size
        /\ \A b \in Chunks : h[b].taken => b \in DOMAIN h2
        /\ \A b \in DOMAIN h2 : End(h2, b) \in DOMAIN h2 =>
              h2[b].taken \/ h2[End(h2, b)].taken \/ End(h2, b) = a
        /\ \A b \in Chunks : b < a => b \in DOMAIN h2
    <2>1. CASE isFree(h, next)
      <3>1. next \in Chunks /\ ~ h[next].taken /\ h[next].next \in Chunks \cup {NULL}
        BY <2>1, <1>1, <1>4, <1>5, <1>6, FreeNext DEF isFree
      <3>2. PICK k : k = h2
        OBVIOUS
      <3>3. PICK nx \in Chunks : nx = next
        BY <3>1
      <3>4. k = Merge(h, a, nx)
        BY <3>2, <3>3, <2>1
      <3>5. /\ Headers(k) /\ Row(k)
            /\ DOMAIN k = Chunks \ {nx} /\ a # nx
            /\ k[a].next = h[nx].next /\ k[a].prev = h[a].prev
            /\ End(k, a) = End(h, nx)
            /\ \A b \in DOMAIN k : /\ k[b].taken = h[b].taken
                                   /\ k[b].size >= h[b].size
                                   /\ b # a => End(k, b) = End(h, b) /\ k[b].next = h[b].next
                                   /\ End(h, b) # nx \/ b = a
        <4>1. /\ a \in DOMAIN h /\ nx \in DOMAIN h /\ h[a].next = nx
              /\ h[nx].next \in DOMAIN h \cup {NULL}
          BY <3>1, <3>3, <1>1
        <4> HIDE DEF h2, next
        <4>2. DOMAIN h = Chunks
          BY <1>1
        <4>3. Merged(k, h, a, nx)
          BY <4>1, <3>4, <1>4, <1>5, MergeFacts
        <4> QED BY <4>2, <4>3 DEF Merged
      <3>6. nx = End(h, a) /\ nx > a /\ End(h, nx) > nx /\ nx \in Nat /\ a \in Nat /\ End(h, nx) \in Nat
        BY <3>1, <3>3, <1>1, <1>4, <1>5, NextFacts, HeaderFacts
      <3>7. h[nx].next # nx
        BY <3>1, <3>3, <3>6, <1>1, <1>4, <1>5, NextFacts, HeaderFacts
      <3>8. ASSUME NEW b \in DOMAIN k, End(k, b) \in DOMAIN k
            PROVE  k[b].taken \/ k[End(k, b)].taken \/ End(k, b) = a
        <4>1. CASE b = a
          <5>1. End(h, nx) \in Chunks /\ nx # a /\ End(h, nx) # a
            BY <3>5, <3>6, <3>8, <4>1
          <5>2. h[End(h, nx)].taken
            BY <5>1, <3>1, <3>3, <1>7
          <5> QED BY <5>1, <5>2, <4>1, <3>5, <3>8
        <4>2. CASE b # a
          BY <3>5, <3>8, <4>2, <1>7
        <4> QED BY <4>1, <4>2
      <3>9. /\ k[a].next \in DOMAIN k \cup {NULL}
            /\ \A b \in Chunks : h[b].taken \/ b < a => b \in DOMAIN k
        <4>1. k[a].next \in DOMAIN k \cup {NULL}
          BY <3>1, <3>3, <3>5, <3>7
        <4>2. ~ (nx < a)
          BY <3>6
        <4> QED BY <4>1, <4>2, <3>1, <3>3, <3>5
      <3> QED BY <3>2, <3>5, <3>8, <3>9, <1>1
    <2>2. CASE ~ isFree(h, next)
      <3>1. h2 = h
        BY <2>2
      <3>2. ASSUME End(h, a) \in Chunks
            PROVE  h[End(h, a)].taken
        <4>1. End(h, a) # BlockSize
          BY <3>2, <1>1, <1>4, HeaderFacts
        <4>2. next = End(h, a)
          BY <4>1, <1>1, <1>5 DEF Row
        <4> QED BY <2>2, <4>2, <3>2, <1>6 DEF isFree
      <3>3. \A b \in Chunks : h[b].size >= h[b].size
        BY <1>1, <1>4, HeaderFacts
      <3> QED BY <3>1, <3>2, <3>3, <1>1, <1>4, <1>5, <1>6, <1>7
    <2> QED BY <2>1, <2>2
  <1> HIDE DEF h2
  <1>9. g = IF isFree(h, before) THEN Merge(h2, before, a) ELSE h2
    BY DEF Freed, h2, h
  <1>10. a # 0 => before \in DOMAIN h2 /\ End(h2, before) = a /\ h2[before].next = a /\ before # NULL
    <2> SUFFICES ASSUME a # 0 PROVE before \in DOMAIN h2 /\ End(h2, before) = a
                                   /\ h2[before].next = a /\ before # NULL
      OBVIOUS
    <2>1. before \in DOMAIN h2 /\ End(h2, before) = a
      BY <1>8 DEF Row
    <2>2. a # BlockSize /\ before # NULL
      BY <2>1, <1>8, HeaderFacts
    <2> QED BY <2>1, <2>2, <1>8 DEF Row
  <1>11. a = 0 => before = NULL
    BY <1>8 DEF Row
  <1>12. CASE isFree(h, before)
    <2>1. /\ before \in DOMAIN h2 /\ h2[before].next = a /\ ~ h2[before].taken
          /\ End(h2, before) = a
      BY <1>8, <1>10, <1>11, <1>12 DEF isFree
    <2>2. PICK bf \in DOMAIN h2 : bf = before
      BY <2>1
    <2>3. g = Merge(h2, bf, a)
      BY <2>2, <1>9, <1>12
    <2> HIDE DEF before
    <2>4. /\ Headers(g) /\ Row(g)
          /\ DOMAIN g = DOMAIN h2 \ {a} /\ bf # a
          /\ End(g, bf) = End(h2, a)
          /\ \A b \in DOMAIN g : /\ g[b].taken = h2[b].taken
                                 /\ g[b].size >= h2[b].size
                                 /\ b # bf => End(g, b) = End(h2, b)
      <3>1. /\ a \in DOMAIN h2 /\ bf \in DOMAIN h2 /\ h2[bf].next = a
            /\ h2[a].next \in DOMAIN h2 \cup {NULL} /\ Headers(h2) /\ Row(h2)
        BY <2>1, <2>2, <1>8
      <3>2. Merged(g, h2, bf, a)
        BY <3>1, <2>3, MergeFacts
      <3> QED BY <3>2 DEF Merged
    <2>5. \A b \in DOMAIN g : g[b].taken => b # a /\ hdr[b].taken
      BY <2>4, <1>1, <1>8
    <2>6. \A b \in Chunks \ {a} :
                 hdr[b].taken => b \in DOMAIN g /\ g[b].taken /\ g[b].size >= hdr[b].size
      <3> SUFFICES ASSUME NEW b \in Chunks \ {a}, hdr[b].taken
                   PROVE  b \in DOMAIN g /\ g[b].taken /\ g[b].size >= hdr[b].size
        OBVIOUS
      <3>1. h[b].taken /\ b \in DOMAIN g /\ g[b].taken
        BY <2>4, <1>1, <1>8
      <3>2. h[b].size \in Nat /\ h2[b].size \in Nat /\ g[b].size \in Nat
        BY <3>1, <2>4, <1>1, <1>4, <1>8, HeaderFacts
      <3> QED BY <3>1, <3>2, <2>4, <1>1, <1>8
    <2>7. ASSUME NEW b \in DOMAIN g, End(g, b) \in DOMAIN g
          PROVE  g[b].taken \/ g[End(g, b)].taken
      <3>1. CASE b = bf
        <4>1. End(h2, a) \in DOMAIN h2 /\ End(h2, a) # a /\ ~ h2[a].taken
          BY <2>4, <2>7, <3>1, <1>1, <1>8
        <4> QED BY <4>1, <2>4, <2>7, <3>1, <1>8
      <3>2. CASE b # bf
        BY <2>4, <2>7, <3>2, <1>8
      <3> QED BY <3>1, <3>2
    <2> QED BY <2>4, <2>5, <2>6, <2>7, <1>8
  <1>13. CASE ~ isFree(h, before)
    <2>1. g = h2
      BY <1>9, <1>13
    <2>2. ASSUME NEW b \in DOMAIN h2, End(h2, b) = a
          PROVE  h2[b].taken
      <3>1. b = before
        <4>1. a # BlockSize
          BY <1>8, HeaderFacts
        <4> QED BY <4>1, <2>2, <1>8 DEF Row
      <3>2. b # NULL
        BY <2>2, <1>8, HeaderFacts
      <3> QED BY <3>1, <3>2, <2>2, <1>8, <1>13 DEF isFree
    <2>3. \A b \in DOMAIN g : End(g, b) \in DOMAIN g => g[b].taken \/ g[End(g, b)].taken
      BY <2>1, <2>2, <1>8
    <2>4. \A b \in DOMAIN g : g[b].taken => b # a /\ hdr[b].taken
      BY <2>1, <1>1, <1>8
    <2>5. \A b \in Chunks \ {a} :
                 hdr[b].taken => b \in DOMAIN g /\ g[b].taken /\ g[b].size >= hdr[b].size
      BY <2>1, <1>1, <1>8
    <2> QED BY <2>1, <2>3, <2>4, <2>5, <1>8
  <1> QED BY <1>12, <1>13

-----------------------------------------------------------------------------
(* The initial state, and one lemma per operation.                         *)

\* Block::init leaves one free chunk that fills the block.
LEMMA InitIInv == Init => IInv
  <1> SUFFICES ASSUME Init PROVE IInv
    OBVIOUS
  <1> DEFINE H == Header(BlockSize - HeaderSize, NULL, NULL, FALSE)
  <1>1. /\ BlockSize \in Nat /\ HeaderSize \in Nat \ {0} /\ BlockSize - HeaderSize \in 0 .. BlockSize
        /\ BlockSize > 0 /\ NULL = -1
    BY AllocatorAssumption DEF NULL
  <1>2. /\ H \in HeaderType /\ H.size = BlockSize - HeaderSize /\ H.prev = NULL
        /\ H.next = NULL /\ ~ H.taken
    BY <1>1 DEF Header, HeaderType
  <1>3. hdr = [a \in {0} |-> H]
    BY DEF Init
  <1> HIDE DEF H
  <1>4. Chunks = {0} /\ DOMAIN hdr = {0} /\ hdr[0] = H
    BY <1>3 DEF Chunks
  <1>5. Headers(hdr)
    BY <1>1, <1>2, <1>3, <1>4 DEF Headers
  <1>6. End(hdr, 0) = BlockSize /\ jump(0) = BlockSize
    BY <1>1, <1>2, <1>4 DEF End, jump
  <1>7. Row(hdr)
    BY <1>1, <1>2, <1>4, <1>6 DEF Row
  <1>8. Typed
    <2>1. wild \in BOOLEAN
      BY Zenon DEF Init
    <2> QED BY <1>1, <2>1 DEF Init, Typed
  <1>9. AllocationsDisjoint /\ NoChunkLost
    BY <1>2, <1>4 DEF Init, AllocationsDisjoint, NoChunkLost
  <1>10. Coalesced
    BY <1>1, <1>4, <1>6 DEF Coalesced
  <1>11. Walking
    BY DEF Init, Walking
  <1>12. ~ wild
    BY DEF Init
  <1> QED BY <1>5, <1>7, <1>8, <1>9, <1>10, <1>11, <1>12 DEF IInv

\* kmalloc() begins its walk at the first chunk.
LEMMA CallStep ==
    ASSUME OneCaller, IInv, NEW t \in Threads, NEW n \in Requests, Call(t, n)
    PROVE  IInv'
  <1>1. n \in Nat /\ 0 \in 0 .. BlockSize
    BY AllocatorAssumption
  <1>2. UNCHANGED <<hdr, live, wild>>
    BY DEF Call
  <1>3. Typed'
    BY <1>1 DEF Call, IInv, Typed
  <1>4. Walking'
    BY DEF OneCaller, IInv, Typed, Row, Call, Walking, Chunks
  <1>5. /\ Headers(hdr)' /\ Row(hdr)' /\ AllocationsDisjoint' /\ NoChunkLost'
        /\ Coalesced' /\ (wild => Strays)'
    BY <1>2 DEF IInv, AllocationsDisjoint, NoChunkLost, Coalesced, Strays, Chunks, jump
  <1> QED BY <1>3, <1>4, <1>5 DEF IInv

\* One turn of the walk: it goes from a chunk to its neighbour, and leaves the
\* block only by the next of a last chunk that was given out whole.
LEMMA WalkStep ==
    ASSUME OneCaller, IInv, NEW t \in Threads, Walk(t)
    PROVE  IInv'
  <1>1. /\ Typed /\ Headers(hdr) /\ Row(hdr) /\ pc[t] = "walk" /\ chunk[t] # NULL
        /\ \A u \in Threads : u = t
    BY DEF IInv, Walk, OneCaller
  <1>2. hdr' = hdr /\ live' = live /\ bytes' = bytes
    BY DEF Walk, WildAccess
  <1>3. /\ Headers(hdr)' /\ Row(hdr)' /\ AllocationsDisjoint' /\ NoChunkLost' /\ Coalesced'
    BY <1>2 DEF IInv, AllocationsDisjoint, NoChunkLost, Coalesced, Chunks, jump
  <1>4. (Strays' <=> Strays) /\ Chunks' = Chunks
    BY <1>2 DEF Strays, Chunks, jump
  <1>5. CASE chunk[t] \notin Chunks /\ WildAccess
    <2>1. Strays
      BY <1>1, <1>5 DEF IInv, Walking
    <2>2. wild' \in BOOLEAN /\ UNCHANGED <<pc, bytes, chunk, prev>>
      BY <1>5, Zenon DEF WildAccess
    <2>3. Typed'
      BY <1>1, <1>2, <2>2 DEF Typed
    <2>4. Walking'
      BY <1>2, <1>4, <2>2 DEF IInv, Walking
    <2> QED BY <1>3, <1>4, <2>1, <2>3, <2>4 DEF IInv
  <1>6. CASE /\ chunk[t] \in Chunks
             /\ prev' = [prev EXCEPT ![t] = chunk[t]]
             /\ chunk' = [chunk EXCEPT ![t] = hdr[chunk[t]].next]
             /\ UNCHANGED <<pc, wild>>
    <2>1. prev'[t] = chunk[t] /\ chunk'[t] = hdr[chunk[t]].next
      BY <1>1, <1>6 DEF Typed
    <2>2. hdr[chunk[t]] \in HeaderType /\ chunk[t] \in 0 .. BlockSize
      BY <1>1, <1>6, HeaderFacts DEF Chunks
    <2>3. Typed'
      BY <1>1, <1>2, <1>6, <2>2 DEF Typed, HeaderType
    <2>4. CASE chunk'[t] \in Chunks
      <3>1. hdr[chunk'[t]].prev = chunk[t]
        BY <1>1, <1>6, <2>1, <2>4, NextFacts DEF Chunks
      <3>2. Walking'
        BY <1>1, <1>2, <1>4, <1>6, <2>1, <2>4, <3>1 DEF Walking
      <3> QED BY <1>3, <1>4, <1>6, <2>3, <3>2 DEF IInv
    <2>5. CASE chunk'[t] \notin Chunks
      <3>1. /\ End(hdr, chunk[t]) = BlockSize /\ hdr[chunk[t]].next \in {NULL, BlockSize}
            /\ jump(chunk[t]) = End(hdr, chunk[t])
        BY <1>1, <1>6, <2>1, <2>5 DEF Row, Chunks, End, jump
      <3>2. chunk'[t] = NULL \/ (chunk'[t] = BlockSize /\ Strays)
        BY <3>1, <1>6, <2>1 DEF Strays
      <3>3. Walking'
        BY <1>1, <1>4, <1>6, <2>5, <3>2 DEF Walking
      <3> QED BY <1>3, <1>4, <1>6, <2>3, <3>3 DEF IInv
    <2> QED BY <2>4, <2>5
  <1>7. CASE /\ chunk[t] \in Chunks
             /\ ~ PassedOver(hdr[chunk[t]], bytes[t])
             /\ pc' = [pc EXCEPT ![t] = "take"]
             /\ UNCHANGED <<chunk, prev, wild>>
    <2>1. pc'[t] = "take"
      BY <1>1, <1>7 DEF Typed
    <2>2. Typed'
      BY <1>1, <1>2, <1>7 DEF Typed
    <2>3. prev[t] = hdr[chunk[t]].prev
      BY <1>1, <1>7 DEF IInv, Walking
    <2>4. Walking'
      BY <1>1, <1>2, <1>4, <1>7, <2>1, <2>3 DEF Walking, PassedOver
    <2> QED BY <1>3, <1>4, <1>7, <2>2, <2>4 DEF IInv
  <1> QED BY <1>5, <1>6, <1>7 DEF Walk

\* After Done the only caller has no call under way.
LEMMA DoneFacts ==
    ASSUME OneCaller, IInv, NEW t \in Threads, Done(t)
    PROVE  /\ pc' \in [Threads -> {"idle", "walk", "take"}]
           /\ bytes' \in [Threads -> Nat]
           /\ chunk' \in [Threads -> {NULL} \cup (0 .. BlockSize)]
           /\ prev' \in [Threads -> {NULL} \cup (0 .. BlockSize)]
           /\ Walking'
  <1>1. 0 \in 0 .. BlockSize
    BY AllocatorAssumption
  <1>2. pc'[t] = "idle"
    BY DEF Done, IInv, Typed
  <1> QED BY <1>1, <1>2 DEF OneCaller, Done, IInv, Typed, Walking

\* allocate() has found nothing and returns NULL.
LEMMA OutOfMemoryStep ==
    ASSUME OneCaller, IInv, NEW t \in Threads, OutOfMemory(t)
    PROVE  IInv'
  <1>1. Done(t) /\ UNCHANGED <<hdr, live, wild>>
    BY DEF OutOfMemory
  <1>2. Walking' /\ Typed'
    BY <1>1, DoneFacts DEF IInv, Typed
  <1>3. /\ Headers(hdr)' /\ Row(hdr)' /\ AllocationsDisjoint' /\ NoChunkLost'
        /\ Coalesced' /\ (wild => Strays)'
    BY <1>1 DEF IInv, AllocationsDisjoint, NoChunkLost, Coalesced, Strays, Chunks, jump
  <1> QED BY <1>2, <1>3 DEF IInv

\* A chunk that was free is given out: the allocations stay disjoint, and every
\* taken chunk has its owner.
LEMMA GivenOut ==
    ASSUME IInv, NEW t \in Threads, NEW first \in Chunks, NEW n \in Nat,
           ~ hdr[first].taken,
           Headers(hdr'), first \in DOMAIN hdr', hdr'[first].taken, hdr'[first].size >= n,
           Chunks \subseteq DOMAIN hdr',
           \A a \in Chunks \ {first} : hdr'[a].taken = hdr[a].taken /\ hdr'[a].size = hdr[a].size,
           \A a \in DOMAIN hdr' \ Chunks : ~ hdr'[a].taken,
           live' = live \cup {[addr |-> first + HeaderSize, bytes |-> n, by |-> t]}
    PROVE  /\ AllocationsDisjoint' /\ NoChunkLost'
           /\ live' \subseteq [addr : Nat, bytes : Nat, by : Threads]
  <1> DEFINE m == [addr |-> first + HeaderSize, bytes |-> n, by |-> t]
  <1>1. /\ first \in Nat /\ HeaderSize \in Nat /\ m.addr = first + HeaderSize /\ m.bytes = n
        /\ m \in [addr : Nat, bytes : Nat, by : Threads] /\ m.addr - HeaderSize = first
    BY HeaderFacts DEF IInv, Chunks
  <1> HIDE DEF m
  <1>2. live' = live \cup {m}
    BY DEF m
  <1>3. live' \subseteq [addr : Nat, bytes : Nat, by : Threads]
    BY <1>1, <1>2 DEF IInv, Typed
  <1>4. ASSUME NEW k \in live
        PROVE  /\ k.addr \in Nat /\ k.addr - HeaderSize \in Chunks \ {first}
               /\ hdr[k.addr - HeaderSize].taken /\ k.bytes <= hdr[k.addr - HeaderSize].size
               /\ k.addr # m.addr
    <2>1. k.addr \in Nat
      BY DEF IInv, Typed
    <2>2. /\ k.addr - HeaderSize \in Chunks /\ hdr[k.addr - HeaderSize].taken
          /\ k.bytes <= hdr[k.addr - HeaderSize].size
      BY DEF IInv, AllocationsDisjoint
    <2>3. k.addr - HeaderSize # first
      BY <2>2
    <2> QED BY <2>1, <2>2, <2>3, <1>1
  <1>5. AllocationsDisjoint'
    <2>1. ASSUME NEW k \in live'
          PROVE  /\ k.addr - HeaderSize \in Chunks'
                 /\ hdr'[k.addr - HeaderSize].taken
                 /\ k.bytes <= hdr'[k.addr - HeaderSize].size
      <3>1. CASE k = m
        BY <3>1, <1>1 DEF Chunks
      <3>2. CASE k # m
        BY <3>2, <1>2, <1>4 DEF Chunks
      <3> QED BY <3>1, <3>2
    <2>2. ASSUME NEW k \in live', NEW l \in live', k # l
          PROVE  k.addr # l.addr
      <3>1. CASE k \in live /\ l \in live
        BY <2>2, <3>1 DEF IInv, AllocationsDisjoint
      <3>2. CASE k = m \/ l = m
        BY <2>2, <3>2, <1>2, <1>4
      <3> QED BY <3>1, <3>2, <1>2
    <2> QED BY <2>1, <2>2 DEF AllocationsDisjoint
  <1>6. NoChunkLost'
    <2> SUFFICES ASSUME NEW a \in DOMAIN hdr', hdr'[a].taken
                 PROVE  \E k \in live' : k.addr = a + HeaderSize
      BY DEF NoChunkLost, Chunks
    <2>1. CASE a = first
      BY <2>1, <1>1, <1>2
    <2>2. CASE a # first
      <3>1. a \in Chunks /\ hdr[a].taken
        BY <2>2
      <3> QED BY <3>1, <1>2 DEF IInv, NoChunkLost
    <2> QED BY <2>1, <2>2
  <1> QED BY <1>3, <1>5, <1>6

\* The second half of allocate(): the chunk the walk found is still free and
\* large enough, and is given out in part or as a whole.
LEMMA TakeStep ==
    ASSUME OneCaller, IInv, NEW t \in Threads, Take(t)
    PROVE  IInv'
  <1>1. PICK first : first = chunk[t]
    OBVIOUS
  <1>2. PICK n : n = bytes[t]
    OBVIOUS
  <1>3. /\ Typed /\ Headers(hdr) /\ Row(hdr) /\ Coalesced /\ ~ wild
        /\ first \in Chunks /\ ~ hdr[first].taken /\ ~ (hdr[first].size < n)
        /\ prev[t] = hdr[first].prev /\ n \in Nat
    BY <1>1, <1>2 DEF IInv, Take, Walking, PassedOver, Typed
  <1>4. hdr[first].next \in Chunks \cup {NULL}
    BY <1>3, FreeNext DEF Chunks
  <1>5. /\ hdr[first].size \in Nat /\ hdr[first].size >= n /\ first \in Nat
        /\ HeaderSize \in Nat \ {0} /\ MinChunkSize \in Nat
    BY <1>3, HeaderFacts DEF Chunks
  <1>6. /\ live' = live \cup {[addr |-> first + HeaderSize, bytes |-> n, by |-> t]}
        /\ Done(t) /\ wild' = wild
    BY <1>1, <1>2, <1>3, <1>4 DEF Take
  <1>7. \/ Splits(hdr[first], n) /\ hdr' = Split(first, prev[t], n)
        \/ ~ Splits(hdr[first], n) /\ hdr' = Whole(first, prev[t])
    BY <1>1, <1>2, <1>3, <1>4 DEF Take
  <1>8. /\ pc' \in [Threads -> {"idle", "walk", "take"}]
        /\ bytes' \in [Threads -> Nat]
        /\ chunk' \in [Threads -> {NULL} \cup (0 .. BlockSize)]
        /\ prev' \in [Threads -> {NULL} \cup (0 .. BlockSize)]
        /\ Walking'
    BY <1>6, DoneFacts
  <1>9. PICK g : g = hdr'
    OBVIOUS
  <1>10. CASE Splits(hdr[first], n) /\ hdr' = Split(first, prev[t], n)
    <2>1. PICK second : second = first + HeaderSize + n
      OBVIOUS
    <2>2. hdr[first].size - n > HeaderSize + MinChunkSize
      BY <1>3, <1>5, <1>10 DEF Splits
    <2>3. g = Split(first, hdr[first].prev, n)
      BY <1>3, <1>9, <1>10
    <2>4. /\ Headers(g) /\ Row(g)
          /\ second \notin Chunks /\ DOMAIN g = Chunks \cup {second}
          /\ g[first].taken /\ g[first].size = n
          /\ ~ g[second].taken /\ End(g, second) = End(hdr, first)
          /\ End(g, first) = second
          /\ \A a \in Chunks \ {first} :
                g[a].taken = hdr[a].taken /\ g[a].size = hdr[a].size /\ End(g, a) = End(hdr, a)
      <3>1. /\ Headers(hdr) /\ Row(hdr) /\ first \in Chunks /\ n \in Nat
            /\ hdr[first].size >= n /\ hdr[first].size - n > HeaderSize + MinChunkSize
            /\ hdr[first].next \in Chunks \cup {NULL}
            /\ second = first + HeaderSize + n
        BY <1>3, <1>4, <1>5, <2>1, <2>2
      <3> QED BY ONLY <3>1, <2>3, SplitFacts
    <2>5. /\ AllocationsDisjoint' /\ NoChunkLost'
          /\ live' \subseteq [addr : Nat, bytes : Nat, by : Threads]
      BY <1>3, <1>5, <1>6, <1>9, <2>4, GivenOut
    <2>6. Coalesced'
      <3> SUFFICES ASSUME NEW a \in DOMAIN g, End(g, a) \in DOMAIN g
                   PROVE  g[a].taken \/ g[End(g, a)].taken
        BY <1>9 DEF Coalesced, Chunks, jump, End
      <3>1. \A b \in Chunks : End(hdr, b) \in Chunks => hdr[b].taken \/ hdr[End(hdr, b)].taken
        BY <1>3 DEF Coalesced, jump, End
      <3>2. CASE a = first
        BY <2>4, <3>2
      <3>3. CASE a = second
        <4>1. End(hdr, first) # second /\ End(hdr, first) # first
          BY <1>3, <1>5, <2>1, <2>2, HeaderFacts DEF End
        <4>2. End(hdr, first) \in Chunks
          BY <2>4, <3>3, <4>1
        <4>3. hdr[End(hdr, first)].taken
          BY <3>1, <4>2, <1>3
        <4> QED BY <2>4, <3>3, <4>1, <4>2, <4>3
      <3>4. CASE a # first /\ a # second
        <4>1. a \in Chunks /\ End(g, a) = End(hdr, a) /\ g[a].taken = hdr[a].taken
          BY <2>4, <3>4
        <4>2. CASE End(g, a) = second
          <5>1. Headers(g) /\ Row(g) /\ a \in DOMAIN g /\ first \in DOMAIN g /\ second \in DOMAIN g
            BY <2>4, <1>3
          <5>2. second # BlockSize
            BY <5>1, HeaderFacts
          <5>3. g[second].prev = a /\ g[second].prev = first
            BY <5>1, <5>2, <4>2, <2>4 DEF Row
          <5> QED BY <5>3, <3>4
        <4>3. CASE End(g, a) = first
          BY <2>4, <4>3
        <4>4. CASE End(g, a) # second /\ End(g, a) # first
          BY <2>4, <3>1, <4>1, <4>4
        <4> QED BY <4>2, <4>3, <4>4
      <3> QED BY <3>2, <3>3, <3>4
    <2> QED BY <1>3, <1>6, <1>8, <1>9, <2>4, <2>5, <2>6 DEF IInv, Typed
  <1>11. CASE ~ Splits(hdr[first], n) /\ hdr' = Whole(first, prev[t])
    <2>1. g = Whole(first, hdr[first].prev)
      BY <1>3, <1>9, <1>11
    <2>2. /\ Headers(g) /\ Row(g) /\ DOMAIN g = Chunks
          /\ g[first].taken
          /\ \A a \in Chunks : g[a].size = hdr[a].size /\ End(g, a) = End(hdr, a)
          /\ \A a \in Chunks \ {first} : g[a].taken = hdr[a].taken
      BY <1>3, <2>1, WholeFacts
    <2>3. /\ AllocationsDisjoint' /\ NoChunkLost'
          /\ live' \subseteq [addr : Nat, bytes : Nat, by : Threads]
      BY <1>3, <1>5, <1>6, <1>9, <2>2, GivenOut
    <2>4. Coalesced'
      <3> SUFFICES ASSUME NEW a \in DOMAIN g, End(g, a) \in DOMAIN g
                   PROVE  g[a].taken \/ g[End(g, a)].taken
        BY <1>9 DEF Coalesced, Chunks, jump, End
      <3>1. \A b \in Chunks : End(hdr, b) \in Chunks => hdr[b].taken \/ hdr[End(hdr, b)].taken
        BY <1>3 DEF Coalesced, jump, End
      <3> QED BY <3>1, <2>2
    <2> QED BY <1>3, <1>6, <1>8, <1>9, <2>2, <2>3, <2>4 DEF IInv, Typed
  <1> QED BY <1>7, <1>10, <1>11

\* kfree(): the chunk is free, merged with free neighbours, and nobody else's
\* memory has moved.
LEMMA FreeStep ==
    ASSUME OneCaller, IInv, NEW t \in Threads, NEW m \in live, Free(t, m)
    PROVE  IInv'
  <1>1. PICK a : a = m.addr - HeaderSize
    OBVIOUS
  <1>2. /\ Typed /\ Headers(hdr) /\ Row(hdr) /\ Coalesced /\ ~ wild
        /\ a \in Chunks /\ hdr[a].taken /\ pc[t] = "idle"
        /\ m.addr \in Nat /\ HeaderSize \in Nat
    BY <1>1, AllocatorAssumption DEF IInv, AllocationsDisjoint, Typed, Free
  <1>3. hdr[a].prev \in Chunks \cup {NULL}
    BY <1>2 DEF Row, Chunks
  <1>4. CASE /\ hdr[a].next \in Chunks \cup {NULL}
             /\ hdr' = Freed(a) /\ live' = live \ {m}
             /\ UNCHANGED <<pc, bytes, chunk, prev, wild>>
    <2>1. PICK g : g = hdr'
      OBVIOUS
    <2>2. /\ Headers(g) /\ Row(g) /\ DOMAIN g \subseteq Chunks
          /\ \A b \in DOMAIN g : g[b].taken => b # a /\ hdr[b].taken
          /\ \A b \in Chunks \ {a} :
                hdr[b].taken => b \in DOMAIN g /\ g[b].taken /\ g[b].size >= hdr[b].size
          /\ \A b \in DOMAIN g : End(g, b) \in DOMAIN g => g[b].taken \/ g[End(g, b)].taken
      BY <1>2, <1>4, <2>1, FreedFacts
    <2>3. Typed'
      BY <1>2, <1>4 DEF Typed
    <2>4. Coalesced'
      BY <2>1, <2>2 DEF Coalesced, Chunks, jump, End
    <2>5. Walking'
      BY <1>2, <1>4 DEF OneCaller, Walking
    <2>6. AllocationsDisjoint'
      <3>1. ASSUME NEW k \in live'
            PROVE  /\ k.addr - HeaderSize \in Chunks'
                   /\ hdr'[k.addr - HeaderSize].taken
                   /\ k.bytes <= hdr'[k.addr - HeaderSize].size
        <4>1. PICK b : b = k.addr - HeaderSize
          OBVIOUS
        <4>2. /\ k \in live /\ k # m /\ k.addr \in Nat /\ k.bytes \in Nat
              /\ b \in Chunks /\ hdr[b].taken /\ k.bytes <= hdr[b].size /\ k.addr # m.addr
          BY <1>2, <1>4, <4>1 DEF IInv, AllocationsDisjoint, Typed
        <4>3. b # a
          BY <1>1, <1>2, <4>1, <4>2
        <4>4. b \in DOMAIN g /\ g[b].taken /\ g[b].size >= hdr[b].size
          BY <2>2, <4>2, <4>3
        <4>5. g[b].size \in Nat /\ hdr[b].size \in Nat
          BY <4>2, <4>4, <1>2, <2>2, HeaderFacts DEF Chunks
        <4> QED BY <4>1, <4>2, <4>4, <4>5, <2>1 DEF Chunks
      <3>2. ASSUME NEW k \in live', NEW l \in live', k # l
            PROVE  k.addr # l.addr
        BY <3>2, <1>4 DEF IInv, AllocationsDisjoint
      <3> QED BY <3>1, <3>2 DEF AllocationsDisjoint
    <2>7. NoChunkLost'
      <3> SUFFICES ASSUME NEW b \in DOMAIN g, g[b].taken
                   PROVE  \E k \in live' : k.addr = b + HeaderSize
        BY <2>1 DEF NoChunkLost, Chunks
      <3>1. b \in Chunks /\ hdr[b].taken /\ b # a /\ b \in Nat
        BY <2>2, <1>2, HeaderFacts DEF Chunks
      <3>2. PICK k \in live : k.addr = b + HeaderSize
        BY <3>1 DEF IInv, NoChunkLost
      <3>3. k # m
        BY <3>1, <3>2, <1>1, <1>2
      <3> QED BY <3>2, <3>3, <1>4
    <2> QED BY <1>2, <1>4, <2>1, <2>2, <2>3, <2>4, <2>5, <2>6, <2>7 DEF IInv
  <1>5. CASE hdr[a].next \notin Chunks \cup {NULL} /\ WildAccess
    <2>1. /\ End(hdr, a) = BlockSize /\ hdr[a].next = BlockSize /\ jump(a) = End(hdr, a)
      BY <1>2, <1>5 DEF Row, Chunks, End, jump
    <2>2. Strays
      BY <1>2, <2>1 DEF Strays
    <2>3. wild' \in BOOLEAN /\ UNCHANGED <<hdr, live, pc, bytes, chunk, prev>>
      BY <1>5, Zenon DEF WildAccess
    <2>4. Typed'
      BY <1>2, <2>3 DEF Typed
    <2>5. Walking' /\ Strays'
      BY <2>2, <2>3 DEF IInv, Walking, Strays, Chunks, jump
    <2>6. /\ Headers(hdr)' /\ Row(hdr)' /\ AllocationsDisjoint' /\ NoChunkLost' /\ Coalesced'
      BY <2>3 DEF IInv, AllocationsDisjoint, NoChunkLost, Coalesced, Chunks, jump
    <2> QED BY <2>4, <2>5, <2>6 DEF IInv
  <1> QED BY <1>1, <1>2, <1>3, <1>4, <1>5 DEF Free

\* Every step of allocate() and free() keeps the invariant.
LEMMA NextIInv ==
    ASSUME OneCaller, IInv, [Next]_vars
    PROVE  IInv'
  <1>1. CASE Next
    <2>1. PICK t \in Threads : \/ \E n \in Requests : Call(t, n)
                               \/ Step(t)
                               \/ \E m \in live : m.by = t /\ Free(t, m)
      BY <1>1 DEF Next
    <2>2. CASE \E n \in Requests : Call(t, n)
      BY <2>2, CallStep
    <2>3. CASE Step(t)
      BY <2>3, WalkStep, OutOfMemoryStep, TakeStep DEF Step
    <2>4. CASE \E m \in live : m.by = t /\ Free(t, m)
      BY <2>4, FreeStep
    <2> QED BY <2>1, <2>2, <2>3, <2>4
  <1>2. CASE UNCHANGED vars
    <2>1. UNCHANGED <<hdr, live, pc, bytes, chunk, prev, wild>>
      BY <1>2 DEF vars
    <2>2. Typed' /\ Headers(hdr)' /\ Row(hdr)'
      BY <2>1 DEF IInv, Typed
    <2>3. AllocationsDisjoint' /\ NoChunkLost' /\ Coalesced' /\ (wild => Strays)' /\ Walking'
      BY <2>1 DEF IInv, AllocationsDisjoint, NoChunkLost, Coalesced, Strays, Walking, Chunks, jump
    <2> QED BY <2>2, <2>3 DEF IInv
  <1> QED BY <1>1, <1>2

-----------------------------------------------------------------------------
(* The theorems.                                                           *)

\* Calls of kmalloc() and kfree() that do not overlap keep the invariant of the
\* headers, the owners and the walk, for blocks, headers and requests of any size.
THEOREM Invariant == ASSUME OneCaller PROVE Spec => []IInv
  <1>1. Init => IInv
    BY InitIInv
  <1>2. IInv /\ [Next]_vars => IInv'
    BY NextIInv
  <1> QED BY <1>1, <1>2, PTL DEF Spec

\* The headers always describe the block: one row of chunks without gap or overlap,
\* every taken chunk with an owner, free neighbours merged at once.
THEOREM BlockStaysConsistent == ASSUME OneCaller PROVE Spec => []BlockConsistent
  <1>1. IInv => BlockConsistent
    <2> SUFFICES ASSUME IInv PROVE TypeOK /\ ChunksTileBlock
      BY DEF BlockConsistent, IInv
    <2>1. Typed /\ Headers(hdr) /\ Row(hdr)
      BY DEF IInv
    <2>2. TypeOK
      BY <2>1 DEF TypeOK, Typed, Headers, HeaderType, Chunks
    <2>3. \A a \in Chunks : jump(a) = End(hdr, a)
      BY DEF jump, End
    <2>4. ChunksTileBlock
      BY <2>1, <2>3 DEF ChunksTileBlock, Row, Chunks
    <2> QED BY <2>2, <2>4
  <1> QED BY <1>1, Invariant, PTL

\* No two callers are given overlapping memory, and nobody a header.
THEOREM OwnersDoNotOverlap == ASSUME OneCaller PROVE Spec => []AllocationsDisjoint
  <1>1. IInv => AllocationsDisjoint
    BY DEF IInv
  <1> QED BY <1>1, Invariant, PTL

\* The bytes of two allocations lie apart, with a header between them, and in the
\* block.
BytesApart ==
    \A m \in live :
        /\ m.addr + m.bytes <= BlockSize
        /\ \A n \in live \ {m} : \/ m.addr + m.bytes <= n.addr - HeaderSize
                                 \/ n.addr + n.bytes <= m.addr - HeaderSize

\* What the tiling and the owners of the chunks mean byte by byte: writing what
\* kmalloc() returned, up to the bytes asked for, touches nothing of anybody else.
THEOREM BytesLieApart == ASSUME OneCaller PROVE Spec => []BytesApart
  <1>1. IInv => BytesApart
    <2> SUFFICES ASSUME IInv PROVE BytesApart
      OBVIOUS
    <2>1. Headers(hdr) /\ Row(hdr) /\ HeaderSize \in Nat \ {0} /\ BlockSize \in Nat
      BY AllocatorAssumption DEF IInv
    <2>2. ASSUME NEW m \in live
          PROVE  /\ m.addr \in Nat /\ m.bytes \in Nat
                 /\ m.addr - HeaderSize \in Chunks
                 /\ m.addr + m.bytes <= End(hdr, m.addr - HeaderSize)
                 /\ End(hdr, m.addr - HeaderSize) \in Nat
      <3>1. PICK a : a = m.addr - HeaderSize
        OBVIOUS
      <3>2. /\ m.addr \in Nat /\ m.bytes \in Nat /\ a \in Chunks /\ m.bytes <= hdr[a].size
        BY <3>1 DEF IInv, Typed, AllocationsDisjoint
      <3>3. hdr[a].size \in Nat /\ End(hdr, a) = a + HeaderSize + hdr[a].size /\ a \in Nat
        BY <3>2, <2>1, HeaderFacts DEF Chunks, End
      <3> QED BY <3>1, <3>2, <3>3, <2>1
    <2>3. ASSUME NEW m \in live
          PROVE  m.addr + m.bytes <= BlockSize
      <3>1. PICK a : a = m.addr - HeaderSize
        OBVIOUS
      <3>2. End(hdr, a) <= BlockSize
        BY <2>1, <2>2, <3>1, HeaderFacts DEF Row, Chunks
      <3> QED BY <3>1, <3>2, <2>1, <2>2
    <2>4. ASSUME NEW m \in live, NEW n \in live, m # n
          PROVE  \/ m.addr + m.bytes <= n.addr - HeaderSize
                 \/ n.addr + n.bytes <= m.addr - HeaderSize
      <3>1. PICK a : a = m.addr - HeaderSize
        OBVIOUS
      <3>2. PICK b : b = n.addr - HeaderSize
        OBVIOUS
      <3>3. m.addr # n.addr
        BY <2>4 DEF IInv, AllocationsDisjoint
      <3>4. a \in Chunks /\ b \in Chunks /\ (a < b \/ b < a)
        BY <2>1, <2>2, <3>1, <3>2, <3>3
      <3>5. End(hdr, a) <= b \/ End(hdr, b) <= a
        BY <2>1, <3>4 DEF Row, Chunks
      <3>6. m.addr + m.bytes <= End(hdr, a) /\ n.addr + n.bytes <= End(hdr, b)
        BY <2>2, <3>1, <3>2
      <3>7. End(hdr, a) \in Nat /\ End(hdr, b) \in Nat /\ a \in Int /\ b \in Int
            /\ m.addr + m.bytes \in Nat /\ n.addr + n.bytes \in Nat
        BY <2>1, <2>2, <3>1, <3>2
      <3> QED BY <3>1, <3>2, <3>5, <3>6, <3>7
    <2> QED BY <2>3, <2>4 DEF BytesApart
  <1> QED BY <1>1, Invariant, PTL

\* A header is looked for outside the block only behind a last chunk that
\* allocate() gave out whole, whose next it set to the end of the block.
THEOREM OnlyThatLinkStrays == ASSUME OneCaller PROVE Spec => []OnlyLastLinkStrays
  <1>1. IInv => OnlyLastLinkStrays
    BY DEF IInv, OnlyLastLinkStrays, Strays
  <1> QED BY <1>1, Invariant, PTL

=============================================================================
