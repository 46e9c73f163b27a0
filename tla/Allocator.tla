----------------------------- MODULE Allocator -----------------------------
(***************************************************************************)
(* The kernel heap: Block of kernel/mem/allocator.cpp behind kmalloc() and *)
(* kfree().  The block is a row of chunks, each with a header in front; a  *)
(* header links to the chunks before and behind it.  allocate() walks the  *)
(* chunks in steps of their own and then writes, because nothing keeps the *)
(* timer from preempting it: with more than one element of Threads several *)
(* calls are at work at once.                                              *)
(*                                                                         *)
(* hdr holds the headers that are in use.  Reading or writing a header at  *)
(* any other address is a wild access; the model stops there.              *)
(***************************************************************************)
EXTENDS Integers, FiniteSets

CONSTANTS
    BlockSize,      \* bytes of the block (65536 pages in the kernel)
    HeaderSize,     \* sizeof(Header), 16
    MinChunkSize,   \* 8
    Requests,       \* the numbers of bytes callers ask for
    Threads

NULL == -1

ASSUME AllocatorAssumption ==
    /\ BlockSize \in Nat /\ HeaderSize \in Nat \ {0} /\ BlockSize > HeaderSize
    /\ MinChunkSize \in Nat
    /\ Requests \subseteq Nat \ {0}

VARIABLES
    hdr,       \* the chunks: address -> [size, prev, next, taken]
    live,      \* allocations in the hands of callers: [addr, bytes, by]
    pc,        \* per thread: "idle", "walk" or "take"
    bytes,     \* per thread: numBytes
    chunk,     \* per thread: where the walk is
    prev,      \* per thread: the chunk before it
    wild       \* a header was accessed where there is none

vars == <<hdr, live, pc, bytes, chunk, prev, wild>>

Chunks == DOMAIN hdr

Header(size, pr, next, taken) == [size |-> size, prev |-> pr, next |-> next, taken |-> taken]

\* jump(a, 1): the address behind the chunk at a.
jump(a) == a + HeaderSize + hdr[a].size

\* Writing one header, and a field of one that may be absent.
Put(h, a, header) == [b \in DOMAIN h \cup {a} |-> IF b = a THEN header ELSE h[b]]

SetPrev(h, a, pr) == IF a = NULL THEN h ELSE [h EXCEPT ![a].prev = pr]

-----------------------------------------------------------------------------
\* Block::init: one free chunk.
Init ==
    /\ hdr = [a \in {0} |-> Header(BlockSize - HeaderSize, NULL, NULL, FALSE)]
    /\ live = {}
    /\ pc = [t \in Threads |-> "idle"]
    /\ bytes = [t \in Threads |-> 0]
    /\ chunk = [t \in Threads |-> 0]
    /\ prev = [t \in Threads |-> NULL]
    /\ wild = FALSE

Call(t, n) ==
    /\ ~ wild
    /\ pc[t] = "idle"
    /\ pc' = [pc EXCEPT ![t] = "walk"]
    /\ bytes' = [bytes EXCEPT ![t] = n]
    /\ chunk' = [chunk EXCEPT ![t] = 0]
    /\ prev' = [prev EXCEPT ![t] = NULL]
    /\ UNCHANGED <<hdr, live, wild>>

\* The end of a call; its locals are gone.
Done(t) ==
    /\ pc' = [pc EXCEPT ![t] = "idle"]
    /\ bytes' = [bytes EXCEPT ![t] = 0]
    /\ chunk' = [chunk EXCEPT ![t] = 0]
    /\ prev' = [prev EXCEPT ![t] = NULL]

WildAccess == wild' = TRUE /\ UNCHANGED <<hdr, live, pc, bytes, chunk, prev>>

\* Slip: the size of the chunk is not looked at.
TooSmallIgnored(h, n) == h.taken

\* The condition under which the walk goes on.
PassedOver(h, n) == h.taken \/ h.size < n

\* One turn of the walk: on to the next chunk, or this is the one.
Walk(t) ==
    /\ ~ wild
    /\ pc[t] = "walk"
    /\ chunk[t] # NULL
    /\ \/ /\ chunk[t] \notin Chunks
          /\ WildAccess
       \/ /\ chunk[t] \in Chunks
          /\ PassedOver(hdr[chunk[t]], bytes[t])
          /\ prev' = [prev EXCEPT ![t] = chunk[t]]
          /\ chunk' = [chunk EXCEPT ![t] = hdr[chunk[t]].next]
          /\ UNCHANGED <<hdr, live, pc, bytes, wild>>
       \/ /\ chunk[t] \in Chunks
          /\ ~ PassedOver(hdr[chunk[t]], bytes[t])
          /\ pc' = [pc EXCEPT ![t] = "take"]
          /\ UNCHANGED <<hdr, live, bytes, chunk, prev, wild>>

\* No chunk is large enough: allocate() returns NULL.
OutOfMemory(t) ==
    /\ ~ wild
    /\ pc[t] = "walk"
    /\ chunk[t] = NULL
    /\ Done(t)
    /\ UNCHANGED <<hdr, live, wild>>

\* The difference is unsigned: a chunk that another thread has made too small
\* since the walk looks huge.
Splits(h, n) == h.size < n \/ h.size - n > HeaderSize + MinChunkSize

\* The chunk at first in two: n bytes taken, the rest free.
Split(first, pr, n) ==
    LET second == first + HeaderSize + n
        size == hdr[first].size - n - HeaderSize
        next == hdr[first].next
    IN  Put(SetPrev(Put(hdr, second, Header(size, first, next, FALSE)), next, second),
            first, Header(n, pr, second, TRUE))

\* The chunk as a whole; its next is where the next chunk would be, even if it
\* is the last one.
Whole(first, pr) == Put(hdr, first, Header(hdr[first].size, pr, jump(first), TRUE))

\* The second half of allocate().
Take(t) ==
    LET first == chunk[t] IN
    /\ ~ wild
    /\ pc[t] = "take"
    /\ \/ /\ \/ first \notin Chunks
             \/ Splits(hdr[first], bytes[t]) /\ hdr[first].next \notin Chunks \cup {NULL}
          /\ WildAccess
       \/ /\ first \in Chunks
          /\ Splits(hdr[first], bytes[t])
          /\ hdr[first].next \in Chunks \cup {NULL}
          /\ hdr' = Split(first, prev[t], bytes[t])
          /\ live' = live \cup {[addr |-> first + HeaderSize, bytes |-> bytes[t], by |-> t]}
          /\ Done(t)
          /\ UNCHANGED wild
       \/ /\ first \in Chunks
          /\ ~ Splits(hdr[first], bytes[t])
          /\ hdr' = Whole(first, prev[t])
          /\ live' = live \cup {[addr |-> first + HeaderSize, bytes |-> bytes[t], by |-> t]}
          /\ Done(t)
          /\ UNCHANGED wild

isFree(h, a) == a # NULL /\ ~ h[a].taken

\* Slip: the chunk behind the merged pair points back into it.
MergeForgetsBack(h, first, second) ==
    LET size == h[first].size + HeaderSize + h[second].size
    IN  [a \in DOMAIN h \ {second} |->
            IF a = first THEN [h[a] EXCEPT !.size = size, !.next = h[second].next] ELSE h[a]]

\* merge(first, second): the header of second is not used any more.
Merge(h, first, second) ==
    LET size == h[first].size + HeaderSize + h[second].size
        next == h[second].next
        linked == SetPrev(h, next, first)
    IN  [a \in DOMAIN h \ {second} |->
            IF a = first THEN [linked[a] EXCEPT !.size = size, !.next = next]
            ELSE linked[a]]

\* free(): the chunk at a becomes free and is merged with free neighbours.
Freed(a) ==
    LET h == [hdr EXCEPT ![a].taken = FALSE]
        next == h[a].next
        before == h[a].prev
        h2 == IF isFree(h, next) THEN Merge(h, a, next) ELSE h
    IN  IF isFree(h, before) THEN Merge(h2, before, a) ELSE h2

Free(t, m) ==
    LET a == m.addr - HeaderSize IN
    /\ ~ wild
    /\ pc[t] = "idle"
    /\ \/ /\ a \in Chunks
          /\ hdr[a].next \in Chunks \cup {NULL}
          /\ hdr[a].prev \in Chunks \cup {NULL}
          /\ hdr' = Freed(a)
          /\ live' = live \ {m}
          /\ UNCHANGED <<pc, bytes, chunk, prev, wild>>
       \/ /\ \/ a \notin Chunks
             \/ hdr[a].next \notin Chunks \cup {NULL}
             \/ hdr[a].prev \notin Chunks \cup {NULL}
          /\ WildAccess

Step(t) == Walk(t) \/ OutOfMemory(t) \/ Take(t)

Next ==
    \E t \in Threads :
        \/ \E n \in Requests : Call(t, n)
        \/ Step(t)
        \/ \E m \in live : m.by = t /\ Free(t, m)

Spec == Init /\ [][Next]_vars

-----------------------------------------------------------------------------
(* Properties.                                                             *)

TypeOK ==
    /\ Chunks \subseteq 0 .. (BlockSize - 1)
    /\ \A a \in Chunks :
          hdr[a] \in [size : 0 .. BlockSize, prev : {NULL} \cup (0 .. BlockSize),
                      next : {NULL} \cup (0 .. BlockSize), taken : BOOLEAN]
    /\ pc \in [Threads -> {"idle", "walk", "take"}]
    /\ wild \in BOOLEAN

\* The chunks tile the block and the links say so: every chunk ends where the
\* next one begins, the next one points back to it, nothing is lost in a split
\* or a merge.
ChunksTileBlock ==
    /\ 0 \in Chunks /\ hdr[0].prev = NULL
    /\ \A a \in Chunks :
          \/ jump(a) = BlockSize /\ hdr[a].next \in {NULL, BlockSize}
          \/ jump(a) \in Chunks /\ hdr[a].next = jump(a) /\ hdr[jump(a)].prev = a
    /\ \A a, b \in Chunks : a < b => jump(a) <= b

\* The bytes callers hold are disjoint and inside chunks that are taken: nobody
\* writes into somebody else's memory or into a header (MemoryTester checks that
\* its guards are not smashed).
AllocationsDisjoint ==
    /\ \A m \in live : /\ m.addr - HeaderSize \in Chunks
                       /\ hdr[m.addr - HeaderSize].taken
                       /\ m.bytes <= hdr[m.addr - HeaderSize].size
    /\ \A m, n \in live : m # n => m.addr # n.addr

\* Every chunk that is marked taken is in somebody's hands: kfree() gives back
\* what kmalloc() took.
NoChunkLost == \A a \in Chunks : hdr[a].taken => \E m \in live : m.addr = a + HeaderSize

\* free() merges at once: two free chunks are never neighbours, so freeing
\* everything restores the single chunk of Block::init.
Coalesced ==
    \A a \in Chunks : jump(a) \in Chunks => hdr[a].taken \/ hdr[jump(a)].taken

\* The one link that ever leads out of the block is the next of the last chunk,
\* once that was given out whole: allocate() sets it to jump(first, 1) where
\* Block::init had NULL.  No other access misses a header.
OnlyLastLinkStrays ==
    wild => \E a \in Chunks : hdr[a].next = BlockSize /\ jump(a) = BlockSize

\* At every step of Block::allocate() and Block::free() the headers describe the
\* block: links forth and back form one row of chunks without gap or overlap,
\* every chunk that is taken has an owner, and two free chunks are never neighbours.
BlockConsistent == TypeOK /\ ChunksTileBlock /\ NoChunkLost /\ Coalesced

=============================================================================
