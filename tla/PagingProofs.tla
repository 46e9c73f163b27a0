---------------------------- MODULE PagingProofs ----------------------------
(***************************************************************************)
(* Proofs about Paging: the flags, the counters and the owners of pages    *)
(* agree, for any number of tables, pages of a table and bytes of a page.  *)
(***************************************************************************)
EXTENDS Paging, FiniteSetTheorems, WellFoundedInduction, TLAPS

-----------------------------------------------------------------------------
(* The inductive invariant.                                                *)

Offsets == 0 .. (NUM_OF_PTE - 1)

Typed ==
    /\ taken \subseteq Pages
    /\ free \in [Tables -> Nat]
    /\ strayed \subseteq Offsets
    /\ pc \in {"idle", "sweep", "table", "run", "mark", "hang", "outOfBounds"}
    /\ count \in Nat /\ collected \in 0 .. count /\ marked \in 0 .. count
    /\ pde \in 0 .. NUM_OF_PDE /\ i \in 0 .. NUM_OF_PTE /\ crosses \in 0 .. pde
    /\ pde_start \in Tables /\ pte_start \in Offsets

\* What a call under way has established.
Called ==
    /\ pc # "idle" => strayed = {} /\ count > 0
    /\ pc = "run" => pde \in Tables
    /\ pc \in {"idle", "sweep", "table", "run"} => marked = 0

\* Callers hold addresses of pages.
Addresses ==
    \A a \in live : /\ a.count \in Nat \ {0}
                    /\ \E d \in Tables, t \in Offsets : a.addr = virtual_addr(d, t)

Held == UNION {PagesOf(a) : a \in live}

Marks == PagesFrom(pde_start, pte_start, marked)

\* The pages taken are those of the callers and those marked so far.
Accounted ==
    strayed = {} =>
        /\ \A a, b \in live : a # b => PagesOf(a) \cap PagesOf(b) = {}
        /\ taken = Held \cup Marks
        /\ Held \cap Marks = {}

IInv == Typed /\ Called /\ Addresses /\ Accounted /\ FreeCountExact /\ OnlyHighPagesStray

-----------------------------------------------------------------------------
(* Arithmetic.                                                             *)

\* A number is quotient times divisor plus remainder.
LEMMA DivMod ==
    ASSUME NEW x \in Nat, NEW b \in Nat \ {0}
    PROVE  /\ x = b * (x \div b) + (x % b)
           /\ x \div b \in Nat /\ x % b \in 0 .. (b - 1)
  OBVIOUS

\* Nothing else satisfies it.
LEMMA DivModUnique ==
    ASSUME NEW b \in Nat \ {0}, NEW q \in Int, NEW p \in Int,
           NEW r \in 0 .. (b - 1), NEW s \in 0 .. (b - 1), b * q + r = b * p + s
    PROVE  q = p /\ r = s
  OBVIOUS

\* Quotient and remainder, recognised.
LEMMA DivModIs ==
    ASSUME NEW x \in Nat, NEW b \in Nat \ {0}, NEW q \in Nat, NEW r \in 0 .. (b - 1),
           x = b * q + r
    PROVE  x \div b = q /\ x % b = r
  <1>1. x = b * (x \div b) + (x % b) /\ x \div b \in Nat /\ x % b \in 0 .. (b - 1)
    BY DivMod
  <1>2. PICK p \in Int : p = x \div b
    BY <1>1
  <1>3. PICK s \in 0 .. (b - 1) : s = x % b
    BY <1>1
  <1>4. b * q + r = b * p + s /\ q \in Int
    BY <1>1, <1>2, <1>3
  <1>5. q = p /\ r = s
    BY ONLY <1>4, DivModUnique
  <1> QED BY <1>2, <1>3, <1>5

\* Whole tables before a page only count in the quotient.
LEMMA DivShift ==
    ASSUME NEW b \in Nat \ {0}, NEW d \in Nat, NEW x \in Nat
    PROVE  (d * b + x) \div b = d + (x \div b)
  <1>1. x = b * (x \div b) + (x % b) /\ x \div b \in Nat /\ x % b \in 0 .. (b - 1)
    BY DivMod
  <1>2. PICK q \in Nat : q = x \div b
    BY <1>1
  <1>3. PICK r \in 0 .. (b - 1) : r = x % b
    BY <1>1
  <1>4. PICK y \in Nat : y = d * b + x
    OBVIOUS
  <1>5. PICK k \in Nat : k = d + q
    OBVIOUS
  <1>6. y = b * k + r
    BY <1>1, <1>2, <1>3, <1>4, <1>5
  <1>7. y \div b = k
    BY ONLY <1>6, DivModIs
  <1> QED BY <1>2, <1>4, <1>5, <1>7

\* The constants, unpacked.
LEMMA ConstantFacts ==
    /\ NUM_OF_PDE \in Nat \ {0} /\ NUM_OF_PTE \in Nat \ {0} /\ PAGE_SIZE \in Nat \ {0}
    /\ NUM_OF_PTE * PAGE_SIZE \in Nat \ {0}
    /\ Tables \subseteq Nat /\ Offsets \subseteq Nat
    /\ 0 \in Tables /\ 0 \in Offsets
    /\ Pages = Tables \X Offsets
  BY PagingAssumption DEF Tables, Offsets, Pages

-----------------------------------------------------------------------------
(* Addresses and pages.                                                    *)

\* The address of a page leads back to its table, and to its place in the table
\* as far as 16 bits reach.
LEMMA AddressFacts ==
    ASSUME NEW d \in Tables, NEW t \in Offsets,
           NEW x, x = virtual_addr(d, t)
    PROVE  /\ x \div PAGE_SIZE = d * NUM_OF_PTE + t
           /\ (x \div PAGE_SIZE) \div NUM_OF_PTE = d
           /\ (x \div PAGE_SIZE) % NUM_OF_PTE = t
           /\ calc_pd_offset(x) = d
           /\ calc_pt_offset(x) \in Nat
           /\ t * PAGE_SIZE < 65536 => calc_pt_offset(x) = t
  <1>1. PICK s \in Nat \ {0} : s = PAGE_SIZE
    BY ConstantFacts
  <1>2. PICK p \in Nat \ {0} : p = NUM_OF_PTE
    BY ConstantFacts
  <1>3. PICK b \in Nat \ {0} : b = p * s
    BY <1>1, <1>2
  <1>4. PICK f \in Nat : f = d * p + t
    BY ConstantFacts
  <1>5. PICK r \in Nat : r = s * t
    BY ConstantFacts
  <1>6. d \in Nat /\ t \in Nat /\ t \in 0 .. (p - 1)
    BY ConstantFacts, <1>2 DEF Offsets
  <1>7. r \in 0 .. (b - 1)
    <2>1. PICK k \in Nat : p = t + 1 + k
      <3>1. p - t - 1 \in Nat /\ p = t + 1 + (p - t - 1)
        BY <1>6
      <3> QED BY <3>1
    <2>2. b = r + s + k * s /\ k * s \in Nat
      BY <2>1, <1>3, <1>5, <1>6
    <2> QED BY <2>2
  <1>8. x = b * d + r /\ x \in Nat
    BY <1>1, <1>2, <1>3, <1>5, <1>6 DEF virtual_addr
  <1>9. x = s * f + 0 /\ 0 \in 0 .. (s - 1)
    BY <1>8, <1>3, <1>4, <1>5, <1>6
  <1>10. x \div s = f
    BY ONLY <1>8, <1>9, DivModIs
  <1>11. f = p * d + t
    BY <1>4, <1>6
  <1>12. f \div p = d /\ f % p = t
    BY ONLY <1>6, <1>11, DivModIs
  <1>13. x \div b = d /\ x % b = r
    BY ONLY <1>6, <1>7, <1>8, DivModIs
  <1>14. PICK y : y = r % 65536
    OBVIOUS
  <1>15. y \in Nat /\ (r < 65536 => y = r)
    BY <1>14
  <1>16. y \div s \in Nat
    BY ONLY <1>15, DivMod
  <1>17. r \div s = t
    <2>1. r = s * t + 0 /\ 0 \in 0 .. (s - 1)
      BY <1>5, <1>6
    <2> QED BY ONLY <2>1, <1>6, DivModIs
  <1>18. calc_pd_offset(x) = d /\ calc_pt_offset(x) = y \div s
    BY <1>13, <1>14, <1>1, <1>2, <1>3 DEF calc_pd_offset, calc_pt_offset
  <1>19. t * PAGE_SIZE < 65536 => calc_pt_offset(x) = t
    BY <1>18, <1>15, <1>17, <1>1, <1>5, <1>6
  <1> QED BY <1>1, <1>2, <1>4, <1>10, <1>12, <1>16, <1>18, <1>19

\* The pages of an allocation are those from the page of its address on.
LEMMA PagesOfIs ==
    ASSUME NEW d \in Tables, NEW t \in Offsets,
           NEW a, a.addr = virtual_addr(d, t)
    PROVE  PagesOf(a) = PagesFrom(d, t, a.count)
  <1>1. PICK x : x = a.addr
    OBVIOUS
  <1>2. x = virtual_addr(d, t)
    BY <1>1
  <1>3. (x \div PAGE_SIZE) \div NUM_OF_PTE = d /\ (x \div PAGE_SIZE) % NUM_OF_PTE = t
    BY <1>2, AddressFacts
  <1> QED BY <1>1, <1>3 DEF PagesOf

\* No page at all.
LEMMA NoPages ==
    ASSUME NEW d, NEW t
    PROVE  PagesFrom(d, t, 0) = {}
  BY DEF PagesFrom

\* One page more: the one that the marking loop computes.
LEMMA OnePageMore ==
    ASSUME NEW d \in Nat, NEW t \in Nat, NEW n \in Nat
    PROVE  PagesFrom(d, t, n + 1) =
               PagesFrom(d, t, n) \cup {<<d + (t + n) \div NUM_OF_PTE, (t + n) % NUM_OF_PTE>>}
  <1> DEFINE At(k) == <<(d * NUM_OF_PTE + t + k) \div NUM_OF_PTE, (t + k) % NUM_OF_PTE>>
  <1>1. 0 .. ((n + 1) - 1) = (0 .. (n - 1)) \cup {n}
    OBVIOUS
  <1>2. PICK x \in Nat : x = t + n
    OBVIOUS
  <1>3. (d * NUM_OF_PTE + x) \div NUM_OF_PTE = d + (x \div NUM_OF_PTE)
    BY ConstantFacts, DivShift
  <1>4. d * NUM_OF_PTE + t + n = d * NUM_OF_PTE + x
    BY <1>2, ConstantFacts
  <1>5. At(n) = <<d + (t + n) \div NUM_OF_PTE, (t + n) % NUM_OF_PTE>>
    BY <1>2, <1>3, <1>4
  <1>6. PagesFrom(d, t, n + 1) = {At(k) : k \in 0 .. ((n + 1) - 1)}
        /\ PagesFrom(d, t, n) = {At(k) : k \in 0 .. (n - 1)}
    BY DEF PagesFrom
  <1> HIDE DEF At
  <1> QED BY <1>1, <1>5, <1>6

\* However many pages a caller asks for, they are finitely many.
LEMMA PagesFinite ==
    ASSUME NEW d, NEW t, NEW n \in Nat
    PROVE  IsFiniteSet(PagesFrom(d, t, n))
  <1> DEFINE At(k) == <<(d * NUM_OF_PTE + t + k) \div NUM_OF_PTE, (t + k) % NUM_OF_PTE>>
             S == 0 .. (n - 1)
             f == [k \in S |-> At(k)]
  <1>1. PagesFrom(d, t, n) = {At(k) : k \in S}
    BY DEF PagesFrom
  <1>2. IsFiniteSet(S)
    BY FS_Interval
  <1> HIDE DEF At, S
  <1>3. f \in Surjection(S, {At(k) : k \in S})
    BY DEF Surjection
  <1> HIDE DEF f
  <1>4. IsFiniteSet({At(k) : k \in S})
    BY <1>2, <1>3, FS_Surjection
  <1> QED BY <1>1, <1>4

-----------------------------------------------------------------------------
(* The pages of one table.                                                 *)

\* The taken pages of a table are at most all its pages, and one less while
\* another page of it is free.
LEMMA ColumnFacts ==
    ASSUME NEW T, T \subseteq Pages, NEW d \in Tables
    PROVE  LET col == {p \in T : p[1] = d}
           IN  /\ IsFiniteSet(col) /\ Cardinality(col) \in 0 .. NUM_OF_PTE
               /\ \A q \in Pages \ T : q[1] = d => Cardinality(col) + 1 <= NUM_OF_PTE
  <1> DEFINE col == {p \in T : p[1] = d}
             all == {d} \X Offsets
  <1>1. IsFiniteSet(Offsets) /\ Cardinality(Offsets) = NUM_OF_PTE
    BY ConstantFacts, FS_Interval DEF Offsets
  <1>2. IsFiniteSet({d}) /\ Cardinality({d}) = 1
    BY FS_Singleton
  <1>3. IsFiniteSet(all) /\ Cardinality(all) = 1 * NUM_OF_PTE
    BY <1>1, <1>2, FS_Product
  <1>4. col \subseteq all
    BY ConstantFacts
  <1>5. IsFiniteSet(col) /\ Cardinality(col) <= Cardinality(all) /\ Cardinality(col) \in Nat
    BY <1>3, <1>4, FS_Subset, FS_CardinalityType
  <1>6. ASSUME NEW q \in Pages \ T, q[1] = d
        PROVE  Cardinality(col) + 1 <= NUM_OF_PTE
    <2>1. q \in all /\ q \notin col
      BY <1>6, ConstantFacts
    <2> HIDE DEF col, all
    <2>2. Cardinality(col \cup {q}) = Cardinality(col) + 1
      BY <2>1, <1>5, FS_AddElement
    <2>3. col \cup {q} \in SUBSET all
      BY <2>1, <1>4
    <2>4. Cardinality(col \cup {q}) <= Cardinality(all)
      BY <2>3, <1>3, FS_Subset
    <2> QED BY <2>2, <2>4, <1>3, ConstantFacts
  <1> HIDE DEF col, all
  <1>7. Cardinality(col) \in 0 .. NUM_OF_PTE
    BY <1>3, <1>5, ConstantFacts
  <1> QED BY <1>5, <1>6, <1>7 DEF col

\* The run of free pages that begins at page i ends within the table, and not
\* behind the page at which there are enough.
LEMMA RunEndFacts ==
    ASSUME Typed, i < NUM_OF_PTE, collected # count
    PROVE  /\ RunEnd \in i .. NUM_OF_PTE
           /\ collected + (RunEnd - i) <= count
  <1> DEFINE S == {j \in i .. NUM_OF_PTE :
                      j = NUM_OF_PTE \/ collected + (j - i) = count \/ <<pde, j>> \in taken}
  <1>1. i \in Nat /\ NUM_OF_PTE \in Nat /\ count \in Nat /\ collected \in 0 .. count
    BY ConstantFacts DEF Typed
  <1>2. S \subseteq Nat /\ NUM_OF_PTE \in S
    BY <1>1
  <1>3. \E x \in S : \A y \in S : ~ (<<y, x>> \in OpToRel(<, Nat))
    BY <1>2, WFMin, NatLessThanWellFounded
  <1>4. \E x \in S : \A y \in S : x =< y
    <2> HIDE DEF S
    <2>1. PICK x \in S : \A y \in S : ~ (<<y, x>> \in OpToRel(<, Nat))
      BY <1>3
    <2>2. SUFFICES ASSUME NEW y \in S PROVE x =< y
      OBVIOUS
    <2>3. x \in Nat /\ y \in Nat
      BY <1>2
    <2>4. ~ (y < x)
      BY <2>1, <2>3, Zenon DEF OpToRel
    <2> QED BY <2>3, <2>4
  <1>5. RunEnd \in S /\ \A y \in S : RunEnd =< y
    BY <1>4 DEF RunEnd, Min
  <1>6. PICK e \in S : e = RunEnd /\ \A y \in S : e =< y
    BY <1>5
  <1>7. PICK m \in Int : m = i + (count - collected)
    BY <1>1
  <1>8. CASE m \in i .. NUM_OF_PTE
    <2>1. m \in S
      BY <1>1, <1>7, <1>8
    <2> QED BY <2>1, <1>6, <1>1, <1>7
  <1>9. CASE m \notin i .. NUM_OF_PTE
    BY <1>1, <1>6, <1>7, <1>9
  <1> QED BY <1>8, <1>9


-----------------------------------------------------------------------------
(* The invariant holds initially and is preserved by every action.         *)

\* Nothing is taken, nothing is held.
LEMMA InitIInv == Init => IInv
  <1> SUFFICES ASSUME Init PROVE IInv
    OBVIOUS
  <1> USE ConstantFacts DEF Init
  <1>1. Typed
    BY DEF Typed
  <1>2. Called /\ Addresses /\ OnlyHighPagesStray
    BY DEF Called, Addresses, OnlyHighPagesStray
  <1>3. Accounted
    <2>1. Held = {} /\ Marks = {}
      BY NoPages DEF Held, Marks
    <2> QED BY <2>1 DEF Accounted
  <1>4. FreeCountExact
    <2>1. ASSUME NEW d \in Tables
          PROVE  free[d] = NUM_OF_PTE - Cardinality({p \in taken : p[1] = d})
      <3>1. {p \in taken : p[1] = d} = {}
        OBVIOUS
      <3> QED BY <3>1, FS_EmptySet
    <2> QED BY <2>1 DEF FreeCountExact
  <1> QED BY <1>1, <1>2, <1>3, <1>4 DEF IInv

\* A step that changes only the locals of alloc_pages(), before anything is
\* marked or while the same pages are, keeps what is said of the tables.
LEMMA LocalStep ==
    ASSUME IInv, UNCHANGED <<taken, free, live, strayed>>,
           \/ UNCHANGED <<pde_start, pte_start, marked>>
           \/ marked = 0 /\ marked' = 0
    PROVE  Addresses' /\ Accounted' /\ FreeCountExact' /\ OnlyHighPagesStray'
  <1>1. Held' = Held
    BY DEF Held
  <1>2. Marks' = Marks
    <2>1. CASE UNCHANGED <<pde_start, pte_start, marked>>
      BY <2>1 DEF Marks
    <2>2. CASE marked = 0 /\ marked' = 0
      <3>1. PagesFrom(pde_start', pte_start', 0) = {} /\ PagesFrom(pde_start, pte_start, 0) = {}
        BY NoPages
      <3> QED BY <2>2, <3>1 DEF Marks
    <2> QED BY <2>1, <2>2
  <1>3. Accounted'
    BY <1>1, <1>2 DEF IInv, Accounted
  <1>4. FreeCountExact' /\ OnlyHighPagesStray'
    BY DEF IInv, FreeCountExact, OnlyHighPagesStray
  <1>5. Addresses'
    BY DEF IInv, Addresses
  <1> QED BY <1>3, <1>4, <1>5

\* alloc_pages() is called.
LEMMA CallStep ==
    ASSUME IInv, NEW n \in Counts, Call(n)
    PROVE  IInv'
  <1> USE DEF Call
  <1>1. n \in Nat \ {0}
    BY PagingAssumption
  <1>2. marked = 0
    BY DEF IInv, Called
  <1>3. Addresses' /\ Accounted' /\ FreeCountExact' /\ OnlyHighPagesStray'
    BY <1>2, LocalStep
  <1>4. Typed'
    BY <1>1 DEF IInv, Typed
  <1>5. Called'
    BY <1>1 DEF IInv, Called
  <1> QED BY <1>3, <1>4, <1>5 DEF IInv

\* Another search through all tables.
LEMMA SweepStep ==
    ASSUME IInv, Sweep
    PROVE  IInv'
  <1> USE DEF Sweep
  <1>1. Addresses' /\ Accounted' /\ FreeCountExact' /\ OnlyHighPagesStray'
    BY LocalStep
  <1>2. Typed'
    BY ConstantFacts DEF IInv, Typed
  <1>3. Called'
    BY DEF IInv, Called
  <1> QED BY <1>1, <1>2, <1>3 DEF IInv

\* The head of the loop over the tables.
LEMMA EnterTableStep ==
    ASSUME IInv, EnterTable
    PROVE  IInv'
  <1> USE DEF EnterTable
  <1>1. Addresses' /\ Accounted' /\ FreeCountExact' /\ OnlyHighPagesStray'
    BY LocalStep
  <1>2. Typed'
    <2>1. /\ pde' \in 0 .. NUM_OF_PDE /\ pde' >= pde /\ i' \in 0 .. NUM_OF_PTE
          /\ pc' \in {"sweep", "table", "run"}
      BY ConstantFacts DEF IInv, Typed, Tables
    <2>2. crosses' \in 0 .. pde'
      BY <2>1 DEF IInv, Typed
    <2> QED BY <2>1, <2>2 DEF IInv, Typed
  <1>3. Called'
    BY DEF IInv, Called
  <1> QED BY <1>1, <1>2, <1>3 DEF IInv

\* A run of pages, broken or complete.
LEMMA RunStep ==
    ASSUME IInv, Run
    PROVE  IInv'
  <1>1. marked = 0 /\ marked' = 0 /\ UNCHANGED <<taken, free, live, strayed>>
    BY DEF IInv, Called, Run
  <1>2. Addresses' /\ Accounted' /\ FreeCountExact' /\ OnlyHighPagesStray'
    BY <1>1, LocalStep
  <1>3. PICK e : e = RunEnd
    OBVIOUS
  <1>4. e \in i .. NUM_OF_PTE /\ collected + (e - i) <= count
    BY <1>3, RunEndFacts DEF IInv, Run
  <1>5. Typed'
    <2>1. i < NUM_OF_PTE /\ (pte_start' = IF crosses = 0 THEN i ELSE pte_start)
          /\ UNCHANGED <<taken, free, live, pc, count, pde, pde_start, marked, strayed>>
      BY DEF Run
    <2>2. pte_start' \in Offsets
      BY <2>1, ConstantFacts DEF IInv, Typed, Offsets
    <2>3. i' \in 0 .. NUM_OF_PTE /\ collected' \in 0 .. count /\ crosses' \in 0 .. pde
      <3>1. CASE RunBroken
        BY <3>1, <1>3, <1>4, ConstantFacts DEF RunBroken, IInv, Typed
      <3>2. CASE RunComplete
        BY <3>2, <1>3, <1>4, ConstantFacts DEF RunComplete, IInv, Typed
      <3> QED BY <3>1, <3>2 DEF Run
    <2> QED BY <2>1, <2>2, <2>3 DEF IInv, Typed
  <1>6. Called'
    BY DEF IInv, Called, Run
  <1> QED BY <1>2, <1>5, <1>6 DEF IInv

\* Enough pages, or the next table.  A run crosses at most as many borders as
\* tables were passed, so that it begins in a table.
LEMMA LeaveTableStep ==
    ASSUME IInv, LeaveTable
    PROVE  IInv'
  <1>1. marked = 0 /\ marked' = 0 /\ UNCHANGED <<taken, free, live, strayed>>
    BY DEF IInv, Called, LeaveTable
  <1>2. Addresses' /\ Accounted' /\ FreeCountExact' /\ OnlyHighPagesStray'
    BY <1>1, LocalStep
  <1>3. pde \in Tables
    BY DEF IInv, Called, LeaveTable
  <1>4. Typed'
    <2>1. UNCHANGED <<taken, free, live, count, collected, i, keepGoing, pte_start, marked,
                      strayed>>
      BY DEF LeaveTable
    <2>2. pc' \in {"mark", "table"}
      BY DEF LeaveTable
    <2>3. pde' \in 0 .. NUM_OF_PDE /\ crosses' \in 0 .. pde' /\ pde_start' \in Tables
      <3>1. CASE collected = count
        BY <3>1, <1>3, ConstantFacts DEF IInv, Typed, Tables, LeaveTable, FirstTable
      <3>2. CASE collected # count
        BY <3>2, <1>3, ConstantFacts DEF IInv, Typed, Tables, LeaveTable
      <3> QED BY <3>1, <3>2
    <2> QED BY <2>1, <2>2, <2>3 DEF IInv, Typed
  <1>5. Called'
    BY DEF IInv, Called, LeaveTable
  <1> QED BY <1>2, <1>4, <1>5 DEF IInv


\* One turn of the marking loop: a page of nobody is taken and the counter of
\* its own table decreased, or the kernel stops.
LEMMA MarkStep ==
    ASSUME IInv, Mark
    PROVE  IInv'
  <1>1. CASE UNCHANGED <<taken, free, marked>>
    <2>1. Addresses' /\ Accounted' /\ FreeCountExact' /\ OnlyHighPagesStray'
      BY <1>1, LocalStep DEF Mark
    <2>2. pc' \in {"mark", "hang", "outOfBounds"}
      BY DEF Mark
    <2>3. Typed'
      BY <1>1, <2>2 DEF Mark, IInv, Typed
    <2>4. Called'
      BY <2>2 DEF Mark, IInv, Called
    <2> QED BY <2>1, <2>3, <2>4 DEF IInv
  <1>2. CASE ~ UNCHANGED <<taken, free, marked>>
    <2>1. PICK m : m = Marking
      OBVIOUS
    <2>2. /\ pc = "mark" /\ marked < count /\ m \in Pages \ taken
          /\ taken' = taken \cup {m}
          /\ free' = [free EXCEPT ![m[1]] = @ - 1]
          /\ marked' = marked + 1
          /\ UNCHANGED <<pc, live, count, collected, crosses, pde, i, keepGoing, pde_start,
                         pte_start, strayed>>
      BY <1>2, <2>1 DEF Mark, MarkedTable
    <2>3. strayed = {} /\ count > 0
      BY <2>2 DEF IInv, Called
    <2>4. /\ taken \subseteq Pages /\ free \in [Tables -> Nat]
          /\ pde_start \in Nat /\ pte_start \in Nat /\ marked \in Nat /\ count \in Nat
      BY ConstantFacts DEF IInv, Typed
    <2>5. m[1] \in Tables
      BY <2>2, ConstantFacts
    <2>6. free[m[1]] - 1 \in Nat
      <3>1. PICK c : c = Cardinality({p \in taken : p[1] = m[1]})
        OBVIOUS
      <3>2. c \in 0 .. NUM_OF_PTE /\ c + 1 <= NUM_OF_PTE
        BY <3>1, <2>2, <2>4, <2>5, ColumnFacts
      <3>3. free[m[1]] = NUM_OF_PTE - c
        BY <3>1, <2>3, <2>5 DEF IInv, FreeCountExact
      <3> QED BY <3>2, <3>3, ConstantFacts
    <2>7. Typed'
      <3>1. free' \in [Tables -> Nat] /\ taken' \subseteq Pages
        BY <2>2, <2>4, <2>5, <2>6
      <3>2. marked' \in 0 .. count
        BY <2>2, <2>4
      <3> QED BY <2>2, <3>1, <3>2 DEF IInv, Typed
    <2>8. Called' /\ Addresses' /\ OnlyHighPagesStray'
      BY <2>2 DEF IInv, Called, Addresses, OnlyHighPagesStray
    <2>9. Accounted'
      <3>1. Held' = Held
        BY <2>2 DEF Held
      <3>2. Marks' = Marks \cup {m}
        <4>1. PagesFrom(pde_start, pte_start, marked + 1) =
                  PagesFrom(pde_start, pte_start, marked) \cup
                      {<<pde_start + (pte_start + marked) \div NUM_OF_PTE,
                         (pte_start + marked) % NUM_OF_PTE>>}
          BY <2>4, OnePageMore
        <4> QED BY <4>1, <2>1, <2>2 DEF Marks, Marking
      <3>3. taken = Held \cup Marks /\ Held \cap Marks = {}
            /\ \A a, b \in live : a # b => PagesOf(a) \cap PagesOf(b) = {}
        BY <2>3 DEF IInv, Accounted
      <3>4. taken' = Held' \cup Marks' /\ Held' \cap Marks' = {}
        BY <3>1, <3>2, <3>3, <2>2
      <3> QED BY <3>3, <3>4, <2>2 DEF Accounted
    <2>10. FreeCountExact'
      <3>1. SUFFICES ASSUME NEW d \in Tables
                     PROVE  free'[d] = NUM_OF_PTE - Cardinality({p \in taken' : p[1] = d})
        BY DEF FreeCountExact
      <3>2. PICK col : col = {p \in taken : p[1] = d}
        OBVIOUS
      <3>3. IsFiniteSet(col) /\ Cardinality(col) \in Nat
        BY <3>2, <2>4, ColumnFacts
      <3>4. free[d] = NUM_OF_PTE - Cardinality(col)
        BY <3>2, <2>3 DEF IInv, FreeCountExact
      <3>5. CASE d = m[1]
        <4>1. {p \in taken' : p[1] = d} = col \cup {m} /\ m \notin col
          BY <3>2, <3>5, <2>2
        <4>2. Cardinality(col \cup {m}) = Cardinality(col) + 1
          BY <4>1, <3>3, FS_AddElement
        <4>3. free'[d] = free[d] - 1
          BY <2>2, <2>4, <3>5
        <4>4. PICK n \in Nat : n = Cardinality(col)
          BY <3>3
        <4>5. Cardinality({p \in taken' : p[1] = d}) = n + 1
          BY <4>1, <4>2, <4>4
        <4>6. free[d] = NUM_OF_PTE - n
          BY <4>4, <3>4
        <4>7. free'[d] = NUM_OF_PTE - (n + 1)
          BY <4>3, <4>6, ConstantFacts
        <4> QED BY <4>5, <4>7
      <3>6. CASE d # m[1]
        <4>1. {p \in taken' : p[1] = d} = col
          BY <3>2, <3>6, <2>2
        <4>2. free'[d] = free[d]
          BY <2>2, <2>4, <3>6
        <4> QED BY <4>1, <4>2, <3>4
      <3> QED BY <3>5, <3>6
    <2> QED BY <2>7, <2>8, <2>9, <2>10 DEF IInv
  <1> QED BY <1>1, <1>2

\* What was marked goes to the caller.
LEMMA ReturnStep ==
    ASSUME IInv, Return
    PROVE  IInv'
  <1>1. PICK a : a = [addr |-> virtual_addr(pde_start, pte_start), count |-> count]
    OBVIOUS
  <1>2. /\ pc = "mark" /\ marked = count /\ live' = live \cup {a} /\ pc' = "idle"
        /\ count' = 0 /\ collected' = 0 /\ crosses' = 0 /\ pde' = 0 /\ i' = 0
        /\ pde_start' = 0 /\ pte_start' = 0 /\ marked' = 0
        /\ UNCHANGED <<taken, free, strayed>>
    BY <1>1 DEF Return
  <1>3. strayed = {} /\ count \in Nat \ {0} /\ pde_start \in Tables /\ pte_start \in Offsets
    BY <1>2 DEF IInv, Called, Typed
  <1>4. a.addr = virtual_addr(pde_start, pte_start) /\ a.count = count
    BY <1>1
  <1>5. PagesOf(a) = Marks
    BY <1>2, <1>3, <1>4, PagesOfIs DEF Marks
  <1>6. Typed'
    BY <1>2, ConstantFacts DEF IInv, Typed
  <1>7. Called' /\ OnlyHighPagesStray' /\ FreeCountExact'
    BY <1>2 DEF IInv, Called, OnlyHighPagesStray, FreeCountExact
  <1>8. Addresses'
    BY <1>2, <1>3, <1>4 DEF IInv, Addresses
  <1>9. Accounted'
    <2>1. taken = Held \cup Marks /\ Held \cap Marks = {}
          /\ \A b, c \in live : b # c => PagesOf(b) \cap PagesOf(c) = {}
      BY <1>3 DEF IInv, Accounted
    <2>2. Marks' = {}
      BY <1>2, NoPages DEF Marks
    <2>3. Held' = Held \cup PagesOf(a)
      BY <1>2 DEF Held
    <2>4. \A b \in live : PagesOf(b) \cap PagesOf(a) = {}
      BY <2>1, <1>5 DEF Held
    <2>5. \A b, c \in live' : b # c => PagesOf(b) \cap PagesOf(c) = {}
      BY <2>1, <2>4, <1>2
    <2>6. taken' = Held' \cup Marks' /\ Held' \cap Marks' = {}
      BY <2>1, <2>2, <2>3, <1>5, <1>2
    <2> QED BY <2>5, <2>6 DEF Accounted
  <1> QED BY <1>6, <1>7, <1>8, <1>9 DEF IInv


\* free_pages() finds the pages of the caller, or strays from an address that
\* 16 bits do not hold.
LEMMA FreePagesStep ==
    ASSUME IInv, NEW a \in live, FreePages(a)
    PROVE  IInv'
  <1>1. PICK d \in Tables, t \in Offsets : a.addr = virtual_addr(d, t)
    BY DEF IInv, Addresses
  <1>2. a.count \in Nat \ {0}
    BY DEF IInv, Addresses
  <1>3. PICK x : x = a.addr
    OBVIOUS
  <1>4. /\ (x \div PAGE_SIZE) % NUM_OF_PTE = t
        /\ calc_pd_offset(x) = d
        /\ calc_pt_offset(x) \in Nat
        /\ t * PAGE_SIZE < 65536 => calc_pt_offset(x) = t
    BY <1>1, <1>3, AddressFacts
  <1>5. PICK u \in Nat : u = calc_pt_offset(x)
    BY <1>4
  <1>6. PICK pages : pages = PagesFrom(d, u, a.count)
    OBVIOUS
  <1>7. IsFiniteSet(pages)
    BY <1>2, <1>6, PagesFinite
  <1>8. /\ pc = "idle" /\ strayed = {}
        /\ taken' = taken \ pages
        /\ free' = [e \in Tables |-> free[e] + FreedIn(pages, e)]
        /\ live' = live \ {a}
        /\ strayed' = IF pages = PagesOf(a) THEN {} ELSE {t}
        /\ UNCHANGED <<pc, count, collected, crosses, pde, i, keepGoing, pde_start,
                       pte_start, marked>>
    <2>1. pages = PagesFrom(calc_pd_offset(a.addr), calc_pt_offset(a.addr), a.count)
          /\ (a.addr \div PAGE_SIZE) % NUM_OF_PTE = t
      BY <1>3, <1>4, <1>5, <1>6
    <2> QED BY <2>1, Zenon DEF FreePages
  <1>9. \A e \in Tables : FreedIn(pages, e) \in Nat
    <2>1. SUFFICES ASSUME NEW e \in Tables PROVE FreedIn(pages, e) \in Nat
      OBVIOUS
    <2>2. {p \in pages : p[1] = e} \in SUBSET pages
      OBVIOUS
    <2>3. IsFiniteSet({p \in pages : p[1] = e})
      BY <2>2, <1>7, FS_Subset
    <2> QED BY <2>3, FS_CardinalityType DEF FreedIn
  <1>10. Typed'
    <2>1. free' \in [Tables -> Nat] /\ taken' \subseteq Pages /\ strayed' \subseteq Offsets
      BY <1>8, <1>9 DEF IInv, Typed
    <2> QED BY <2>1, <1>8 DEF IInv, Typed
  <1>11. Called' /\ Addresses'
    BY <1>8 DEF IInv, Called, Addresses
  <1>12. marked = 0
    BY <1>8 DEF IInv, Called
  <1>13. CASE pages = PagesOf(a)
    <2>1. strayed' = {}
      BY <1>8, <1>13
    <2>2. Held \cap Marks = {} /\ taken = Held /\ Marks' = {}
          /\ \A b, c \in live : b # c => PagesOf(b) \cap PagesOf(c) = {}
      <3>1. Marks = {} /\ Marks' = {}
        BY <1>8, <1>12, NoPages DEF Marks
      <3> QED BY <3>1, <1>8 DEF IInv, Accounted
    <2>3. Held' = Held \ pages
      <3>1. Held' = UNION {PagesOf(b) : b \in live \ {a}}
        BY <1>8 DEF Held
      <3>2. \A b \in live \ {a} : PagesOf(b) \cap pages = {}
        BY <2>2, <1>13
      <3> QED BY <3>1, <3>2, <1>13 DEF Held
    <2>4. Accounted'
      BY <2>2, <2>3, <1>8 DEF Accounted
    <2>5. pages \subseteq taken /\ taken \subseteq Pages
      BY <2>2, <1>13 DEF Held, IInv, Typed
    <2>6. FreeCountExact'
      <3>1. SUFFICES ASSUME NEW e \in Tables
                     PROVE  free'[e] = NUM_OF_PTE - Cardinality({p \in taken' : p[1] = e})
        BY DEF FreeCountExact
      <3>2. PICK col : col = {p \in taken : p[1] = e}
        OBVIOUS
      <3>3. PICK back : back = {p \in pages : p[1] = e}
        OBVIOUS
      <3>4. IsFiniteSet(col)
        BY <3>2, <2>5, ColumnFacts
      <3>5. col \cap back = back /\ back \in SUBSET col
            /\ {p \in taken' : p[1] = e} = col \ back
        BY <3>2, <3>3, <2>5, <1>8
      <3>6. Cardinality(col \ back) = Cardinality(col) - Cardinality(col \cap back)
        BY <3>4, FS_Difference
      <3>7. IsFiniteSet(back)
        BY <3>4, <3>5, FS_Subset
      <3>8. PICK n \in Nat : n = Cardinality(col)
        BY <3>4, FS_CardinalityType
      <3>9. PICK m \in Nat : m = Cardinality(back)
        BY <3>7, FS_CardinalityType
      <3>10. Cardinality({p \in taken' : p[1] = e}) = n - m
        BY <3>5, <3>6, <3>8, <3>9
      <3>11. free[e] = NUM_OF_PTE - n
        BY <3>2, <3>8, <1>8 DEF IInv, FreeCountExact
      <3>12. free'[e] = free[e] + m
        BY <1>8, <3>3, <3>9 DEF FreedIn
      <3>13. free'[e] = NUM_OF_PTE - (n - m)
        BY <3>11, <3>12, ConstantFacts
      <3> QED BY <3>10, <3>13
    <2>7. OnlyHighPagesStray'
      BY <2>1 DEF OnlyHighPagesStray
    <2> QED BY <2>4, <2>6, <2>7, <1>10, <1>11 DEF IInv
  <1>14. CASE pages # PagesOf(a)
    <2>1. strayed' = {t}
      BY <1>8, <1>14
    <2>2. PagesOf(a) = PagesFrom(d, t, a.count)
      BY <1>1, PagesOfIs
    <2>3. ~ (t * PAGE_SIZE < 65536)
      BY <2>2, <1>4, <1>5, <1>6, <1>14
    <2>4. t * PAGE_SIZE >= 65536
      BY <2>3, ConstantFacts
    <2>5. OnlyHighPagesStray' /\ Accounted' /\ FreeCountExact'
      BY <2>1, <2>4 DEF OnlyHighPagesStray, Accounted, FreeCountExact
    <2> QED BY <2>5, <1>10, <1>11 DEF IInv
  <1> QED BY <1>13, <1>14

\* Every step.
LEMMA NextIInv == IInv /\ [Next]_vars => IInv'
  <1> SUFFICES ASSUME IInv, [Next]_vars PROVE IInv'
    OBVIOUS
  <1>1. CASE \E n \in Counts : Call(n)
    BY <1>1, CallStep
  <1>2. CASE Step
    BY <1>2, SweepStep, EnterTableStep, RunStep, LeaveTableStep, MarkStep, ReturnStep DEF Step
  <1>3. CASE \E a \in live : FreePages(a)
    BY <1>3, FreePagesStep
  <1>4. CASE UNCHANGED vars
    <2>1. Addresses' /\ Accounted' /\ FreeCountExact' /\ OnlyHighPagesStray'
      BY <1>4, LocalStep DEF vars
    <2>2. Typed' /\ Called'
      BY <1>4 DEF vars, IInv, Typed, Called
    <2> QED BY <2>1, <2>2 DEF IInv
  <1> QED BY <1>1, <1>2, <1>3, <1>4 DEF Next

-----------------------------------------------------------------------------
(* The theorems.                                                           *)

\* The inductive invariant of the page allocator.
THEOREM Invariant == Spec => []IInv
  BY InitIInv, NextIInv, PTL DEF Spec

\* Until free_pages() strays, the tables are well-formed and num_of_free_pages of
\* every table agrees with its flags, after every single page that is marked and
\* every call that frees some, whatever the search added up.
THEOREM CountersAgree == Spec => []TablesConsistent
  <1>1. IInv => TablesConsistent
    BY ConstantFacts DEF IInv, Typed, TablesConsistent, TypeOK, Offsets
  <1> QED BY <1>1, Invariant, PTL

\* Until free_pages() strays, no two callers share a page and between calls
\* exactly their pages are taken.
THEOREM PagesHaveOneOwner == Spec => []OwnersAreDisjoint
  <1>1. IInv => OwnersAreDisjoint
    <2> SUFFICES ASSUME IInv, strayed = {}
                 PROVE  /\ \A a, b \in live : a # b => PagesOf(a) \cap PagesOf(b) = {}
                        /\ pc = "idle" => taken = UNION {PagesOf(a) : a \in live}
      BY DEF OwnersAreDisjoint
    <2>1. \A a, b \in live : a # b => PagesOf(a) \cap PagesOf(b) = {}
      BY DEF IInv, Accounted
    <2>2. ASSUME pc = "idle" PROVE taken = UNION {PagesOf(a) : a \in live}
      <3>1. marked = 0
        BY <2>2 DEF IInv, Called
      <3>2. Marks = {}
        BY <3>1, NoPages DEF Marks
      <3> QED BY <3>2 DEF IInv, Accounted, Held
    <2> QED BY <2>1, <2>2
  <1> QED BY <1>1, Invariant, PTL

\* free_pages() strays only from an address 64 KiB or more behind the begin of
\* its table, for every size of pages and tables.
THEOREM CastIsTheOnlyFault == Spec => []OnlyHighPagesStray
  <1>1. IInv => OnlyHighPagesStray
    BY DEF IInv
  <1> QED BY <1>1, Invariant, PTL

=============================================================================
