---------------------------- MODULE OutputProofs ----------------------------
(***************************************************************************)
(* Proofs about the two ways out of the kernel.  Terminal, on a screen of  *)
(* any size, for any threads, text and keys: it stays within its buffer,   *)
(* the cursor follows, and the screen shows the end of the text.  Kprintf  *)
(* over SerialPort, for any threads and any calls they repeat: the port    *)
(* sends every byte it is given, a call of supported conversions prints    *)
(* what its tokens mean, and only the calls of MayOverrun leave the buffer. *)
(***************************************************************************)
EXTENDS Terminal, Kprintf, FiniteSetTheorems, SequenceTheorems, WellFoundedInduction, TLAPS

-----------------------------------------------------------------------------
(* The inductive invariant.                                                *)

Typed == TypeOK /\ stray \in BOOLEAN /\ torn \in BOOLEAN /\ stale \in BOOLEAN

\* Where row and column are for a thread at place p of terminal_putchar() that has
\* loaded r.
At(p, r) ==
    /\ column < VGA_WIDTH \/ (p = "wrap" /\ column = VGA_WIDTH)
    /\ p \in {"put", "newline", "newline_store", "next_column", "store_column", "wrap"}
          => row < VGA_HEIGHT
    /\ p = "newline_store" => r = row + 1
    /\ p = "newline_back" => row = VGA_HEIGHT
    /\ p = "store_column" => r = column + 1

\* What holds as long as no terminal_putchar() began within another one.
InPlace ==
    /\ ~ stray
    /\ row <= VGA_HEIGHT
    /\ \A t, u \in Writers : pc[t] \in Inside /\ pc[u] \in Inside => t = u
    /\ Settled => column < VGA_WIDTH
    /\ \A t \in Writers : pc[t] \in Inside => At(pc[t], reg[t])

\* How far move_cursor() is at place p, with r loaded.
CursorAt(p, r) ==
    /\ p = "add_column" => r = Index(0, row)
    /\ p = "add_row" => r = column
    /\ p \in {"high", "high_data", "low", "low_data"} => r = Index(column, row)
    /\ p = "high_data" => command = HIGH
    /\ p \in {"low", "low_data"} => crtc[HIGH] = (r \div BYTE) % BYTE
    /\ p = "low_data" => command = LOW

\* Nobody is on the way to a move_cursor().
NoneWrites == \A t \in Writers : pc[t] \in Moving \cup {"idle"}

\* One move at a time, which knows the place of the last character if nobody
\* writes a further one.
CursorMoves ==
    ~ stale =>
        /\ \A t, u \in Writers : pc[t] \in Moving /\ pc[u] \in Moving => t = u
        /\ NoneWrites => \A t \in Writers : pc[t] \in Moving => CursorAt(pc[t], reg[t])

IInv ==
    /\ Typed
    /\ torn \/ InPlace
    /\ CursorMoves
    /\ CursorFollows

-----------------------------------------------------------------------------
(* Arithmetic of the buffer and of the cursor registers.                   *)

\* Quotient and remainder, which TLA+ defines by what they satisfy.
LEMMA DivMod ==
    ASSUME NEW x \in Nat, NEW b \in Nat \ {0}
    PROVE  /\ x = b * (x \div b) + (x % b)
           /\ x \div b \in Nat /\ x % b \in 0 .. (b - 1)
  OBVIOUS

\* The same for any integer, as a witness.
LEMMA DivModInt ==
    ASSUME NEW x \in Int, NEW b \in Nat \ {0}
    PROVE  \E q \in Int, r \in 0 .. (b - 1) : x = b * q + r /\ r = x % b
  <1>1. x = b * (x \div b) + (x % b) /\ x \div b \in Int /\ x % b \in 0 .. (b - 1)
    OBVIOUS
  <1> QED BY <1>1

\* Nothing else satisfies it.
LEMMA DivModUnique ==
    ASSUME NEW b \in Nat \ {0}, NEW q \in Int, NEW p \in Int,
           NEW r \in 0 .. (b - 1), NEW s \in 0 .. (b - 1), b * q + r = b * p + s
    PROVE  r = s
  OBVIOUS

\* A remainder may be taken before something is added.
LEMMA ModAdd ==
    ASSUME NEW m \in Int, NEW k \in Int, NEW b \in Nat \ {0}
    PROVE  ((m % b) + k) % b = (m + k) % b
  <1>1. PICK q \in Int, r \in 0 .. (b - 1) : m = b * q + r /\ r = m % b
    BY DivModInt
  <1>2. PICK p \in Int, s \in 0 .. (b - 1) : r + k = b * p + s /\ s = (r + k) % b
    <2>1. r + k \in Int
      OBVIOUS
    <2> QED BY <2>1, DivModInt
  <1>3. PICK l \in Int, v \in 0 .. (b - 1) : m + k = b * l + v /\ v = (m + k) % b
    <2>1. m + k \in Int
      OBVIOUS
    <2> QED BY <2>1, DivModInt
  <1>4. PICK e \in Int : e = q + p
    OBVIOUS
  <1>5. b * e = b * q + b * p
    BY <1>4
  <1>6. b * e + s = b * l + v
    <2>1. PICK f \in Int, g \in Int, h \in Int, i \in Int :
            f = b * q /\ g = b * p /\ h = b * l /\ i = b * e
      OBVIOUS
    <2>2. m = f + r /\ r + k = g + s /\ m + k = h + v /\ i = f + g
      BY <2>1, <1>1, <1>2, <1>3, <1>5
    <2> QED BY <2>1, <2>2
  <1>7. s = v
    BY ONLY <1>6, DivModUnique, b \in Nat \ {0}, e \in Int, l \in Int, s \in 0 .. (b - 1),
            v \in 0 .. (b - 1)
  <1> QED BY <1>1, <1>2, <1>3, <1>7

\* A size_t holds every row, column and cell of the screen.
LEMMA Sizes ==
    /\ VGA_WIDTH \in Nat \ {0} /\ VGA_HEIGHT \in Nat \ {0, 1} /\ WORD \in Nat \ {0}
    /\ VGA_WIDTH < WORD /\ VGA_HEIGHT < WORD
    /\ VGA_WIDTH * VGA_HEIGHT \in Nat /\ VGA_WIDTH * VGA_HEIGHT + VGA_WIDTH < WORD
  <1>1. PICK w \in Nat \ {0}, h \in Nat \ {0, 1} : w = VGA_WIDTH /\ h = VGA_HEIGHT
    BY TerminalAssumption
  <1>2. PICK k \in Nat : w = k + 1
    <2>1. w - 1 \in Nat /\ w = (w - 1) + 1
      OBVIOUS
    <2> QED BY <2>1
  <1>3. w * h = k * h + h /\ k * h \in Nat
    BY <1>2
  <1>4. WORD \in Nat /\ WORD > w * h + w
    BY <1>1, TerminalAssumption
  <1> QED BY <1>1, <1>3, <1>4

\* A value that fits does not wrap.
LEMMA WordFacts ==
    ASSUME NEW n \in Int
    PROVE  Word(n) \in 0 .. (WORD - 1) /\ (n \in 0 .. (WORD - 1) => Word(n) = n)
  <1>1. PICK w \in Nat \ {0} : w = WORD
    BY Sizes
  <1>2. n % w \in 0 .. (w - 1)
    OBVIOUS
  <1>3. n \in 0 .. (w - 1) => n % w = n
    OBVIOUS
  <1> QED BY <1>1, <1>2, <1>3 DEF Word

\* The value behind one that fits.
LEMMA WordNext ==
    ASSUME NEW n \in Nat, n <= VGA_WIDTH \/ n <= VGA_HEIGHT
    PROVE  /\ n \in 0 .. (WORD - 1)
           /\ n < VGA_WIDTH \/ n < VGA_HEIGHT => Word(n + 1) = n + 1
           /\ n # 0 => Word(n - 1) = n - 1
  <1>1. n \in 0 .. (WORD - 1)
    BY Sizes
  <1>2. ASSUME n < VGA_WIDTH \/ n < VGA_HEIGHT PROVE Word(n + 1) = n + 1
    <2>1. n + 1 \in Int /\ n + 1 \in 0 .. (WORD - 1)
      BY <1>2, Sizes
    <2> QED BY <2>1, WordFacts
  <1>3. ASSUME n # 0 PROVE Word(n - 1) = n - 1
    <2>1. n - 1 \in Int /\ n - 1 \in 0 .. (WORD - 1)
      BY <1>1, <1>3, Sizes
    <2> QED BY <2>1, WordFacts
  <1> QED BY <1>1, <1>2, <1>3

\* The two bytes that move_cursor() sends make up the position.
LEMMA TwoBytes ==
    ASSUME NEW x \in Nat, NEW b \in Nat \ {0}
    PROVE  ((x \div b) % b) * b + (x % b) = x % (b * b)
  <1>1. PICK y \in Nat : y = x \div b
    BY DivMod
  <1>2. PICK r \in 0 .. (b - 1) : r = x % b
    BY DivMod
  <1>3. PICK z \in Nat : z = y \div b
    BY DivMod
  <1>4. PICK s \in 0 .. (b - 1) : s = y % b
    BY DivMod
  <1>5. PICK c \in Nat \ {0} : c = b * b
    OBVIOUS
  <1>6. PICK v \in Nat : v = s * b + r
    OBVIOUS
  <1>7. x = b * y + r /\ y = b * z + s
    BY <1>1, <1>2, <1>3, <1>4, DivMod
  <1>8. v \in 0 .. (c - 1) /\ x = c * z + v
    BY <1>5, <1>6, <1>7
  <1>9. x = c * (x \div c) + (x % c) /\ x % c \in 0 .. (c - 1) /\ x \div c \in Nat
    BY DivMod
  <1>10. v = x % c
    <2>1. PICK k \in Nat : k = x \div c
      BY <1>9
    <2>2. PICK w \in 0 .. (c - 1) : w = x % c
      BY <1>9
    <2>3. c * z + v = c * k + w
      BY <1>8, <1>9, <2>1, <2>2
    <2>4. v = w
      <3>1. z \in Int /\ k \in Int /\ v \in 0 .. (c - 1)
        BY <1>8
      <3> QED BY ONLY <3>1, <2>3, DivModUnique
    <2> QED BY <2>2, <2>4
  <1> QED BY <1>1, <1>2, <1>4, <1>5, <1>6, <1>10

\* A row and a column of the screen are a cell of the buffer.
LEMMA IndexInCells ==
    ASSUME NEW x \in Nat, NEW y \in Nat
    PROVE  /\ Index(x, y) \in 0 .. (WORD - 1)
           /\ x < VGA_WIDTH /\ y <= VGA_HEIGHT => Index(x, y) = y * VGA_WIDTH + x
           /\ x < VGA_WIDTH /\ y < VGA_HEIGHT => Index(x, y) \in Cells
  <1>1. PICK w \in Nat \ {0}, h \in Nat, z \in Nat :
          w = VGA_WIDTH /\ h = VGA_HEIGHT /\ z = VGA_WIDTH * VGA_HEIGHT
    BY Sizes
  <1>2. PICK n \in Nat : n = y * w
    OBVIOUS
  <1>3. Index(x, y) = Word(n + x) /\ n + x \in Int
    BY <1>1, <1>2 DEF Index
  <1>4. y <= h => n <= z
    <2> SUFFICES ASSUME y <= h PROVE y * w <= w * h
      BY <1>1, <1>2
    <2>1. PICK k \in Nat : h = y + k
      <3>1. h - y \in Nat /\ h = y + (h - y)
        OBVIOUS
      <3> QED BY <3>1
    <2>2. w * h = y * w + k * w /\ k * w \in Nat /\ y * w \in Nat
      BY <2>1
    <2> QED BY <2>2
  <1>5. y < h => n + w <= z
    <2> SUFFICES ASSUME y < h PROVE y * w + w <= w * h
      BY <1>1, <1>2
    <2>1. PICK k \in Nat : h = y + 1 + k
      <3>1. (h - y) - 1 \in Nat /\ h = y + 1 + ((h - y) - 1)
        OBVIOUS
      <3> QED BY <3>1
    <2>2. w * h = y * w + w + k * w /\ k * w \in Nat /\ y * w \in Nat
      BY <2>1
    <2> QED BY <2>2
  <1>6. z + w < WORD /\ WORD \in Nat
    BY <1>1, Sizes
  <1>7. x < w /\ y <= h => n + x \in 0 .. (WORD - 1)
    BY <1>4, <1>6
  <1>8. Index(x, y) \in 0 .. (WORD - 1) /\ (x < w /\ y <= h => Index(x, y) = n + x)
    BY <1>3, <1>7, WordFacts
  <1>9. x < w /\ y < h => n + x \in 0 .. (z - 1)
    BY <1>5
  <1>10. x < w /\ y < h => Index(x, y) \in 0 .. (z - 1)
    BY <1>8, <1>9, <1>1
  <1> QED BY <1>1, <1>2, <1>8, <1>10 DEF Cells

-----------------------------------------------------------------------------
(* One character at one go, as the keyboard handler shows it.              *)

\* terminal_putchar() leaves row and column on the screen if it finds them there.
LEMMA PutCharFacts ==
    ASSUME NEW y \in 0 .. (WORD - 1), NEW x \in 0 .. (WORD - 1), NEW s, DOMAIN s = Cells, NEW c,
           NEW t, t = PutChar([row |-> y, column |-> x, screen |-> s], c)
    PROVE  /\ t.row \in 0 .. (WORD - 1) /\ t.column \in 0 .. (WORD - 1) /\ DOMAIN t.screen = Cells
           /\ y <= VGA_HEIGHT /\ x < VGA_WIDTH => t.row <= VGA_HEIGHT /\ t.column < VGA_WIDTH
  <1> DEFINE t0 == [row |-> y, column |-> x, screen |-> s]
             u == IF t0.row = VGA_HEIGHT
                  THEN [row |-> VGA_HEIGHT - 1, column |-> 0, screen |-> Scrolled(t0.screen)]
                  ELSE t0
  <1>1. /\ VGA_WIDTH \in Nat \ {0} /\ VGA_HEIGHT \in Nat /\ VGA_HEIGHT >= 2 /\ WORD \in Nat
        /\ VGA_HEIGHT < WORD /\ VGA_WIDTH < WORD
    BY Sizes
  <1>2. \A q : DOMAIN Scrolled(q) = Cells
    BY DEF Scrolled
  <1>3. /\ u.row \in 0 .. (WORD - 1) /\ u.column \in 0 .. (WORD - 1) /\ DOMAIN u.screen = Cells
        /\ y <= VGA_HEIGHT /\ x < VGA_WIDTH => u.row < VGA_HEIGHT /\ u.column < VGA_WIDTH
        /\ u = [row |-> u.row, column |-> u.column, screen |-> u.screen]
    <2>1. CASE y = VGA_HEIGHT
      <3>1. u = [row |-> VGA_HEIGHT - 1, column |-> 0, screen |-> Scrolled(s)]
        BY <2>1
      <3> HIDE DEF u
      <3> QED BY <3>1, <1>1, <1>2
    <2>2. CASE y # VGA_HEIGHT
      <3>1. u = [row |-> y, column |-> x, screen |-> s]
        BY <2>2
      <3> HIDE DEF u
      <3> QED BY <3>1, <2>2, <1>1
    <2> QED BY <2>1, <2>2
  <1>4. t = CASE c = Newline /\ Word(u.row + 1) = VGA_HEIGHT ->
                   [u EXCEPT !.column = 0, !.screen = Scrolled(u.screen)]
              [] c = Newline /\ Word(u.row + 1) # VGA_HEIGHT ->
                   [u EXCEPT !.column = 0, !.row = Word(@ + 1)]
              [] c # Newline ->
                   LET wraps == Word(u.column + 1) = VGA_WIDTH IN
                   [row |-> IF wraps THEN Word(u.row + 1) ELSE u.row,
                    column |-> IF wraps THEN 0 ELSE Word(u.column + 1),
                    screen |-> PutEntry(u.screen, c, u.column, u.row)]
    BY DEF PutChar
  <1> HIDE DEF u
  <1>5. PICK a, b : a = Word(u.row + 1) /\ b = Word(u.column + 1)
    OBVIOUS
  <1>6. /\ a \in 0 .. (WORD - 1) /\ b \in 0 .. (WORD - 1)
        /\ u.row < VGA_HEIGHT => a = u.row + 1
        /\ u.column < VGA_WIDTH => b = u.column + 1
    <2>1. u.row \in Nat /\ u.column \in Nat /\ u.row + 1 \in Int /\ u.column + 1 \in Int
      BY <1>1, <1>3
    <2>2. a \in 0 .. (WORD - 1) /\ b \in 0 .. (WORD - 1)
      BY <2>1, <1>5, WordFacts
    <2>3. u.row < VGA_HEIGHT => a = u.row + 1
      BY <2>1, <1>1, <1>5, WordNext
    <2>4. u.column < VGA_WIDTH => b = u.column + 1
      BY <2>1, <1>1, <1>5, WordNext
    <2> QED BY <2>2, <2>3, <2>4
  <1>7. CASE c = Newline /\ a = VGA_HEIGHT
    <2>1. t = [u EXCEPT !.column = 0, !.screen = Scrolled(u.screen)]
      BY <1>4, <1>5, <1>7
    <2>2. t.row = u.row /\ t.column = 0 /\ t.screen = Scrolled(u.screen)
      BY <2>1, <1>3
    <2> QED BY <2>2, <1>1, <1>2, <1>3
  <1>8. CASE c = Newline /\ a # VGA_HEIGHT
    <2>1. t = [u EXCEPT !.column = 0, !.row = a]
      BY <1>4, <1>5, <1>8
    <2>2. t.row = a /\ t.column = 0 /\ t.screen = u.screen
      BY <2>1, <1>3
    <2> QED BY <2>2, <1>1, <1>3, <1>6
  <1>9. CASE c # Newline
    <2>1. t.row = (IF b = VGA_WIDTH THEN a ELSE u.row)
          /\ t.column = (IF b = VGA_WIDTH THEN 0 ELSE b)
          /\ t.screen = PutEntry(u.screen, c, u.column, u.row)
      BY <1>4, <1>5, <1>9
    <2>2. DOMAIN t.screen = Cells
      BY <2>1, <1>3 DEF PutEntry
    <2> QED BY <2>1, <2>2, <1>1, <1>3, <1>6
  <1> QED BY <1>7, <1>8, <1>9

-----------------------------------------------------------------------------
(* Steps of one thread.                                                    *)

\* The threads but t stay where they are.
LEMMA JumpFacts ==
    ASSUME Typed, NEW t \in Writers, NEW label \in Labels, Jump(t, label)
    PROVE  /\ pc'[t] = label /\ pc' \in [Writers -> Labels]
           /\ \A u \in Writers : u # t => pc'[u] = pc[u]
  BY DEF Typed, TypeOK, Jump

\* They keep what they have loaded.
LEMMA LoadFacts ==
    ASSUME Typed, NEW t \in Writers, NEW n \in 0 .. (WORD - 1), Load(t, n)
    PROVE  /\ reg'[t] = n /\ reg' \in [Writers -> 0 .. (WORD - 1)]
           /\ \A u \in Writers : u # t => reg'[u] = reg[u]
  BY DEF Typed, TypeOK, Load

\* A thread within terminal_putchar() is alone there.
LEMMA AloneInside ==
    ASSUME InPlace, NEW t \in Writers, pc[t] \in Inside
    PROVE  /\ At(pc[t], reg[t])
           /\ \A u \in Writers : u # t => pc[u] \notin Inside
  BY DEF InPlace

\* What is to be shown of its step.
LEMMA OneInPlace ==
    ASSUME NEW t \in Writers, \A u \in Writers : u # t => pc'[u] \notin Inside,
           ~ stray', row' <= VGA_HEIGHT,
           pc'[t] \in Inside => At(pc[t], reg[t])',
           pc'[t] \notin Inside => column' < VGA_WIDTH
    PROVE  InPlace'
  <1>1. \A a, b \in Writers : pc'[a] \in Inside /\ pc'[b] \in Inside => a = b
    OBVIOUS
  <1>2. Settled' => column' < VGA_WIDTH
    BY DEF Settled
  <1>3. \A a \in Writers : pc'[a] \in Inside => At(pc[a], reg[a])'
    OBVIOUS
  <1> QED BY <1>1, <1>2, <1>3 DEF InPlace

\* A step away from terminal_putchar().
LEMMA QuietPlace ==
    ASSUME torn \/ InPlace, UNCHANGED <<row, column, stray, torn>>,
           NEW t \in Writers, pc[t] \notin Inside, pc'[t] \notin Inside,
           \A u \in Writers : u # t => pc'[u] = pc[u] /\ reg'[u] = reg[u]
    PROVE  torn' \/ InPlace'
  <1> SUFFICES ASSUME InPlace PROVE InPlace'
    OBVIOUS
  <1>1. \A u \in Writers : /\ pc'[u] \in Inside => pc[u] \in Inside /\ pc'[u] = pc[u] /\ reg'[u] = reg[u]
                           /\ pc[u] \in Inside => pc'[u] = pc[u]
    OBVIOUS
  <1>2. Settled' <=> Settled
    BY <1>1 DEF Settled
  <1>3. \A u \in Writers : pc'[u] \in Inside => At(pc[u], reg[u])'
    BY <1>1 DEF InPlace, At
  <1> QED BY <1>1, <1>2, <1>3 DEF InPlace

\* Nothing is claimed of the cursor while a thread shows characters.
LEMMA WritesOn ==
    ASSUME CursorMoves, NEW t \in Writers, pc'[t] \notin Moving \cup {"idle"}, stale' = stale,
           \A u \in Writers : u # t => pc'[u] = pc[u]
    PROVE  CursorMoves' /\ CursorFollows'
  <1>1. ~ NoneWrites'
    BY DEF NoneWrites
  <1>2. ~ (\A u \in Writers : pc'[u] = "idle")
    OBVIOUS
  <1>3. \A u \in Writers : pc'[u] \in Moving => pc[u] \in Moving
    OBVIOUS
  <1>4. CursorMoves'
    BY <1>1, <1>3 DEF CursorMoves
  <1> QED BY <1>2, <1>4 DEF CursorFollows

-----------------------------------------------------------------------------
(* The initial state, and one lemma per group of operations.               *)

\* terminal_init() leaves an empty screen, and nobody writes.
LEMMA InitIInv == Init => IInv
  <1> SUFFICES ASSUME Init PROVE IInv
    OBVIOUS
  <1>1. /\ VGA_WIDTH \in Nat \ {0} /\ VGA_HEIGHT \in Nat \ {0} /\ 0 \in 0 .. (BYTE - 1)
        /\ 0 \in 0 .. (WORD - 1)
    BY Sizes, TerminalAssumption
  <1>2. /\ stray \in BOOLEAN /\ torn \in BOOLEAN /\ stale \in BOOLEAN /\ ~ stray /\ ~ torn
        /\ ~ stale
    BY Zenon DEF Init
  <1>3. TypeOK
    BY <1>1 DEF Init, TypeOK, Labels
  <1>4. \A t \in Writers : pc[t] = "idle" /\ pc[t] \notin Inside /\ pc[t] \notin Moving
    BY DEF Init, Inside, Moving
  <1>5. InPlace
    BY <1>1, <1>2, <1>4 DEF Init, InPlace
  <1>6. CursorMoves /\ CursorFollows
    BY <1>4 DEF Init, CursorMoves, CursorFollows
  <1> QED BY <1>2, <1>3, <1>5, <1>6 DEF IInv, Typed

\* The begin of terminal_write().
LEMMA WriteStep ==
    ASSUME IInv, NEW t \in Writers, NEW str \in Strings, Write(t, str)
    PROVE  IInv'
  <1>1. PICK label : label = IF str = <<>> THEN "move" ELSE "char"
    OBVIOUS
  <1>2. /\ Typed /\ (torn \/ InPlace) /\ CursorMoves /\ pc[t] = "idle"
        /\ label \in {"move", "char"} /\ label \in Labels
    BY <1>1 DEF IInv, Write, Labels
  <1>3. /\ UNCHANGED <<row, column, screen, crtc, command, reg, text, stray, torn, stale>>
        /\ DOMAIN todo' = Writers /\ Jump(t, label)
    BY <1>1, <1>2 DEF Write, cursor, history, Typed, TypeOK
  <1>4. pc'[t] = label /\ pc' \in [Writers -> Labels] /\ \A u \in Writers : u # t => pc'[u] = pc[u]
    BY <1>2, <1>3, JumpFacts
  <1>5. Typed'
    BY <1>2, <1>3, <1>4 DEF Typed, TypeOK
  <1>6. torn' \/ InPlace'
    BY <1>2, <1>3, <1>4, QuietPlace DEF Inside
  <1>7. CursorMoves' /\ CursorFollows'
    BY <1>2, <1>3, <1>4, WritesOn DEF Moving
  <1> QED BY <1>5, <1>6, <1>7 DEF IInv

\* The scrolling in front of a character.
LEMMA FullStep ==
    ASSUME IInv, NEW t \in Writers, Full(t)
    PROVE  IInv'
  <1>1. PICK label : label = IF row = VGA_HEIGHT THEN "scrolled" ELSE "put"
    OBVIOUS
  <1>2. /\ Typed /\ (torn \/ InPlace) /\ CursorMoves /\ pc[t] = "char"
        /\ label \in Inside /\ label \in Labels /\ label \notin Moving
    BY <1>1 DEF IInv, Full, Labels, Inside, Moving
  <1>3. /\ UNCHANGED <<row, column, crtc, command, todo, reg, text, stray, stale>>
        /\ screen' \in {screen, Scrolled(screen)} /\ Jump(t, label)
    BY <1>1 DEF Full, cursor
  <1>4. pc'[t] = label /\ pc' \in [Writers -> Labels] /\ \A u \in Writers : u # t => pc'[u] = pc[u]
    BY <1>2, <1>3, JumpFacts
  <1>5. torn' \in BOOLEAN /\ (~ torn' => ~ torn /\ ~ Others(t, Inside))
    <2>1. torn' = (torn \/ Others(t, Inside))
      BY DEF Full
    <2> QED BY <2>1, Zenon
  <1>6. DOMAIN screen' = Cells
    BY <1>2, <1>3 DEF Typed, TypeOK, Scrolled
  <1>7. Typed'
    BY <1>2, <1>3, <1>4, <1>5, <1>6 DEF Typed, TypeOK
  <1>8. torn' \/ InPlace'
    <2> SUFFICES ASSUME ~ torn' PROVE InPlace'
      OBVIOUS
    <2>1. InPlace /\ \A u \in Writers : u # t => pc[u] \notin Inside
      BY <1>2, <1>5 DEF Others
    <2>2. Settled
      BY <2>1, <1>2 DEF Settled, Inside
    <2>3. ~ stray' /\ row' <= VGA_HEIGHT /\ column' < VGA_WIDTH
      BY <2>1, <2>2, <1>3 DEF InPlace
    <2>4. label = "put" => row' < VGA_HEIGHT
      BY <2>3, <1>1, <1>2, <1>3, Sizes DEF Typed, TypeOK
    <2>5. At(pc[t], reg[t])'
      BY <2>3, <2>4, <1>1, <1>4 DEF At
    <2> QED BY <2>1, <2>3, <2>5, <1>2, <1>4, OneInPlace
  <1>9. CursorMoves' /\ CursorFollows'
    BY <1>2, <1>3, <1>4, WritesOn DEF Inside
  <1> QED BY <1>7, <1>8, <1>9 DEF IInv

\* A step within terminal_putchar() or to its end.
LEMMA InsideStep ==
    ASSUME IInv, NEW t \in Writers, pc[t] \in Inside,
           NEW label \in Labels, label \notin Moving, label # "idle", Jump(t, label),
           UNCHANGED <<crtc, command, stray, torn, stale>>,
           row' \in 0 .. (WORD - 1), column' \in 0 .. (WORD - 1), DOMAIN screen' = Cells,
           DOMAIN todo' = Writers, reg' \in [Writers -> 0 .. (WORD - 1)],
           ~ torn /\ At(pc[t], reg[t]) /\ row <= VGA_HEIGHT =>
               /\ row' <= VGA_HEIGHT
               /\ label \in Inside => At(label, reg[t])'
               /\ label \notin Inside => column' < VGA_WIDTH
    PROVE  IInv'
  <1>1. Typed /\ (torn \/ InPlace) /\ CursorMoves
    BY DEF IInv
  <1>2. pc'[t] = label /\ pc' \in [Writers -> Labels] /\ \A u \in Writers : u # t => pc'[u] = pc[u]
    BY <1>1, JumpFacts
  <1>3. Typed'
    BY <1>1, <1>2 DEF Typed, TypeOK
  <1>4. ASSUME ~ torn PROVE InPlace'
    <2>1. /\ InPlace /\ ~ stray /\ row <= VGA_HEIGHT /\ At(pc[t], reg[t])
          /\ \A u \in Writers : u # t => pc[u] \notin Inside
      BY <1>1, <1>4, AloneInside DEF InPlace
    <2>2. /\ ~ stray' /\ row' <= VGA_HEIGHT
          /\ pc'[t] \in Inside => At(pc[t], reg[t])'
          /\ pc'[t] \notin Inside => column' < VGA_WIDTH
      BY <2>1, <1>2, <1>4 DEF At
    <2> QED BY <2>1, <2>2, <1>2, OneInPlace
  <1>5. CursorMoves' /\ CursorFollows'
    BY <1>1, <1>2, WritesOn
  <1> QED BY <1>3, <1>4, <1>5 DEF IInv

\* The end of the scrolling.
LEMMA FullDoneStep ==
    ASSUME IInv, NEW t \in Writers, FullDone(t)
    PROVE  IInv'
  <1>1. Typed /\ pc[t] \in Inside /\ "put" \in Labels /\ "put" \in Inside /\ "put" \notin Moving
    BY DEF IInv, FullDone, Labels, Inside, Moving
  <1>2. /\ UNCHANGED <<screen, crtc, command, todo, reg, text, stray, torn, stale>>
        /\ row' = VGA_HEIGHT - 1 /\ column' = 0 /\ Jump(t, "put")
    BY DEF FullDone, cursor, history
  <1>3. /\ row' \in 0 .. (WORD - 1) /\ column' \in 0 .. (WORD - 1)
        /\ row' < VGA_HEIGHT /\ row' <= VGA_HEIGHT /\ column' < VGA_WIDTH
    BY <1>2, Sizes
  <1>4. DOMAIN screen' = Cells /\ DOMAIN todo' = Writers /\ reg' \in [Writers -> 0 .. (WORD - 1)]
    BY <1>1, <1>2 DEF Typed, TypeOK
  <1>5. At("put", reg[t])'
    BY <1>3 DEF At
  <1> QED BY <1>1, <1>2, <1>3, <1>4, <1>5, InsideStep

\* The character itself.
LEMMA PutStep ==
    ASSUME IInv, NEW t \in Writers, Put(t)
    PROVE  IInv'
  <1>1. PICK label : label = IF Head(todo[t]) = Newline THEN "newline" ELSE "next_column"
    OBVIOUS
  <1>2. /\ Typed /\ (torn \/ InPlace) /\ CursorMoves /\ pc[t] = "put"
        /\ row \in 0 .. (WORD - 1) /\ column \in 0 .. (WORD - 1) /\ DOMAIN screen = Cells
        /\ label \in Labels /\ label \in Inside /\ pc[t] \in Inside
        /\ label \notin Moving \cup {"idle"}
    BY <1>1 DEF IInv, Put, Labels, Inside, Moving, Typed, TypeOK
  <1>3. /\ UNCHANGED <<row, crtc, command, todo, reg, text, torn, stale>>
        /\ column' \in {0, column} /\ Jump(t, label)
    BY <1>1 DEF Put, cursor
  <1>4. pc'[t] = label /\ pc' \in [Writers -> Labels] /\ \A u \in Writers : u # t => pc'[u] = pc[u]
    BY <1>2, <1>3, JumpFacts
  <1>5. DOMAIN screen' = Cells
    BY <1>2 DEF Put, PutEntry
  <1>6. stray' \in BOOLEAN /\ (stray' => stray \/ Index(column, row) \notin Cells)
    <2>1. CASE Head(todo[t]) = Newline
      BY <2>1, <1>2 DEF Put, Typed
    <2>2. CASE Head(todo[t]) # Newline
      <3>1. stray' = (stray \/ Index(column, row) \notin Cells)
        BY <2>2 DEF Put
      <3> QED BY <3>1, Zenon
    <2> QED BY <2>1, <2>2
  <1>7. column' \in 0 .. (WORD - 1)
    BY <1>2, <1>3, Sizes
  <1>8. Typed'
    BY <1>2, <1>3, <1>4, <1>5, <1>6, <1>7 DEF Typed, TypeOK
  <1>9. ASSUME ~ torn PROVE InPlace'
    <2>1. /\ InPlace /\ ~ stray /\ At(pc[t], reg[t])
          /\ \A u \in Writers : u # t => pc[u] \notin Inside
      BY <1>2, <1>9, AloneInside DEF InPlace
    <2>2. row < VGA_HEIGHT /\ column < VGA_WIDTH
      BY <2>1, <1>2 DEF At
    <2>3. ~ stray'
      BY <2>1, <2>2, <1>2, <1>6, IndexInCells
    <2>4. row' < VGA_HEIGHT /\ row' <= VGA_HEIGHT /\ column' < VGA_WIDTH
      BY <2>2, <1>2, <1>3, Sizes
    <2>5. At(pc[t], reg[t])'
      BY <2>4, <1>1, <1>4 DEF At
    <2> QED BY <2>1, <2>3, <2>4, <2>5, <1>2, <1>4, OneInPlace
  <1>10. CursorMoves' /\ CursorFollows'
    BY <1>2, <1>3, <1>4, WritesOn
  <1> QED BY <1>3, <1>8, <1>9, <1>10 DEF IInv

\* What the loop of terminal_write() goes on with.
LEMMA NextFacts ==
    ASSUME Typed, NEW t \in Writers, NextChar(t)
    PROVE  \E label \in {"move", "char"} :
               /\ Jump(t, label) /\ label \in Labels /\ label \notin Moving /\ label # "idle"
               /\ label \notin Inside /\ DOMAIN todo' = Writers
  <1>1. PICK label : label = IF Tail(todo[t]) = <<>> THEN "move" ELSE "char"
    OBVIOUS
  <1>2. Jump(t, label) /\ label \in {"move", "char"} /\ DOMAIN todo' = Writers
    BY <1>1 DEF NextChar, Typed, TypeOK
  <1> QED BY <1>2 DEF Labels, Moving, Inside

\* The steps behind a newline.
LEMMA NewlineStep ==
    ASSUME IInv, NEW t \in Writers, NewlineLoad(t) \/ NewlineStore(t) \/ NewlineBack(t)
    PROVE  IInv'
  <1>1. /\ VGA_WIDTH \in Nat \ {0} /\ VGA_HEIGHT \in Nat \ {0, 1} /\ WORD \in Nat \ {0}
        /\ VGA_HEIGHT < WORD
    BY Sizes
  <1>2. /\ Typed /\ row \in 0 .. (WORD - 1) /\ column \in 0 .. (WORD - 1)
        /\ reg \in [Writers -> 0 .. (WORD - 1)] /\ reg[t] \in 0 .. (WORD - 1)
        /\ DOMAIN todo = Writers /\ DOMAIN screen = Cells
        /\ pc[t] \in {"newline", "newline_store", "newline_back"} /\ pc[t] \in Inside
    BY DEF IInv, NewlineLoad, NewlineStore, NewlineBack, Typed, TypeOK, Inside
  <1>3. UNCHANGED <<column, crtc, command, stray, torn, stale>>
    BY DEF NewlineLoad, NewlineStore, NewlineBack, cursor, history
  <1>4. DOMAIN screen' = Cells
    BY <1>2 DEF NewlineLoad, NewlineStore, NewlineBack, Scrolled
  <1>5. CASE NewlineLoad(t)
    <2>1. /\ pc[t] = "newline" /\ Jump(t, "newline_store") /\ Load(t, Word(row + 1)) /\ row' = row
          /\ todo' = todo
      BY <1>5 DEF NewlineLoad
    <2>2. Word(row + 1) \in 0 .. (WORD - 1) /\ (row < VGA_HEIGHT => Word(row + 1) = row + 1)
      <3>1. row \in Nat /\ row + 1 \in Int
        BY <1>1, <1>2
      <3>2. Word(row + 1) \in 0 .. (WORD - 1)
        BY <3>1, WordFacts
      <3>3. row < VGA_HEIGHT => Word(row + 1) = row + 1
        BY <3>1, <1>1, WordNext
      <3> QED BY <3>2, <3>3
    <2>3. reg'[t] = Word(row + 1) /\ reg' \in [Writers -> 0 .. (WORD - 1)]
      BY <2>1, <2>2, <1>2, LoadFacts
    <2>4. "newline_store" \in Labels /\ "newline_store" \notin Moving /\ "newline_store" \in Inside
      BY DEF Labels, Moving, Inside
    <2>5. At(pc[t], reg[t]) /\ row <= VGA_HEIGHT =>
             row' <= VGA_HEIGHT /\ At("newline_store", reg[t])'
      BY <2>1, <2>2, <2>3, <1>3 DEF At
    <2> QED BY <2>1, <2>3, <2>4, <2>5, <1>2, <1>3, <1>4, InsideStep
  <1>6. CASE NewlineStore(t) /\ reg[t] = VGA_HEIGHT
    <2>1. /\ pc[t] = "newline_store" /\ Jump(t, "newline_back") /\ reg' = reg /\ row' = reg[t]
          /\ todo' = todo
      BY <1>6 DEF NewlineStore
    <2>2. "newline_back" \in Labels /\ "newline_back" \notin Moving /\ "newline_back" \in Inside
      BY DEF Labels, Moving, Inside
    <2>3. At(pc[t], reg[t]) /\ row <= VGA_HEIGHT =>
             row' <= VGA_HEIGHT /\ At("newline_back", reg[t])'
      BY <2>1, <1>1, <1>3, <1>6 DEF At
    <2> QED BY <2>1, <2>2, <2>3, <1>2, <1>3, <1>4, InsideStep
  <1>7. CASE NewlineStore(t) /\ reg[t] # VGA_HEIGHT
    <2>1. pc[t] = "newline_store" /\ NextChar(t) /\ reg' = reg /\ row' = reg[t]
      BY <1>7 DEF NewlineStore
    <2>2. PICK label \in {"move", "char"} :
            /\ Jump(t, label) /\ label \in Labels /\ label \notin Moving /\ label # "idle"
            /\ label \notin Inside /\ DOMAIN todo' = Writers
      BY <2>1, <1>2, NextFacts
    <2>3. At(pc[t], reg[t]) /\ row <= VGA_HEIGHT => row' <= VGA_HEIGHT /\ column' < VGA_WIDTH
      BY <2>1, <1>1, <1>2, <1>3 DEF At
    <2> QED BY <2>1, <2>2, <2>3, <1>2, <1>3, <1>4, InsideStep
  <1>8. CASE NewlineBack(t)
    <2>1. pc[t] = "newline_back" /\ NextChar(t) /\ reg' = reg /\ row' = Word(row - 1)
      BY <1>8 DEF NewlineBack
    <2>2. PICK label \in {"move", "char"} :
            /\ Jump(t, label) /\ label \in Labels /\ label \notin Moving /\ label # "idle"
            /\ label \notin Inside /\ DOMAIN todo' = Writers
      BY <2>1, <1>2, NextFacts
    <2>3. row' \in 0 .. (WORD - 1) /\ (row = VGA_HEIGHT => row' = VGA_HEIGHT - 1)
      <3>1. row \in Nat /\ row - 1 \in Int
        BY <1>1, <1>2
      <3>2. Word(row - 1) \in 0 .. (WORD - 1)
        BY <3>1, WordFacts
      <3>3. row = VGA_HEIGHT => Word(row - 1) = row - 1
        BY <3>1, <1>1, WordNext
      <3> QED BY <3>2, <3>3, <2>1
    <2>4. At(pc[t], reg[t]) /\ row <= VGA_HEIGHT => row' <= VGA_HEIGHT /\ column' < VGA_WIDTH
      BY <2>1, <2>3, <1>1, <1>3 DEF At
    <2> QED BY <2>1, <2>2, <2>3, <2>4, <1>2, <1>3, <1>4, InsideStep
  <1> QED BY <1>5, <1>6, <1>7, <1>8

\* The steps behind any other character.
LEMMA ColumnStep ==
    ASSUME IInv, NEW t \in Writers, ColumnLoad(t) \/ ColumnStore(t) \/ Wrap(t)
    PROVE  IInv'
  <1>1. /\ VGA_WIDTH \in Nat \ {0} /\ VGA_HEIGHT \in Nat \ {0, 1} /\ WORD \in Nat \ {0}
        /\ VGA_HEIGHT < WORD /\ VGA_WIDTH < WORD
    BY Sizes
  <1>2. /\ Typed /\ row \in 0 .. (WORD - 1) /\ column \in 0 .. (WORD - 1)
        /\ reg \in [Writers -> 0 .. (WORD - 1)] /\ reg[t] \in 0 .. (WORD - 1)
        /\ DOMAIN todo = Writers /\ DOMAIN screen = Cells
        /\ pc[t] \in {"next_column", "store_column", "wrap"} /\ pc[t] \in Inside
    BY DEF IInv, ColumnLoad, ColumnStore, Wrap, Typed, TypeOK, Inside
  <1>3. UNCHANGED <<screen, crtc, command, stray, torn, stale>>
    BY DEF ColumnLoad, ColumnStore, Wrap, cursor, history
  <1>4. CASE ColumnLoad(t)
    <2>1. /\ pc[t] = "next_column" /\ Jump(t, "store_column") /\ Load(t, Word(column + 1))
          /\ row' = row /\ column' = column /\ todo' = todo
      BY <1>4 DEF ColumnLoad
    <2>2. Word(column + 1) \in 0 .. (WORD - 1) /\ (column < VGA_WIDTH => Word(column + 1) = column + 1)
      <3>1. column \in Nat /\ column + 1 \in Int
        BY <1>1, <1>2
      <3>2. Word(column + 1) \in 0 .. (WORD - 1)
        BY <3>1, WordFacts
      <3>3. column < VGA_WIDTH => Word(column + 1) = column + 1
        BY <3>1, <1>1, WordNext
      <3> QED BY <3>2, <3>3
    <2>3. reg'[t] = Word(column + 1) /\ reg' \in [Writers -> 0 .. (WORD - 1)]
      BY <2>1, <2>2, <1>2, LoadFacts
    <2>4. "store_column" \in Labels /\ "store_column" \notin Moving /\ "store_column" \in Inside
      BY DEF Labels, Moving, Inside
    <2>5. At(pc[t], reg[t]) /\ row <= VGA_HEIGHT =>
             row' <= VGA_HEIGHT /\ At("store_column", reg[t])'
      BY <2>1, <2>2, <2>3 DEF At
    <2> QED BY <2>1, <2>3, <2>4, <2>5, <1>2, <1>3, InsideStep
  <1>5. CASE ColumnStore(t) /\ reg[t] = VGA_WIDTH
    <2>1. /\ pc[t] = "store_column" /\ Jump(t, "wrap") /\ reg' = reg /\ column' = reg[t]
          /\ row' = row /\ todo' = todo
      BY <1>5 DEF ColumnStore
    <2>2. "wrap" \in Labels /\ "wrap" \notin Moving /\ "wrap" \in Inside
      BY DEF Labels, Moving, Inside
    <2>3. At(pc[t], reg[t]) /\ row <= VGA_HEIGHT => row' <= VGA_HEIGHT /\ At("wrap", reg[t])'
      BY <2>1, <1>5 DEF At
    <2> QED BY <2>1, <2>2, <2>3, <1>2, <1>3, InsideStep
  <1>6. CASE ColumnStore(t) /\ reg[t] # VGA_WIDTH
    <2>1. pc[t] = "store_column" /\ NextChar(t) /\ reg' = reg /\ column' = reg[t] /\ row' = row
      BY <1>6 DEF ColumnStore
    <2>2. PICK label \in {"move", "char"} :
            /\ Jump(t, label) /\ label \in Labels /\ label \notin Moving /\ label # "idle"
            /\ label \notin Inside /\ DOMAIN todo' = Writers
      BY <2>1, <1>2, NextFacts
    <2>3. At(pc[t], reg[t]) /\ row <= VGA_HEIGHT => row' <= VGA_HEIGHT /\ column' < VGA_WIDTH
      BY <2>1, <1>1, <1>2, <1>6 DEF At
    <2> QED BY <2>1, <2>2, <2>3, <1>2, <1>3, InsideStep
  <1>7. CASE Wrap(t)
    <2>1. pc[t] = "wrap" /\ NextChar(t) /\ reg' = reg /\ column' = 0 /\ row' = Word(row + 1)
      BY <1>7 DEF Wrap
    <2>2. PICK label \in {"move", "char"} :
            /\ Jump(t, label) /\ label \in Labels /\ label \notin Moving /\ label # "idle"
            /\ label \notin Inside /\ DOMAIN todo' = Writers
      BY <2>1, <1>2, NextFacts
    <2>3. row' \in 0 .. (WORD - 1) /\ (row < VGA_HEIGHT => row' = row + 1)
      <3>1. row \in Nat /\ row + 1 \in Int
        BY <1>1, <1>2
      <3>2. Word(row + 1) \in 0 .. (WORD - 1)
        BY <3>1, WordFacts
      <3>3. row < VGA_HEIGHT => Word(row + 1) = row + 1
        BY <3>1, <1>1, WordNext
      <3> QED BY <3>2, <3>3, <2>1
    <2>4. At(pc[t], reg[t]) /\ row <= VGA_HEIGHT => row' <= VGA_HEIGHT /\ column' < VGA_WIDTH
      BY <2>1, <2>3, <1>1, <1>2 DEF At
    <2>5. column' \in 0 .. (WORD - 1)
      BY <2>1, <1>1
    <2> QED BY <2>1, <2>2, <2>3, <2>4, <2>5, <1>2, <1>3, InsideStep
  <1> QED BY <1>4, <1>5, <1>6, <1>7

\* A step of move_cursor() that is not its last.
LEMMA MoveOn ==
    ASSUME Typed, torn \/ InPlace, NEW t \in Writers, pc[t] \notin Inside,
           NEW label \in Labels, label \in Moving, Jump(t, label),
           UNCHANGED <<row, column, stray, torn>>,
           \A u \in Writers : u # t => reg'[u] = reg[u],
           ~ stale' => /\ \A u \in Writers : u # t => pc[u] \notin Moving
                       /\ NoneWrites' => CursorAt(label, reg[t])'
    PROVE  (torn' \/ InPlace') /\ CursorMoves' /\ CursorFollows'
  <1>1. pc'[t] = label /\ pc' \in [Writers -> Labels] /\ \A u \in Writers : u # t => pc'[u] = pc[u]
    BY JumpFacts
  <1>2. label \notin Inside /\ label # "idle"
    BY DEF Inside, Moving
  <1>3. torn' \/ InPlace'
    BY <1>1, <1>2, QuietPlace
  <1>4. CursorMoves'
    <2> SUFFICES ASSUME ~ stale'
                 PROVE  /\ \A a, b \in Writers : pc'[a] \in Moving /\ pc'[b] \in Moving => a = b
                        /\ NoneWrites' =>
                             \A a \in Writers : pc'[a] \in Moving => CursorAt(pc[a], reg[a])'
      BY DEF CursorMoves
    <2>1. \A a \in Writers : pc'[a] \in Moving => a = t
      BY <1>1
    <2>2. NoneWrites' => CursorAt(pc[t], reg[t])'
      BY <1>1 DEF CursorAt
    <2> QED BY <2>1, <2>2
  <1>5. CursorFollows'
    BY <1>1, <1>2 DEF CursorFollows
  <1> QED BY <1>3, <1>4, <1>5

\* Who is alone in a move that is not stale.
LEMMA AloneMoving ==
    ASSUME CursorMoves, ~ stale, NEW t \in Writers, pc[t] \in Moving,
           \A u \in Writers : u # t => pc'[u] = pc[u]
    PROVE  /\ \A u \in Writers : u # t => pc[u] \notin Moving
           /\ NoneWrites' => CursorAt(pc[t], reg[t])
  <1>1. NoneWrites' => NoneWrites
    BY DEF NoneWrites
  <1> QED BY <1>1 DEF CursorMoves

\* The loads of move_cursor().
LEMMA LoadStep ==
    ASSUME IInv, NEW t \in Writers, MoveCursor(t) \/ MoveCursorAdd(t)
    PROVE  IInv'
  <1>1. /\ Typed /\ (torn \/ InPlace) /\ CursorMoves
        /\ row \in 0 .. (WORD - 1) /\ column \in 0 .. (WORD - 1)
        /\ row \in Nat /\ column \in Nat /\ reg[t] \in Nat /\ 0 \in Nat
        /\ {"add_column", "add_row", "high"} \subseteq Labels \cap Moving
    BY Sizes DEF IInv, Typed, TypeOK, Labels, Moving
  <1>2. UNCHANGED <<row, column, screen, crtc, command, todo, text, stray, torn>>
    BY DEF MoveCursor, MoveCursorAdd, cursor, history
  <1>3. CASE MoveCursor(t)
    <2>1. PICK label, n :
            /\ label \in {"add_column", "add_row"}
            /\ pc[t] = "move" /\ Jump(t, label) /\ Load(t, n)
            /\ label = "add_column" => n = Index(0, row)
            /\ label = "add_row" => n = column
      BY <1>3 DEF MoveCursor
    <2>2. n \in 0 .. (WORD - 1)
      BY <2>1, <1>1, IndexInCells
    <2>3. /\ reg'[t] = n /\ reg' \in [Writers -> 0 .. (WORD - 1)]
          /\ \A u \in Writers : u # t => reg'[u] = reg[u]
      BY <2>1, <2>2, <1>1, LoadFacts
    <2>4. label \in Labels /\ label \in Moving /\ pc[t] \notin Inside
      BY <2>1, <1>1 DEF Inside
    <2>5. stale' \in BOOLEAN /\ (~ stale' => \A u \in Writers : u # t => pc[u] \notin Moving)
      <3>1. stale' = Others(t, Moving)
        BY <1>3 DEF MoveCursor
      <3>2. stale' \in BOOLEAN
        BY <3>1, Zenon DEF Others
      <3>3. ~ stale' => \A u \in Writers : u # t => pc[u] \notin Moving
        BY <3>1 DEF Others
      <3> QED BY <3>2, <3>3
    <2>6. CursorAt(label, reg[t])'
      BY <2>1, <2>3, <1>2 DEF CursorAt, Index
    <2>7. (torn' \/ InPlace') /\ CursorMoves' /\ CursorFollows'
      BY <2>1, <2>3, <2>4, <2>5, <2>6, <1>1, <1>2, MoveOn
    <2>8. pc' \in [Writers -> Labels]
      BY <2>1, <2>4, <1>1, JumpFacts
    <2>9. Typed'
      BY <2>3, <2>5, <2>8, <1>1, <1>2 DEF Typed, TypeOK
    <2> QED BY <2>7, <2>9 DEF IInv
  <1>4. CASE MoveCursorAdd(t)
    <2>1. PICK n :
            /\ pc[t] \in {"add_column", "add_row"} /\ Jump(t, "high") /\ Load(t, n) /\ stale' = stale
            /\ pc[t] = "add_column" => n = Word(reg[t] + column)
            /\ pc[t] = "add_row" => n = Index(reg[t], row)
      BY <1>4 DEF MoveCursorAdd, history
    <2>2. n \in 0 .. (WORD - 1)
      <3>1. reg[t] + column \in Int
        BY <1>1
      <3>2. Word(reg[t] + column) \in 0 .. (WORD - 1)
        BY <3>1, WordFacts
      <3>3. Index(reg[t], row) \in 0 .. (WORD - 1)
        BY <1>1, IndexInCells
      <3> QED BY <2>1, <3>2, <3>3
    <2>3. /\ reg'[t] = n /\ reg' \in [Writers -> 0 .. (WORD - 1)]
          /\ \A u \in Writers : u # t => reg'[u] = reg[u]
      BY <2>1, <2>2, <1>1, LoadFacts
    <2>4. "high" \in Labels /\ "high" \in Moving /\ pc[t] \notin Inside /\ pc[t] \in Moving
      BY <2>1, <1>1 DEF Inside
    <2>5. \A u \in Writers : u # t => pc'[u] = pc[u]
      BY <2>1, <2>4, <1>1, JumpFacts
    <2>6. ~ stale' => /\ \A u \in Writers : u # t => pc[u] \notin Moving
                      /\ NoneWrites' => CursorAt(pc[t], reg[t])
      BY <2>1, <2>4, <2>5, <1>1, AloneMoving
    <2>7. CursorAt(pc[t], reg[t]) => n = Index(column, row)
      <3>1. CASE pc[t] = "add_row"
        BY <3>1, <2>1 DEF CursorAt
      <3>2. CASE pc[t] = "add_column"
        <4> SUFFICES ASSUME reg[t] = Index(0, row)
                     PROVE  Word(reg[t] + column) = Index(column, row)
          BY <3>2, <2>1 DEF CursorAt
        <4>1. PICK m \in Int : m = row * VGA_WIDTH
          BY <1>1, Sizes
        <4>2. PICK w \in Nat \ {0} : w = WORD
          BY Sizes
        <4>3. reg[t] = m % w /\ Index(column, row) = (m + column) % w
          BY <4>1, <4>2 DEF Index, Word
        <4>4. PICK k \in Int : k = column
          BY <1>1
        <4>5. ((m % w) + k) % w = (m + k) % w
          BY ONLY m \in Int, k \in Int, w \in Nat \ {0}, ModAdd
        <4> QED BY <4>2, <4>3, <4>4, <4>5 DEF Word
      <3> QED BY <3>1, <3>2, <2>1
    <2>8. CursorAt(pc[t], reg[t]) => CursorAt("high", reg[t])'
      BY <2>3, <2>7, <1>2 DEF CursorAt, Index
    <2>9. (torn' \/ InPlace') /\ CursorMoves' /\ CursorFollows'
      BY <2>1, <2>3, <2>4, <2>6, <2>8, <1>1, <1>2, MoveOn
    <2>10. pc' \in [Writers -> Labels]
      BY <2>1, <2>4, <1>1, JumpFacts
    <2>11. Typed'
      BY <2>1, <2>3, <2>10, <1>1, <1>2 DEF Typed, TypeOK
    <2> QED BY <2>9, <2>11 DEF IInv
  <1> QED BY <1>3, <1>4

\* Its port writes.
LEMMA CursorStep ==
    ASSUME IInv, NEW t \in Writers, send_high(t) \/ send_low(t)
    PROVE  IInv'
  <1>1. BYTE \in Nat \ {0} /\ HIGH # LOW
    BY TerminalAssumption DEF HIGH, LOW
  <1>2. /\ Typed /\ (torn \/ InPlace) /\ CursorMoves
        /\ reg[t] \in Nat /\ pc \in [Writers -> Labels] /\ command \in {HIGH, LOW}
        /\ crtc \in [{HIGH, LOW} -> 0 .. (BYTE - 1)] /\ row \in Nat /\ column \in Nat
        /\ {"high_data", "low", "low_data", "idle"} \subseteq Labels
        /\ {"high", "high_data", "low", "low_data"} \subseteq Moving
    BY Sizes DEF IInv, Typed, TypeOK, Labels, Moving
  <1>3. /\ UNCHANGED <<row, column, screen, todo, reg, text, stray, torn, stale>>
        /\ pc[t] \in {"high", "high_data", "low", "low_data"} /\ pc[t] \in Moving /\ pc[t] \notin Inside
    BY <1>2 DEF send_high, send_low, Select, Send, history, Inside
  <1>4. (reg[t] \div BYTE) % BYTE \in 0 .. (BYTE - 1) /\ reg[t] % BYTE \in 0 .. (BYTE - 1)
    <2>1. reg[t] \div BYTE \in Nat
      BY <1>1, <1>2, DivMod
    <2> QED BY <2>1, <1>1, <1>2, DivMod
  <1>5. ASSUME NEW label \in {"high_data", "low", "low_data"}, Jump(t, label),
               command' \in {HIGH, LOW}, crtc' \in [{HIGH, LOW} -> 0 .. (BYTE - 1)],
               CursorAt(pc[t], reg[t]) => CursorAt(label, reg[t])'
        PROVE  IInv'
    <2>1. /\ pc' \in [Writers -> Labels] /\ pc'[t] = label
          /\ \A u \in Writers : u # t => pc'[u] = pc[u]
      BY <1>2, <1>5, JumpFacts
    <2>2. ~ stale' => /\ \A u \in Writers : u # t => pc[u] \notin Moving
                      /\ NoneWrites' => CursorAt(pc[t], reg[t])
      BY <2>1, <1>2, <1>3, AloneMoving
    <2>3. (torn' \/ InPlace') /\ CursorMoves' /\ CursorFollows'
      BY <2>2, <1>2, <1>3, <1>5, MoveOn
    <2>4. Typed'
      BY <2>1, <1>2, <1>3, <1>5 DEF Typed, TypeOK
    <2> QED BY <2>3, <2>4 DEF IInv
  <1>6. CASE Select(t, "high", HIGH, "high_data")
    <2>1. pc[t] = "high" /\ Jump(t, "high_data") /\ command' = HIGH /\ crtc' = crtc
      BY <1>6 DEF Select
    <2>2. CursorAt(pc[t], reg[t]) => CursorAt("high_data", reg[t])'
      BY <2>1, <1>3 DEF CursorAt, Index
    <2> QED BY <2>1, <2>2, <1>2, <1>5
  <1>7. CASE Select(t, "low", LOW, "low_data")
    <2>1. pc[t] = "low" /\ Jump(t, "low_data") /\ command' = LOW /\ crtc' = crtc
      BY <1>7 DEF Select
    <2>2. CursorAt(pc[t], reg[t]) => CursorAt("low_data", reg[t])'
      BY <2>1, <1>3 DEF CursorAt, Index
    <2> QED BY <2>1, <2>2, <1>2, <1>5
  <1>8. CASE Send(t, "high_data", (reg[t] \div BYTE) % BYTE, "low")
    <2>1. /\ pc[t] = "high_data" /\ Jump(t, "low") /\ command' = command
          /\ crtc' = [crtc EXCEPT ![command] = (reg[t] \div BYTE) % BYTE]
      BY <1>8 DEF Send
    <2>2. /\ crtc' \in [{HIGH, LOW} -> 0 .. (BYTE - 1)]
          /\ crtc'[command] = (reg[t] \div BYTE) % BYTE
      BY <2>1, <1>2, <1>4
    <2>3. CursorAt(pc[t], reg[t]) => CursorAt("low", reg[t])'
      BY <2>1, <2>2, <1>3 DEF CursorAt, Index
    <2> QED BY <2>1, <2>2, <2>3, <1>2, <1>5
  <1>9. CASE Send(t, "low_data", reg[t] % BYTE, "idle")
    <2>1. /\ pc[t] = "low_data" /\ Jump(t, "idle") /\ command' = command
          /\ crtc' = [crtc EXCEPT ![command] = reg[t] % BYTE]
      BY <1>9 DEF Send
    <2>2. crtc' \in [{HIGH, LOW} -> 0 .. (BYTE - 1)]
      BY <2>1, <1>2, <1>4
    <2>3. /\ pc'[t] = "idle" /\ pc' \in [Writers -> Labels]
          /\ \A u \in Writers : u # t => pc'[u] = pc[u]
      BY <2>1, <1>2, JumpFacts
    <2>4. Typed'
      BY <2>1, <2>2, <2>3, <1>2, <1>3 DEF Typed, TypeOK
    <2>5. torn' \/ InPlace'
      BY <2>3, <1>2, <1>3, QuietPlace DEF Inside
    <2>6. ~ stale => /\ \A u \in Writers : u # t => pc[u] \notin Moving
                     /\ NoneWrites' => CursorAt(pc[t], reg[t])
      BY <2>3, <1>2, <1>3, AloneMoving
    <2>7. CursorMoves'
      <3>1. ~ stale' => \A u \in Writers : pc'[u] \notin Moving
        BY <2>3, <2>6, <1>3 DEF Moving
      <3> QED BY <3>1 DEF CursorMoves
    <2>8. CursorFollows'
      <3> SUFFICES ASSUME \A u \in Writers : pc'[u] = "idle", ~ stale
                   PROVE  crtc'[HIGH] * BYTE + crtc'[LOW] = Index(column, row) % (BYTE * BYTE)
        BY <1>3 DEF CursorFollows, Index
      <3>1. NoneWrites'
        BY DEF NoneWrites
      <3>2. reg[t] = Index(column, row) /\ crtc[HIGH] = (reg[t] \div BYTE) % BYTE /\ command = LOW
        BY <3>1, <2>1, <2>6 DEF CursorAt
      <3>3. crtc'[HIGH] = (reg[t] \div BYTE) % BYTE /\ crtc'[LOW] = reg[t] % BYTE
        BY <2>1, <3>2, <1>1, <1>2
      <3> QED BY <3>2, <3>3, <1>1, <1>2, TwoBytes
    <2> QED BY <2>4, <2>5, <2>7, <2>8 DEF IInv
  <1> QED BY <1>6, <1>7, <1>8, <1>9 DEF send_high, send_low

\* A key is echoed, whatever the threads are doing.
LEMMA KeyStep ==
    ASSUME IInv, NEW scancode \in DOMAIN kbdus, KeyPressed(scancode)
    PROVE  IInv'
  <1> DEFINE c == kbdus[scancode]
             t == PutChar([row |-> row, column |-> column, screen |-> screen], c)
             pos == Index(t.column, t.row)
             y == IF row = VGA_HEIGHT THEN VGA_HEIGHT - 1 ELSE row
             x == IF row = VGA_HEIGHT THEN 0 ELSE column
  <1>1. /\ BYTE \in Nat \ {0} /\ VGA_WIDTH \in Nat \ {0} /\ VGA_HEIGHT \in Nat \ {0, 1}
        /\ HIGH # LOW /\ WORD \in Nat
    BY TerminalAssumption DEF HIGH, LOW
  <1>2. /\ Typed /\ (torn \/ InPlace) /\ row \in 0 .. (WORD - 1) /\ column \in 0 .. (WORD - 1)
        /\ DOMAIN screen = Cells
    BY DEF IInv, Typed, TypeOK
  <1>3. /\ row' = t.row /\ column' = t.column /\ screen' = t.screen
        /\ crtc' = [r \in {HIGH, LOW} |-> IF r = HIGH THEN (pos \div BYTE) % BYTE ELSE pos % BYTE]
        /\ command' = LOW
        /\ UNCHANGED <<pc, todo, reg>>
    BY DEF KeyPressed, thread
  <1>4. /\ stray' \in BOOLEAN /\ torn' \in BOOLEAN /\ stale' \in BOOLEAN
        /\ stray' => stray \/ Index(x, y) \notin Cells
        /\ ~ torn' => ~ torn /\ Settled
        /\ ~ stale' => \A u \in Writers : pc[u] \notin Moving
    <2>1. /\ stray' = (stray \/ (c # Newline /\ Index(x, y) \notin Cells))
          /\ torn' = (torn \/ \E u \in Writers : pc[u] \in Inside)
          /\ stale' = \E u \in Writers : pc[u] \in Moving
      BY DEF KeyPressed
    <2> HIDE DEF x, y, c
    <2>2. stray' \in BOOLEAN
      BY <2>1, Zenon
    <2>3. torn' \in BOOLEAN
      BY <2>1, Zenon
    <2>4. stale' \in BOOLEAN
      <3>1. (\E u \in Writers : pc[u] \in Moving) \in BOOLEAN
        OBVIOUS
      <3> QED BY <3>1, <2>1, Zenon
    <2>5. stray' => stray \/ Index(x, y) \notin Cells
      BY <2>1, Zenon
    <2>6. ~ torn' => ~ torn /\ Settled
      BY <2>1, Zenon DEF Settled
    <2>7. ~ stale' => \A u \in Writers : pc[u] \notin Moving
      BY <2>1, Zenon
    <2> QED BY <2>2, <2>3, <2>4, <2>5, <2>6, <2>7
  <1>5. /\ t.row \in 0 .. (WORD - 1) /\ t.column \in 0 .. (WORD - 1) /\ DOMAIN t.screen = Cells
        /\ row <= VGA_HEIGHT /\ column < VGA_WIDTH => t.row <= VGA_HEIGHT /\ t.column < VGA_WIDTH
    <2>1. PICK tt, s, d : tt = t /\ s = screen /\ d = c
      OBVIOUS
    <2>2. PICK a \in 0 .. (WORD - 1), b \in 0 .. (WORD - 1) : a = row /\ b = column
      BY <1>2
    <2>3. tt = PutChar([row |-> a, column |-> b, screen |-> s], d) /\ DOMAIN s = Cells
      BY <2>1, <2>2, <1>2
    <2>4. /\ tt.row \in 0 .. (WORD - 1) /\ tt.column \in 0 .. (WORD - 1) /\ DOMAIN tt.screen = Cells
          /\ a <= VGA_HEIGHT /\ b < VGA_WIDTH => tt.row <= VGA_HEIGHT /\ tt.column < VGA_WIDTH
      BY ONLY <2>3, PutCharFacts
    <2> HIDE DEF t
    <2> QED BY <2>1, <2>2, <2>4
  <1> HIDE DEF t
  <1>6. pos \in Nat
    <2>1. t.row \in Nat /\ t.column \in Nat
      BY <1>1, <1>5
    <2>2. pos \in 0 .. (WORD - 1)
      BY <2>1, IndexInCells
    <2> QED BY <2>2, <1>1
  <1> HIDE DEF pos
  <1>7. /\ (pos \div BYTE) % BYTE \in 0 .. (BYTE - 1) /\ pos % BYTE \in 0 .. (BYTE - 1)
    <2>1. pos \div BYTE \in Nat
      BY <1>1, <1>6, DivMod
    <2> QED BY <2>1, <1>1, <1>6, DivMod
  <1>8. /\ crtc' \in [{HIGH, LOW} -> 0 .. (BYTE - 1)]
        /\ crtc'[HIGH] = (pos \div BYTE) % BYTE /\ crtc'[LOW] = pos % BYTE
    BY <1>1, <1>3, <1>7
  <1>9. Typed'
    BY <1>2, <1>3, <1>4, <1>5, <1>8 DEF Typed, TypeOK
  <1>10. torn' \/ InPlace'
    <2> SUFFICES ASSUME ~ torn' PROVE InPlace'
      OBVIOUS
    <2>1. ~ torn /\ Settled
      BY <1>4
    <2>2. InPlace /\ ~ stray /\ row <= VGA_HEIGHT /\ column < VGA_WIDTH
      BY <2>1, <1>2 DEF InPlace
    <2>3. x \in Nat /\ y \in Nat /\ x < VGA_WIDTH /\ y < VGA_HEIGHT
      BY <2>2, <1>1, <1>2
    <2> HIDE DEF x, y
    <2>4. ~ stray'
      BY <2>2, <2>3, <1>4, IndexInCells
    <2>5. row' <= VGA_HEIGHT /\ column' < VGA_WIDTH
      BY <2>2, <1>3, <1>5
    <2>6. \A u \in Writers : pc'[u] \notin Inside
      BY <2>1, <1>3 DEF Settled
    <2> QED BY <2>4, <2>5, <2>6 DEF InPlace
  <1>11. CursorMoves'
    <2>1. ~ stale' => \A u \in Writers : pc'[u] \notin Moving
      BY <1>3, <1>4
    <2> QED BY <2>1 DEF CursorMoves
  <1>12. CursorFollows'
    <2>1. crtc'[HIGH] * BYTE + crtc'[LOW] = pos % (BYTE * BYTE)
      BY <1>1, <1>6, <1>8, TwoBytes
    <2>2. Index(column, row)' = pos
      BY <1>3 DEF pos, Index
    <2> QED BY <2>1, <2>2 DEF CursorFollows
  <1> QED BY <1>9, <1>10, <1>11, <1>12 DEF IInv

\* Every step of the threads and of the keyboard keeps the invariant.
LEMMA NextIInv == IInv /\ [Next]_vars => IInv'
  <1> SUFFICES ASSUME IInv, [Next]_vars PROVE IInv'
    OBVIOUS
  <1>1. CASE UNCHANGED vars
    <2>1. UNCHANGED <<row, column, screen, crtc, command, pc, todo, reg, text, stray, torn, stale>>
      BY <1>1 DEF vars, cursor, thread, history
    <2>2. Typed' /\ (torn' \/ InPlace')
      BY <2>1 DEF IInv, Typed, TypeOK, InPlace, Settled, At
    <2>3. CursorMoves' /\ CursorFollows'
      BY <2>1 DEF IInv, CursorMoves, CursorFollows, Index, NoneWrites, CursorAt
    <2> QED BY <2>2, <2>3 DEF IInv
  <1>2. ASSUME NEW t \in Writers, (\E str \in Strings : Write(t, str)) \/ Step(t) PROVE IInv'
    <2>1. CASE \E str \in Strings : Write(t, str)
      BY <2>1, WriteStep
    <2>2. CASE Step(t)
      BY <2>2, FullStep, FullDoneStep, PutStep, NewlineStep, ColumnStep, LoadStep, CursorStep
         DEF Step
    <2> QED BY <1>2, <2>1, <2>2
  <1>3. CASE \E scancode \in DOMAIN kbdus : KeyPressed(scancode)
    BY <1>3, KeyStep
  <1>4. CASE \E scancode \in Released : KeyReleased(scancode)
    BY <1>4, <1>1 DEF KeyReleased
  <1> QED BY <1>1, <1>2, <1>3, <1>4 DEF Next

-----------------------------------------------------------------------------
(* The place of every character.                                           *)

\* The least element.
LEMMA LeastElement ==
    ASSUME NEW S, S \subseteq Nat, S # {}
    PROVE  \E x \in S : \A y \in S : x <= y
  <1>1. PICK x \in S : \A y \in S : ~ (<<y, x>> \in OpToRel(<, Nat))
    BY WFMin, NatLessThanWellFounded, Zenon
  <1>2. ASSUME NEW y \in S PROVE x <= y
    <2>1. x \in Nat /\ y \in Nat
      OBVIOUS
    <2>2. ~ (y < x)
      BY <1>1, <2>1, Zenon DEF OpToRel
    <2> QED BY <2>1, <2>2
  <1> QED BY <1>2

\* The largest element of a bounded set.
LEMMA LargestElement ==
    ASSUME NEW n \in Nat, NEW S, S \subseteq 1 .. n, S # {}
    PROVE  Max(S) \in S /\ \A y \in S : Max(S) >= y
  <1> DEFINE T == {n - x : x \in S}
  <1>1. T \subseteq Nat /\ T # {}
    <2>1. \A x \in S : n - x \in Nat
      OBVIOUS
    <2> QED BY <2>1
  <1>2. PICK d \in T : \A e \in T : d <= e
    <2> HIDE DEF T
    <2> QED BY <1>1, LeastElement
  <1>3. PICK x \in S : d = n - x
    OBVIOUS
  <1>4. ASSUME NEW y \in S PROVE x >= y
    <2>1. n - y \in T
      OBVIOUS
    <2>2. d <= n - y
      BY <2>1, <1>2
    <2>3. x \in 1 .. n /\ y \in 1 .. n
      OBVIOUS
    <2> QED BY ONLY <2>2, <2>3, <1>3, n \in Nat
  <1> QED BY <1>4 DEF Max

\* A sequence, whatever its elements are.
IsSequence(s) == s \in Seq({s[k] : k \in DOMAIN s})

\* One element more.
LEMMA AppendFacts ==
    ASSUME NEW s, IsSequence(s), NEW x
    PROVE  /\ IsSequence(Append(s, x))
           /\ Len(s) \in Nat /\ DOMAIN s = 1 .. Len(s)
           /\ Len(Append(s, x)) = Len(s) + 1
           /\ DOMAIN Append(s, x) = 1 .. (Len(s) + 1)
           /\ \A k \in 1 .. Len(s) : Append(s, x)[k] = s[k]
           /\ Append(s, x)[Len(s) + 1] = x
           /\ s \o <<x>> = Append(s, x)
           /\ s \o <<>> = s
  <1> DEFINE S == {s[k] : k \in DOMAIN s}
             T == S \cup {x}
             a == Append(s, x)
  <1>1. s \in Seq(S)
    BY DEF IsSequence
  <1>2. s \in Seq(T) /\ x \in T
    <2> HIDE DEF S
    <2> QED BY <1>1
  <1> HIDE DEF S, T
  <1>3. Len(s) \in Nat /\ DOMAIN s = 1 .. Len(s) /\ s \o <<>> = s
    BY <1>1
  <1>4. a \in Seq(T) /\ Len(a) = Len(s) + 1 /\ DOMAIN a = 1 .. (Len(s) + 1)
        /\ (\A k \in 1 .. Len(s) : a[k] = s[k]) /\ a[Len(s) + 1] = x
        /\ s \o <<x>> = a
    BY <1>2
  <1> HIDE DEF a
  <1>5. IsSequence(a)
    BY <1>4 DEF IsSequence
  <1> QED BY <1>3, <1>4, <1>5 DEF a

\* Place and Sheet of any text, and what makes them well defined.
NextPlace(p, c) == IF c = Newline THEN (p \div VGA_WIDTH + 1) * VGA_WIDTH ELSE p + 1

IsPlaces(P, t) == P = [i \in 0 .. Len(t) |-> IF i = 0 THEN 0 ELSE NextPlace(P[i - 1], t[i])]

PlacesOf(t) == CHOOSE P : IsPlaces(P, t)

SheetOf(P, t, place) ==
    LET here == {i \in 1 .. Len(t) : t[i] # Newline /\ P[i - 1] = place}
    IN  IF here = {} THEN Blank ELSE t[Max(here)]

\* Place of the model, in this state
LEMMA PlaceIs == Place = PlacesOf(text)
  BY Zenon DEF Place, PlacesOf, IsPlaces, NextPlace

\* and in the next one.
LEMMA PlaceIsNext == Place' = PlacesOf(text')
  BY Zenon DEF Place, PlacesOf, IsPlaces, NextPlace

\* Sheet of the model.
LEMMA SheetIs == \A place : Sheet(place) = SheetOf(Place, text, place)
  BY DEF Sheet, SheetOf

\* There is one placement at most.
LEMMA PlacesUnique ==
    ASSUME NEW t, Len(t) \in Nat, NEW P, NEW Q, IsPlaces(P, t), IsPlaces(Q, t)
    PROVE  P = Q
  <1> DEFINE D == 0 .. Len(t)
             B == {i \in D : P[i] # Q[i]}
  <1>1. /\ P = [i \in D |-> IF i = 0 THEN 0 ELSE NextPlace(P[i - 1], t[i])]
        /\ Q = [i \in D |-> IF i = 0 THEN 0 ELSE NextPlace(Q[i - 1], t[i])]
    BY DEF IsPlaces
  <1>2. /\ \A i \in D : P[i] = IF i = 0 THEN 0 ELSE NextPlace(P[i - 1], t[i])
        /\ \A i \in D : Q[i] = IF i = 0 THEN 0 ELSE NextPlace(Q[i - 1], t[i])
    BY <1>1, Zenon
  <1>3. SUFFICES ASSUME B # {} PROVE FALSE
    <2>1. \A i \in D : P[i] = Q[i]
      BY <1>3
    <2>2. DOMAIN P = D /\ DOMAIN Q = D /\ P = [i \in D |-> P[i]] /\ Q = [i \in D |-> Q[i]]
      BY <1>1
    <2> HIDE DEF D
    <2> QED BY <2>1, <2>2
  <1>4. PICK i \in B : \A j \in B : i <= j
    <2>1. B \subseteq Nat
      OBVIOUS
    <2> HIDE DEF B
    <2> QED BY <2>1, <1>3, LeastElement
  <1>5. i \in D /\ P[i] # Q[i]
    OBVIOUS
  <1>6. i # 0
    BY <1>2, <1>5
  <1>7. i - 1 \in D /\ ~ (i <= i - 1)
    BY <1>5, <1>6
  <1>8. P[i - 1] = Q[i - 1]
    BY <1>4, <1>7
  <1> QED BY <1>2, <1>5, <1>6, <1>8

\* What the placement P of a text t is known to satisfy: it is the placement, and
\* grows with every character.
PlaceFacts(P, t) ==
    /\ IsSequence(t)
    /\ IsPlaces(P, t)
    /\ P \in [0 .. Len(t) -> Nat]
    /\ \A i \in 0 .. Len(t) : P[i] <= P[Len(t)]
    /\ \A i \in 1 .. Len(t) : t[i] # Newline => P[i - 1] < P[Len(t)]

\* The next place is further on.
LEMMA NextPlaceFacts ==
    ASSUME NEW p \in Nat, NEW c
    PROVE  NextPlace(p, c) \in Nat /\ NextPlace(p, c) > p
  <1>1. CASE c = Newline
    <2>1. PICK w \in Nat \ {0} : w = VGA_WIDTH
      BY TerminalAssumption
    <2>2. PICK q \in Nat : q = p \div w
      BY <2>1
    <2>3. p < (q + 1) * w /\ (q + 1) * w \in Nat
      BY <2>1, <2>2
    <2> QED BY <2>1, <2>2, <2>3, <1>1 DEF NextPlace
  <1>2. CASE c # Newline
    BY <1>2 DEF NextPlace
  <1> QED BY <1>1, <1>2

\* The empty text.
LEMMA PlaceEmpty ==
    ASSUME NEW P, P = PlacesOf(<<>>)
    PROVE  PlaceFacts(P, <<>>) /\ P[0] = 0
  <1>1. IsPlaces([i \in 0 .. 0 |-> 0], <<>>)
    <2>1. Len(<<>>) = 0
      OBVIOUS
    <2>2. \A i \in 0 .. 0 : i = 0
      OBVIOUS
    <2> QED BY <2>1, <2>2 DEF IsPlaces
  <1>2. IsPlaces(P, <<>>)
    BY <1>1, Zenon DEF PlacesOf
  <1>3. P = [i \in 0 .. 0 |-> IF i = 0 THEN 0 ELSE NextPlace(P[i - 1], <<>>[i])]
    BY <1>2 DEF IsPlaces
  <1>4. P[0] = 0 /\ P \in [0 .. 0 -> Nat]
    <2>1. \A i \in 0 .. 0 : i = 0
      OBVIOUS
    <2>2. 0 \in 0 .. 0
      OBVIOUS
    <2>3. P = [i \in 0 .. 0 |-> 0]
      BY <1>3, <2>1
    <2> QED BY <2>2, <2>3
  <1>5. IsSequence(<<>>) /\ Len(<<>>) = 0
    BY DEF IsSequence
  <1> QED BY <1>2, <1>4, <1>5 DEF PlaceFacts

\* A character that is shown by terminal_putchar() belongs to the text.
Grows(P, t, c, R, u) ==
    PlaceFacts(P, t) /\ u = Append(t, c) /\ R = PlacesOf(u)

\* A character more: the others stay where they are.
LEMMA PlaceAppend ==
    ASSUME NEW P, NEW t, NEW c, NEW R, NEW u, Grows(P, t, c, R, u)
    PROVE  /\ PlaceFacts(R, u)
           /\ Len(u) = Len(t) + 1
           /\ \A i \in 0 .. Len(t) : R[i] = P[i]
           /\ R[Len(t) + 1] = NextPlace(P[Len(t)], c)
  <1> DEFINE l == Len(t)
             D == 0 .. (l + 1)
             e == NextPlace(P[l], c)
             G == [i \in D |-> IF i <= l THEN P[i] ELSE e]
  <1>0. PlaceFacts(P, t) /\ u = Append(t, c) /\ R = PlacesOf(u)
    BY DEF Grows
  <1>1. /\ l \in Nat /\ Len(u) = l + 1 /\ IsSequence(u)
        /\ \A k \in 1 .. l : u[k] = t[k]
        /\ u[l + 1] = c
    BY <1>0, AppendFacts DEF PlaceFacts
  <1>2. /\ P \in [0 .. l -> Nat]
        /\ \A i \in 0 .. l : P[i] = IF i = 0 THEN 0 ELSE NextPlace(P[i - 1], t[i])
    <2>1. P = [i \in 0 .. l |-> IF i = 0 THEN 0 ELSE NextPlace(P[i - 1], t[i])]
      BY <1>0 DEF PlaceFacts, IsPlaces
    <2>2. P \in [0 .. l -> Nat]
      BY <1>0 DEF PlaceFacts
    <2> QED BY <2>1, <2>2, Zenon
  <1>3. e \in Nat /\ e > P[l]
    BY <1>1, <1>2, NextPlaceFacts
  <1> HIDE DEF e
  <1>4. ASSUME NEW i \in D
        PROVE  G[i] = IF i = 0 THEN 0 ELSE NextPlace(G[i - 1], u[i])
    <2>1. CASE i = 0
      <3>1. P[0] = 0 /\ 0 \in 0 .. l
        BY <1>1, <1>2
      <3>2. G[0] = P[0]
        BY <3>1, <1>1
      <3> QED BY ONLY <2>1, <3>1, <3>2
    <2>2. CASE i \in 1 .. l
      <3>1. G[i] = P[i] /\ G[i - 1] = P[i - 1] /\ u[i] = t[i]
        BY <2>2, <1>1
      <3> QED BY <3>1, <2>2, <1>2
    <2>3. CASE i = l + 1
      <3>1. G[i] = e /\ G[i - 1] = P[l] /\ u[i] = c
        BY <2>3, <1>1
      <3> QED BY <3>1, <2>3, <1>1 DEF e
    <2> QED BY <2>1, <2>2, <2>3, <1>1
  <1>5. /\ G \in [D -> Nat] /\ (\A i \in 0 .. l : G[i] = P[i]) /\ G[l + 1] = e
    <2>1. \A i \in D : i <= l => i \in 0 .. l
      BY <1>1
    <2> QED BY <2>1, <1>1, <1>2, <1>3
  <1>6. IsPlaces(G, u)
    <2>1. G = [i \in D |-> G[i]]
      OBVIOUS
    <2> HIDE DEF G
    <2>2. G = [i \in D |-> IF i = 0 THEN 0 ELSE NextPlace(G[i - 1], u[i])]
      BY <1>4, <2>1
    <2> QED BY <2>2, <1>1 DEF IsPlaces
  <1> HIDE DEF G
  <1>7. IsPlaces(R, u)
    BY <1>0, <1>6, Zenon DEF PlacesOf
  <1>8. R = G
    BY <1>1, <1>6, <1>7, PlacesUnique
  <1>9. R \in [D -> Nat] /\ (\A i \in 0 .. l : R[i] = P[i]) /\ R[l + 1] = e
    BY <1>5, <1>8
  <1>10. \A i \in 0 .. l : P[i] \in Nat /\ P[i] <= P[l] /\ P[i] < e
    <2>1. \A i \in 0 .. l : P[i] <= P[l]
      BY <1>0 DEF PlaceFacts
    <2>2. ASSUME NEW i \in 0 .. l PROVE P[i] \in Nat /\ P[i] <= P[l] /\ P[i] < e
      <3>1. P[i] \in Nat /\ P[l] \in Nat /\ P[i] <= P[l]
        BY <2>1, <1>1, <1>2
      <3> QED BY <3>1, <1>3
    <2> QED BY <2>2
  <1>11. \A i \in D : R[i] <= R[l + 1]
    <2>1. ASSUME NEW i \in D PROVE R[i] <= e
      <3>1. CASE i \in 0 .. l
        <4>1. R[i] = P[i] /\ P[i] \in Nat /\ P[i] < e
          BY <3>1, <1>9, <1>10
        <4> QED BY <4>1, <1>3
      <3>2. CASE i = l + 1
        BY <3>2, <1>3, <1>9
      <3> QED BY <3>1, <3>2, <1>1
    <2> QED BY <2>1, <1>9
  <1>12. \A i \in 1 .. (l + 1) : R[i - 1] < R[l + 1]
    <2>1. ASSUME NEW i \in 1 .. (l + 1) PROVE R[i - 1] < e
      <3>1. i - 1 \in 0 .. l
        BY <1>1
      <3> QED BY <3>1, <1>9, <1>10
    <2> QED BY <2>1, <1>9
  <1>13. PlaceFacts(R, u)
    BY <1>1, <1>7, <1>9, <1>11, <1>12 DEF PlaceFacts
  <1> QED BY <1>1, <1>9, <1>13 DEF e

\* Nothing is on the sheet behind the last character.
LEMMA SheetBlank ==
    ASSUME NEW P, NEW t, PlaceFacts(P, t), NEW place \in Nat, place >= P[Len(t)]
    PROVE  SheetOf(P, t, place) = Blank
  <1>1. Len(t) \in Nat
    BY AppendFacts DEF PlaceFacts
  <1>2. ASSUME NEW i \in 1 .. Len(t), t[i] # Newline PROVE P[i - 1] # place
    <2>1. P[i - 1] < P[Len(t)]
      BY <1>2 DEF PlaceFacts
    <2>2. i - 1 \in 0 .. Len(t) /\ Len(t) \in 0 .. Len(t)
      BY <1>1
    <2>3. P[i - 1] \in Nat /\ P[Len(t)] \in Nat
      BY <2>2 DEF PlaceFacts
    <2> QED BY <2>1, <2>3
  <1>3. {i \in 1 .. Len(t) : t[i] # Newline /\ P[i - 1] = place} = {}
    BY <1>2
  <1> QED BY <1>3 DEF SheetOf

\* A character is on the sheet where the one before it ended, and a newline is
\* nowhere.
LEMMA SheetAppend ==
    ASSUME NEW P, NEW t, NEW c, NEW u, NEW R, Len(t) \in Nat, Len(u) = Len(t) + 1,
           \A k \in 1 .. Len(t) : u[k] = t[k],
           u[Len(t) + 1] = c,
           \A i \in 0 .. Len(t) : R[i] = P[i],
           NEW place
    PROVE  SheetOf(R, u, place) =
               IF c # Newline /\ place = P[Len(t)] THEN c ELSE SheetOf(P, t, place)
  <1> DEFINE l == Len(t)
             h == {i \in 1 .. l : t[i] # Newline /\ P[i - 1] = place}
             k == {i \in 1 .. (l + 1) : u[i] # Newline /\ R[i - 1] = place}
  <1>1. /\ SheetOf(R, u, place) = (IF k = {} THEN Blank ELSE u[Max(k)])
        /\ SheetOf(P, t, place) = (IF h = {} THEN Blank ELSE t[Max(h)])
    BY DEF SheetOf
  <1>2. \A i \in 1 .. l : i - 1 \in 0 .. l /\ u[i] = t[i] /\ R[i - 1] = P[i - 1]
    OBVIOUS
  <1>3. R[(l + 1) - 1] = P[l] /\ l + 1 \in 1 .. (l + 1)
    OBVIOUS
  <1>4. CASE c # Newline /\ place = P[l]
    <2>1. l + 1 \in k
      BY <1>3, <1>4
    <2>2. k \subseteq 1 .. (l + 1) /\ l + 1 \in Nat
      OBVIOUS
    <2>3. Max(k) \in k /\ Max(k) >= l + 1
      <3> HIDE DEF k
      <3> QED BY <2>1, <2>2, LargestElement
    <2>4. Max(k) = l + 1
      <3> HIDE DEF k
      <3>1. Max(k) \in 1 .. (l + 1)
        BY <2>2, <2>3, Zenon
      <3> QED BY <3>1, <2>2, <2>3
    <2> HIDE DEF k
    <2> QED BY <1>1, <1>4, <2>1, <2>4
  <1>5. CASE ~ (c # Newline /\ place = P[l])
    <2>1. l + 1 \notin k
      BY <1>3, <1>5
    <2>2. k = h
      BY <2>1, <1>2
    <2>3. h # {} => u[Max(h)] = t[Max(h)]
      <3>1. h \subseteq 1 .. l
        OBVIOUS
      <3>2. h # {} => Max(h) \in h
        <4> HIDE DEF h
        <4> QED BY <3>1, LargestElement
      <3> QED BY <3>1, <3>2, <1>2
    <2> HIDE DEF h, k
    <2> QED BY <1>1, <1>5, <2>2, <2>3
  <1> QED BY <1>4, <1>5

-----------------------------------------------------------------------------
(* The screen and the sheet.                                               *)

\* The line at the top if line q is to be seen.
TopOf(q) == IF q > VGA_HEIGHT - 1 THEN q - (VGA_HEIGHT - 1) ELSE 0

\* The last line is full, and no character has come to scroll it up.
WaitsOn(P, t) == t # <<>> /\ t[Len(t)] # Newline /\ P[Len(t)] % VGA_WIDTH = 0

\* A screen s shows the sheet of text t from line top on.
Shows(P, t, s, top) == \A i \in Cells : s[i] = SheetOf(P, t, top * VGA_WIDTH + i)

\* Row y, column x and screen s between two characters.
SettledOn(P, t, y, x, s) ==
    \E q \in Nat, r \in 0 .. (VGA_WIDTH - 1), top \in Nat :
        /\ P[Len(t)] = q * VGA_WIDTH + r
        /\ top = TopOf(IF WaitsOn(P, t) THEN q - 1 ELSE q)
        /\ x = r /\ y + top = q
        /\ Shows(P, t, s, top)

\* Row y, column x and screen s when there is room for a character.
RoomOn(P, t, y, x, s) ==
    \E q \in Nat, r \in 0 .. (VGA_WIDTH - 1), top \in Nat :
        /\ P[Len(t)] = q * VGA_WIDTH + r
        /\ top = TopOf(q)
        /\ x = r /\ y + top = q
        /\ Shows(P, t, s, top)

\* Scrolling moves the screen down the sheet by one line.
LEMMA ScrolledShows ==
    ASSUME NEW P, NEW t, PlaceFacts(P, t), NEW s, NEW top \in Nat, Shows(P, t, s, top),
           P[Len(t)] <= (top + VGA_HEIGHT) * VGA_WIDTH
    PROVE  Shows(P, t, Scrolled(s), top + 1)
  <1>1. PICK w \in Nat \ {0} : w = VGA_WIDTH
    BY TerminalAssumption
  <1>2. PICK h \in Nat \ {0} : h = VGA_HEIGHT
    BY TerminalAssumption
  <1>3. PICK p \in Nat : p = P[Len(t)]
    <2>1. Len(t) \in 0 .. Len(t)
      BY AppendFacts DEF PlaceFacts
    <2> QED BY <2>1 DEF PlaceFacts
  <1>4. ASSUME NEW i \in Cells
        PROVE  Scrolled(s)[i] = SheetOf(P, t, (top + 1) * VGA_WIDTH + i)
    <2>1. i \in Nat /\ Cells = 0 .. (w * h - 1) /\ w * h \in Nat
      BY <1>1, <1>2 DEF Cells
    <2>2. Scrolled(s)[i] = IF i + w \in Cells THEN s[i + w] ELSE Blank
      BY <1>1 DEF Scrolled
    <2>3. CASE i + w \in Cells
      <3>1. s[i + w] = SheetOf(P, t, top * w + (i + w))
        BY <2>3, <1>1 DEF Shows
      <3>2. top * w + (i + w) = (top + 1) * w + i
        BY <2>1
      <3> QED BY <2>2, <2>3, <3>1, <3>2, <1>1
    <2>4. CASE i + w \notin Cells
      <3>1. i + w >= w * h
        BY <2>1, <2>4
      <3>2. (top + 1) * w + i >= (top + h) * w /\ (top + 1) * w + i \in Nat
        <4>1. (top + 1) * w + i = top * w + (i + w) /\ (top + h) * w = top * w + w * h
          BY <2>1
        <4> QED BY <4>1, <3>1, <2>1
      <3>3. (top + 1) * w + i >= p
        <4>1. p <= (top + h) * w /\ (top + h) * w \in Nat
          BY <1>1, <1>2, <1>3
        <4> QED BY <4>1, <3>2
      <3>4. SheetOf(P, t, (top + 1) * w + i) = Blank
        BY <3>2, <3>3, <1>3, SheetBlank
      <3> QED BY <2>2, <2>4, <3>4, <1>1
    <2> QED BY <2>3, <2>4
  <1> QED BY <1>4 DEF Shows

\* Quotient and remainder by the width of a line.
LEMMA LineAndColumn ==
    ASSUME NEW q \in Nat, NEW r \in 0 .. (VGA_WIDTH - 1)
    PROVE  (q * VGA_WIDTH + r) \div VGA_WIDTH = q /\ (q * VGA_WIDTH + r) % VGA_WIDTH = r
  <1>1. PICK w \in Nat \ {0} : w = VGA_WIDTH
    BY TerminalAssumption
  <1>2. PICK x \in Nat : x = q * w + r
    BY <1>1
  <1>3. x \div w = q /\ x % w = r
    <2>1. r \in 0 .. (w - 1)
      BY <1>1
    <2> QED BY ONLY <1>2, <2>1, w \in Nat \ {0}, q \in Nat
  <1> QED BY <1>1, <1>2, <1>3

\* terminal_putchar() makes room for the character.
LEMMA RoomMade ==
    ASSUME NEW P, NEW t, PlaceFacts(P, t), NEW y \in Nat, NEW x, NEW s,
           SettledOn(P, t, y, x, s)
    PROVE  /\ y = VGA_HEIGHT => RoomOn(P, t, VGA_HEIGHT - 1, 0, Scrolled(s))
           /\ y # VGA_HEIGHT => RoomOn(P, t, y, x, s)
  <1>1. VGA_WIDTH \in Nat \ {0} /\ VGA_HEIGHT \in Nat /\ VGA_HEIGHT >= 2
    BY TerminalAssumption
  <1>2. PICK q \in Nat, r \in 0 .. (VGA_WIDTH - 1), top \in Nat :
          /\ P[Len(t)] = q * VGA_WIDTH + r
          /\ top = TopOf(IF WaitsOn(P, t) THEN q - 1 ELSE q)
          /\ x = r /\ y + top = q
          /\ Shows(P, t, s, top)
    BY DEF SettledOn
  <1>3. CASE y = VGA_HEIGHT
    <2>1. WaitsOn(P, t)
      <3> SUFFICES ASSUME ~ WaitsOn(P, t) PROVE FALSE
        OBVIOUS
      <3>1. top = TopOf(q)
        BY <1>2
      <3> QED BY <3>1, <1>1, <1>2, <1>3 DEF TopOf
    <2>2. r = 0
      <3>1. (q * VGA_WIDTH + r) % VGA_WIDTH = 0
        BY <2>1, <1>2 DEF WaitsOn
      <3> QED BY <3>1, LineAndColumn
    <2>3. q = top + VGA_HEIGHT
      BY <1>2, <1>3, <1>1
    <2>4. top + 1 = TopOf(q) /\ (VGA_HEIGHT - 1) + (top + 1) = q
      BY <2>3, <1>1 DEF TopOf
    <2>5. P[Len(t)] = q * VGA_WIDTH
      BY <2>2, <1>1, <1>2
    <2>6. q * VGA_WIDTH \in Nat
      BY <1>1
    <2>7. P[Len(t)] <= (top + VGA_HEIGHT) * VGA_WIDTH
      BY <2>3, <2>5, <2>6
    <2>8. Shows(P, t, Scrolled(s), top + 1)
      BY <2>7, <1>2, ScrolledShows
    <2>9. top + 1 \in Nat /\ 0 \in 0 .. (VGA_WIDTH - 1) /\ P[Len(t)] = q * VGA_WIDTH + 0
      BY <2>5, <2>6, <1>1
    <2>10. RoomOn(P, t, VGA_HEIGHT - 1, 0, Scrolled(s))
      BY <2>4, <2>8, <2>9 DEF RoomOn
    <2> QED BY <2>10, <1>3
  <1>4. CASE y # VGA_HEIGHT
    <2>1. top = TopOf(q)
      BY <1>1, <1>2, <1>4 DEF TopOf
    <2> QED BY <2>1, <1>2, <1>4 DEF RoomOn
  <1> QED BY <1>3, <1>4

\* What that means of places and sheet.
LEMMA GrowsFacts ==
    ASSUME NEW P, NEW t, NEW c, NEW R, NEW u, Grows(P, t, c, R, u)
    PROVE  /\ PlaceFacts(P, t) /\ PlaceFacts(R, u)
           /\ u # <<>> /\ u[Len(u)] = c
           /\ R[Len(u)] = NextPlace(P[Len(t)], c)
           /\ P[Len(t)] \in Nat /\ R[Len(u)] \in Nat
           /\ \A place : SheetOf(R, u, place) =
                 IF c # Newline /\ place = P[Len(t)] THEN c ELSE SheetOf(P, t, place)
  <1>1. PlaceFacts(P, t) /\ IsSequence(t)
    BY DEF Grows, PlaceFacts
  <1>2. /\ Len(t) \in Nat /\ Len(u) = Len(t) + 1
        /\ \A k \in 1 .. Len(t) : u[k] = t[k]
        /\ u[Len(t) + 1] = c
    BY <1>1, AppendFacts DEF Grows
  <1>3. /\ PlaceFacts(R, u)
        /\ \A i \in 0 .. Len(t) : R[i] = P[i]
        /\ R[Len(t) + 1] = NextPlace(P[Len(t)], c)
    BY PlaceAppend
  <1>4. u # <<>>
    BY <1>2
  <1>5. \A place : SheetOf(R, u, place) =
                 IF c # Newline /\ place = P[Len(t)] THEN c ELSE SheetOf(P, t, place)
    BY <1>2, <1>3, SheetAppend
  <1>6. P[Len(t)] \in Nat /\ R[Len(u)] \in Nat
    <2>1. Len(t) \in 0 .. Len(t) /\ Len(u) \in 0 .. Len(u)
      BY <1>2
    <2>2. P[Len(t)] \in Nat
      BY <2>1, <1>1 DEF PlaceFacts
    <2> QED BY <2>1, <2>2, <1>3 DEF PlaceFacts
  <1> QED BY <1>1, <1>2, <1>3, <1>4, <1>5, <1>6

\* After a newline: the next line, which a full screen is scrolled for.
LEMMA NewlineDone ==
    ASSUME NEW P, NEW t, NEW R, NEW u, Grows(P, t, Newline, R, u), NEW y \in Nat, NEW x, NEW s,
           RoomOn(P, t, y, x, s)
    PROVE  /\ y + 1 = VGA_HEIGHT => SettledOn(R, u, y, 0, Scrolled(s))
           /\ y + 1 # VGA_HEIGHT => SettledOn(R, u, y + 1, 0, s)
  <1>1. VGA_WIDTH \in Nat \ {0} /\ VGA_HEIGHT \in Nat /\ VGA_HEIGHT >= 2
    BY TerminalAssumption
  <1>2. PICK q \in Nat, r \in 0 .. (VGA_WIDTH - 1), top \in Nat :
          /\ P[Len(t)] = q * VGA_WIDTH + r
          /\ top = TopOf(q)
          /\ x = r /\ y + top = q
          /\ Shows(P, t, s, top)
    BY DEF RoomOn
  <1>3. /\ PlaceFacts(P, t) /\ PlaceFacts(R, u) /\ u # <<>> /\ u[Len(u)] = Newline
        /\ R[Len(u)] = NextPlace(P[Len(t)], Newline)
        /\ \A place : SheetOf(R, u, place) = SheetOf(P, t, place)
        /\ P[Len(t)] \in Nat /\ R[Len(u)] \in Nat
    BY GrowsFacts
  <1>4. R[Len(u)] = (q + 1) * VGA_WIDTH + 0 /\ q + 1 \in Nat /\ 0 \in 0 .. (VGA_WIDTH - 1)
    <2>1. P[Len(t)] \div VGA_WIDTH = q
      BY <1>2, LineAndColumn
    <2>2. R[Len(u)] = (q + 1) * VGA_WIDTH
      BY <1>3, <2>1 DEF NextPlace
    <2> QED BY <1>1, <2>2
  <1>5. ~ WaitsOn(R, u)
    BY <1>3 DEF WaitsOn
  <1>6. CASE y + 1 = VGA_HEIGHT
    <2>1. P[Len(t)] <= (top + VGA_HEIGHT) * VGA_WIDTH
      <3>1. PICK w \in Nat \ {0} : w = VGA_WIDTH
        BY <1>1
      <3>2. top + VGA_HEIGHT = q + 1
        BY <1>1, <1>2, <1>6
      <3>3. q * w + r <= (q + 1) * w
        BY <3>1
      <3> QED BY <3>1, <3>2, <3>3, <1>2
    <2>2. Shows(P, t, Scrolled(s), top + 1)
      BY <2>1, <1>2, <1>3, ScrolledShows
    <2>3. Shows(R, u, Scrolled(s), top + 1)
      BY <2>2, <1>3 DEF Shows
    <2>4. top + 1 = TopOf(q + 1) /\ y + (top + 1) = q + 1 /\ top + 1 \in Nat
      BY <1>1, <1>2, <1>6 DEF TopOf
    <2>5. SettledOn(R, u, y, 0, Scrolled(s))
      BY <2>3, <2>4, <1>4, <1>5 DEF SettledOn
    <2> QED BY <2>5, <1>6
  <1>7. CASE y + 1 # VGA_HEIGHT
    <2>1. Shows(R, u, s, top)
      BY <1>2, <1>3 DEF Shows
    <2>2. top = TopOf(q + 1) /\ (y + 1) + top = q + 1
      BY <1>1, <1>2, <1>7 DEF TopOf
    <2>3. SettledOn(R, u, y + 1, 0, s)
      BY <2>1, <2>2, <1>4, <1>5 DEF SettledOn
    <2> QED BY <2>3, <1>7
  <1> QED BY <1>6, <1>7

\* After any other character: the next column, or the next line.
LEMMA CharDone ==
    ASSUME NEW P, NEW t, NEW c, c # Newline, NEW R, NEW u, Grows(P, t, c, R, u),
           NEW y \in Nat, NEW x \in Nat, NEW s, DOMAIN s = Cells, RoomOn(P, t, y, x, s)
    PROVE  /\ x + 1 = VGA_WIDTH => SettledOn(R, u, y + 1, 0, PutEntry(s, c, x, y))
           /\ x + 1 # VGA_WIDTH => SettledOn(R, u, y, x + 1, PutEntry(s, c, x, y))
  <1>1. VGA_WIDTH \in Nat \ {0} /\ VGA_HEIGHT \in Nat /\ VGA_HEIGHT >= 2
    BY TerminalAssumption
  <1>2. PICK q \in Nat, r \in 0 .. (VGA_WIDTH - 1), top \in Nat :
          /\ P[Len(t)] = q * VGA_WIDTH + r
          /\ top = TopOf(q)
          /\ x = r /\ y + top = q
          /\ Shows(P, t, s, top)
    BY DEF RoomOn
  <1>3. /\ u # <<>> /\ u[Len(u)] = c
        /\ R[Len(u)] = P[Len(t)] + 1
        /\ \A place : SheetOf(R, u, place) = IF place = P[Len(t)] THEN c ELSE SheetOf(P, t, place)
        /\ P[Len(t)] \in Nat /\ R[Len(u)] \in Nat
    BY GrowsFacts DEF NextPlace
  <1>4. Shows(R, u, PutEntry(s, c, x, y), top)
    <2>1. Index(x, y) \in Cells
      <3>1. y < VGA_HEIGHT /\ x < VGA_WIDTH
        BY <1>1, <1>2 DEF TopOf
      <3> QED BY <3>1, IndexInCells
    <2>2. PutEntry(s, c, x, y) = [s EXCEPT ![Index(x, y)] = c]
      BY <2>1 DEF PutEntry
    <2>3. ASSUME NEW i \in Cells
          PROVE  PutEntry(s, c, x, y)[i] = SheetOf(R, u, top * VGA_WIDTH + i)
      <3>1. PutEntry(s, c, x, y)[i] = IF i = Index(x, y) THEN c ELSE s[i]
        BY <2>2
      <3>2. i = Index(x, y) <=> top * VGA_WIDTH + i = P[Len(t)]
        <4>1. PICK w \in Nat \ {0} : w = VGA_WIDTH
          BY <1>1
        <4>2. i \in Int /\ Index(x, y) = y * w + x
          <5>1. y <= VGA_HEIGHT /\ x < VGA_WIDTH
            BY <1>1, <1>2 DEF TopOf
          <5> QED BY <5>1, <4>1, <1>1, IndexInCells DEF Cells
        <4>3. q * w + r = top * w + (y * w + x)
          <5>1. q = y + top /\ x = r
            BY <1>2
          <5>2. (y + top) * w = y * w + top * w
            BY ONLY y \in Nat, top \in Nat, w \in Nat \ {0}
          <5>3. q * w = y * w + top * w
            BY <5>1, <5>2
          <5>4. y * w \in Nat /\ top * w \in Nat
            BY ONLY y \in Nat, top \in Nat, w \in Nat \ {0}
          <5> QED BY <5>1, <5>3, <5>4
        <4>4. top * w \in Int /\ y * w \in Int /\ x \in Int
          BY ONLY y \in Nat, top \in Nat, x \in Nat, w \in Nat \ {0}
        <4>5. P[Len(t)] = top * w + Index(x, y)
          BY <4>1, <4>2, <4>3, <1>2
        <4>6. i \in Int /\ Index(x, y) \in Int
          BY <4>2, <4>4
        <4> QED BY ONLY <4>1, <4>4, <4>5, <4>6
      <3>3. s[i] = SheetOf(P, t, top * VGA_WIDTH + i)
        BY <1>2 DEF Shows
      <3> QED BY <3>1, <3>2, <3>3, <1>3
    <2> QED BY <2>3 DEF Shows
  <1>5. CASE x + 1 = VGA_WIDTH
    <2>1. R[Len(u)] = (q + 1) * VGA_WIDTH + 0 /\ q + 1 \in Nat /\ 0 \in 0 .. (VGA_WIDTH - 1)
      BY <1>1, <1>2, <1>3, <1>5
    <2>2. R[Len(u)] % VGA_WIDTH = 0
      BY <2>1, LineAndColumn
    <2>3. WaitsOn(R, u)
      BY <2>2, <1>3 DEF WaitsOn
    <2>4. top = TopOf((q + 1) - 1) /\ (y + 1) + top = q + 1
      BY <1>2
    <2>5. SettledOn(R, u, y + 1, 0, PutEntry(s, c, x, y))
      BY <2>1, <2>3, <2>4, <1>2, <1>4 DEF SettledOn
    <2> QED BY <2>5, <1>5
  <1>6. CASE x + 1 # VGA_WIDTH
    <2>1. R[Len(u)] = q * VGA_WIDTH + (r + 1) /\ r + 1 \in 0 .. (VGA_WIDTH - 1)
      BY <1>1, <1>2, <1>3, <1>6
    <2>2. R[Len(u)] % VGA_WIDTH = r + 1
      BY <2>1, LineAndColumn
    <2>3. ~ WaitsOn(R, u)
      BY <2>2, <1>2 DEF WaitsOn
    <2>4. SettledOn(R, u, y, x + 1, PutEntry(s, c, x, y))
      BY <2>1, <2>3, <1>2, <1>4 DEF SettledOn
    <2> QED BY <2>4, <1>6
  <1> QED BY <1>5, <1>6

\* Room is within the screen.
LEMMA RoomInside ==
    ASSUME NEW P, NEW t, NEW y \in Nat, NEW x, NEW s, RoomOn(P, t, y, x, s)
    PROVE  y < VGA_HEIGHT /\ x \in Nat /\ x < VGA_WIDTH
  <1>1. PICK q \in Nat, r \in 0 .. (VGA_WIDTH - 1), top \in Nat :
          top = TopOf(q) /\ x = r /\ y + top = q
    BY DEF RoomOn
  <1> QED BY <1>1, Sizes DEF TopOf

-----------------------------------------------------------------------------
(* The screen at every place of terminal_putchar(), and every step.        *)

\* What the screen shows to a thread at place p of terminal_putchar(), whose
\* character c is not yet part of the text.
ScreenOf(p, c) ==
    /\ p = "scrolled" => RoomOn(Place, text, VGA_HEIGHT - 1, 0, screen)
    /\ p = "put" => RoomOn(Place, text, row, column, screen)
    /\ p \in {"newline", "newline_store"} =>
          /\ c = Newline /\ column = 0
          /\ \E x : RoomOn(Place, text, row, x, screen)
    /\ p = "newline_back" =>
          /\ c = Newline /\ column = 0 /\ row = VGA_HEIGHT
          /\ \E x, s : RoomOn(Place, text, VGA_HEIGHT - 1, x, s) /\ screen = Scrolled(s)
    /\ p \in {"next_column", "store_column"} =>
          /\ c # Newline
          /\ \E s : /\ DOMAIN s = Cells /\ RoomOn(Place, text, row, column, s)
                    /\ screen = PutEntry(s, c, column, row)
    /\ p = "wrap" =>
          /\ c # Newline
          /\ \E s : /\ DOMAIN s = Cells /\ RoomOn(Place, text, row, VGA_WIDTH - 1, s)
                    /\ screen = PutEntry(s, c, VGA_WIDTH - 1, row)

\* What it shows as long as no terminal_putchar() began within another one.
ScreenAt ==
    /\ Settled => SettledOn(Place, text, row, column, screen)
    /\ \A t \in Writers : pc[t] \in Inside => ScreenOf(pc[t], Head(todo[t]))

ScreenInv == PlaceFacts(Place, text) /\ (torn \/ ScreenAt)

\* Characters stay where they are while none is added.
LEMMA SameText == ASSUME text' = text PROVE Place' = Place
  BY PlaceIs, PlaceIsNext

\* The text grows by a character.
LEMMA TextGrows ==
    ASSUME PlaceFacts(Place, text), NEW c, text' = Append(text, c)
    PROVE  Grows(Place, text, c, Place', text') /\ PlaceFacts(Place', text')
  <1>1. Grows(Place, text, c, Place', text')
    BY PlaceIsNext DEF Grows
  <1>2. ASSUME NEW P, NEW t, NEW R, NEW u, Grows(P, t, c, R, u) PROVE PlaceFacts(R, u)
    BY <1>2, PlaceAppend
  <1> QED BY <1>1, <1>2

\* An empty text on an empty screen.
LEMMA InitScreen == Init => ScreenInv
  <1> SUFFICES ASSUME Init PROVE ScreenInv
    OBVIOUS
  <1>1. /\ text = <<>> /\ row = 0 /\ column = 0 /\ screen = [i \in Cells |-> Blank]
        /\ \A t \in Writers : pc[t] \notin Inside
    BY DEF Init, Inside
  <1>2. Place = PlacesOf(<<>>)
    BY <1>1, PlaceIs
  <1>3. PlaceFacts(Place, <<>>) /\ Place[0] = 0
    <2>1. ASSUME NEW P, P = PlacesOf(<<>>) PROVE PlaceFacts(P, <<>>) /\ P[0] = 0
      BY <2>1, PlaceEmpty
    <2> QED BY <1>2, <2>1
  <1>4. SettledOn(Place, text, row, column, screen)
    <2>1. PICK P : P = Place
      OBVIOUS
    <2>2. PlaceFacts(P, <<>>) /\ P[0] = 0 /\ Len(<<>>) = 0
      BY <1>3, <2>1
    <2>3. PICK w \in Nat \ {0} : w = VGA_WIDTH
      BY TerminalAssumption
    <2>4. P[Len(<<>>)] = 0 * w + 0 /\ 0 \in 0 .. (w - 1)
      BY <2>2, <2>3
    <2>5. ~ WaitsOn(P, <<>>)
      BY DEF WaitsOn
    <2>6. TopOf(0) = 0
      BY TerminalAssumption DEF TopOf
    <2>7. Shows(P, <<>>, screen, 0)
      <3>1. ASSUME NEW i \in Cells PROVE screen[i] = SheetOf(P, <<>>, 0 * w + i)
        <4>1. i \in Nat
          BY TerminalAssumption DEF Cells
        <4>2. 0 * w + i \in Nat /\ 0 * w + i >= P[Len(<<>>)]
          BY <4>1, <2>2, <2>3
        <4>3. SheetOf(P, <<>>, 0 * w + i) = Blank
          BY <4>2, <2>2, SheetBlank
        <4> QED BY <4>3, <1>1
      <3> QED BY <3>1, <2>3 DEF Shows
    <2>8. SettledOn(P, <<>>, 0, 0, screen)
      BY <2>3, <2>4, <2>5, <2>6, <2>7 DEF SettledOn
    <2> QED BY <2>1, <2>8, <1>1
  <1> QED BY <1>1, <1>3, <1>4 DEF ScreenInv, ScreenAt

\* A step away from terminal_putchar().
LEMMA QuietScreen ==
    ASSUME ScreenInv, UNCHANGED <<row, column, screen, text, torn>>,
           NEW t \in Writers, pc[t] \notin Inside, pc'[t] \notin Inside,
           \A u \in Writers : u # t => pc'[u] = pc[u] /\ todo'[u] = todo[u]
    PROVE  ScreenInv'
  <1>1. Place' = Place
    BY SameText
  <1>2. \A u \in Writers :
          /\ pc'[u] \in Inside => pc[u] \in Inside /\ pc'[u] = pc[u] /\ todo'[u] = todo[u]
          /\ pc[u] \in Inside => pc'[u] = pc[u]
    OBVIOUS
  <1>3. Settled' <=> Settled
    BY <1>2 DEF Settled
  <1>4. SettledOn(Place, text, row, column, screen) =>
          SettledOn(Place, text, row, column, screen)'
    BY <1>1 DEF SettledOn, WaitsOn, Shows
  <1>5. ScreenAt => ScreenAt'
    <2> SUFFICES ASSUME ScreenAt, NEW u \in Writers, pc'[u] \in Inside
                 PROVE  ScreenOf(pc[u], Head(todo[u]))'
      BY <1>3, <1>4 DEF ScreenAt
    <2>1. ScreenOf(pc[u], Head(todo[u])) /\ pc'[u] = pc[u] /\ todo'[u] = todo[u]
      BY <1>2 DEF ScreenAt
    <2> QED BY <2>1, <1>1 DEF ScreenOf
  <1> QED BY <1>1, <1>5 DEF ScreenInv, PlaceFacts, IsPlaces

\* What is to be shown of a step within terminal_putchar() that shows no character
\* yet.
LEMMA StepScreen ==
    ASSUME Typed, NEW t \in Writers, NEW label \in Inside, Jump(t, label),
           ScreenInv, text' = text,
           ~ torn' => /\ \A u \in Writers : u # t => pc[u] \notin Inside
                      /\ (ScreenOf(label, Head(todo[t])))'
    PROVE  ScreenInv'
  <1>1. pc'[t] = label /\ \A u \in Writers : u # t => pc'[u] = pc[u]
    <2>1. label \in Labels
      BY DEF Labels
    <2> QED BY <2>1, JumpFacts
  <1>2. Place' = Place
    BY SameText
  <1>3. PlaceFacts(Place, text)'
    BY <1>2 DEF ScreenInv, PlaceFacts, IsPlaces
  <1>4. ASSUME ~ torn' PROVE ScreenAt'
    <2>1. \A u \in Writers : pc'[u] \in Inside => u = t
      BY <1>1, <1>4
    <2>2. ~ Settled'
      BY <1>1 DEF Settled
    <2>3. (ScreenOf(pc[t], Head(todo[t])))'
      BY <1>1, <1>4 DEF ScreenOf
    <2> QED BY <2>1, <2>2, <2>3 DEF ScreenAt
  <1> QED BY <1>3, <1>4 DEF ScreenInv

\* What the screen shows to a thread within terminal_putchar(), which is alone there.
LEMMA ScreenInside ==
    ASSUME IInv, ScreenInv, ~ torn, NEW t \in Writers, pc[t] \in Inside
    PROVE  /\ ScreenOf(pc[t], Head(todo[t])) /\ At(pc[t], reg[t])
           /\ \A u \in Writers : u # t => pc[u] \notin Inside
  <1>1. InPlace /\ ScreenAt
    BY DEF IInv, ScreenInv
  <1>2. At(pc[t], reg[t]) /\ \A u \in Writers : u # t => pc[u] \notin Inside
    BY <1>1, AloneInside
  <1> QED BY <1>1, <1>2 DEF ScreenAt

\* The scrolling in front of a character.
LEMMA FullScreen ==
    ASSUME IInv, ScreenInv, NEW t \in Writers, Full(t) \/ FullDone(t)
    PROVE  ScreenInv'
  <1>1. /\ text' = text /\ Typed /\ row \in Nat /\ Place' = Place
        /\ {"scrolled", "put"} \subseteq Inside
    BY SameText, Sizes DEF Full, FullDone, IInv, Typed, TypeOK, history, Inside
  <1>2. PICK P, z : P = Place /\ z = text
    OBVIOUS
  <1>3. PlaceFacts(P, z)
    BY <1>2 DEF ScreenInv
  <1>4. CASE Full(t)
    <2>1. ~ torn' => ~ torn /\ \A u \in Writers : u # t => pc[u] \notin Inside
      <3>1. torn' = (torn \/ Others(t, Inside))
        BY <1>4 DEF Full
      <3>2. ~ torn' => ~ torn /\ ~ Others(t, Inside)
        BY <3>1, Zenon
      <3> QED BY <3>2 DEF Others
    <2>2. ASSUME ~ torn' PROVE SettledOn(P, z, row, column, screen)
      <3>1. pc[t] \notin Inside
        BY <1>4 DEF Full, Inside
      <3>2. Settled
        BY <3>1, <2>1, <2>2 DEF Settled
      <3> QED BY <3>2, <2>1, <2>2, <1>2 DEF ScreenInv, ScreenAt
    <2>3. ASSUME ~ torn'
          PROVE  /\ row = VGA_HEIGHT => RoomOn(P, z, VGA_HEIGHT - 1, 0, Scrolled(screen))
                 /\ row # VGA_HEIGHT => RoomOn(P, z, row, column, screen)
      <3>1. ASSUME NEW y \in Nat, NEW x, NEW s, SettledOn(P, z, y, x, s)
            PROVE  /\ y = VGA_HEIGHT => RoomOn(P, z, VGA_HEIGHT - 1, 0, Scrolled(s))
                   /\ y # VGA_HEIGHT => RoomOn(P, z, y, x, s)
        BY <3>1, <1>3, RoomMade
      <3> QED BY <3>1, <2>2, <2>3, <1>1
    <2>4. CASE row = VGA_HEIGHT
      <3>1. Jump(t, "scrolled") /\ screen' = Scrolled(screen)
        BY <2>4, <1>4 DEF Full
      <3>2. ~ torn' => RoomOn(Place', text', VGA_HEIGHT - 1, 0, screen')
        BY <3>1, <2>3, <2>4, <1>1, <1>2
      <3>3. ~ torn' => (ScreenOf("scrolled", Head(todo[t])))'
        BY <3>2 DEF ScreenOf
      <3> QED BY <3>1, <3>3, <2>1, <1>1, StepScreen
    <2>5. CASE row # VGA_HEIGHT
      <3>1. Jump(t, "put") /\ screen' = screen /\ row' = row /\ column' = column
        BY <2>5, <1>4 DEF Full
      <3>2. ~ torn' => RoomOn(Place', text', row', column', screen')
        BY <3>1, <2>3, <2>5, <1>1, <1>2
      <3>3. ~ torn' => (ScreenOf("put", Head(todo[t])))'
        BY <3>2 DEF ScreenOf
      <3> QED BY <3>1, <3>3, <2>1, <1>1, StepScreen
    <2> QED BY <2>4, <2>5
  <1>5. CASE FullDone(t)
    <2>1. /\ pc[t] = "scrolled" /\ Jump(t, "put") /\ row' = VGA_HEIGHT - 1 /\ column' = 0
          /\ screen' = screen /\ torn' = torn
      BY <1>5 DEF FullDone, history
    <2>2. ~ torn => ScreenOf(pc[t], Head(todo[t])) /\ \A u \in Writers : u # t => pc[u] \notin Inside
      BY <2>1, <1>1, ScreenInside
    <2>3. ~ torn => RoomOn(Place', text', row', column', screen')
      BY <2>1, <2>2, <1>1 DEF ScreenOf
    <2>4. ~ torn' => (ScreenOf("put", Head(todo[t])))'
      BY <2>1, <2>3 DEF ScreenOf
    <2> QED BY <2>1, <2>2, <2>4, <1>1, StepScreen
  <1> QED BY <1>4, <1>5

\* The character itself, and what the thread loads behind it.
LEMMA PutScreen ==
    ASSUME IInv, ScreenInv, NEW t \in Writers, Put(t) \/ NewlineLoad(t) \/ ColumnLoad(t)
    PROVE  ScreenInv'
  <1>1. /\ text' = text /\ torn' = torn /\ row' = row /\ todo' = todo /\ Place' = Place
        /\ DOMAIN screen = Cells /\ Typed /\ pc[t] \in Inside
        /\ {"newline", "newline_store", "next_column", "store_column"} \subseteq Inside
    BY SameText DEF Put, NewlineLoad, ColumnLoad, IInv, Typed, TypeOK, history, Inside
  <1>2. ~ torn => /\ ScreenOf(pc[t], Head(todo[t]))
                  /\ \A u \in Writers : u # t => pc[u] \notin Inside
    BY <1>1, ScreenInside
  <1>3. ASSUME NEW label \in {"newline", "newline_store", "next_column", "store_column"},
               Jump(t, label), ScreenOf(pc[t], Head(todo[t])) => (ScreenOf(label, Head(todo[t])))'
        PROVE  ScreenInv'
    BY <1>1, <1>2, <1>3, StepScreen
  <1>4. CASE Put(t) /\ Head(todo[t]) = Newline
    <2>1. pc[t] = "put" /\ Jump(t, "newline") /\ column' = 0 /\ screen' = screen
      BY <1>4 DEF Put
    <2>2. ScreenOf(pc[t], Head(todo[t])) => \E x : RoomOn(Place', text', row', x, screen')
      BY <2>1, <1>1 DEF ScreenOf
    <2>3. ScreenOf(pc[t], Head(todo[t])) => (ScreenOf("newline", Head(todo[t])))'
      BY <2>1, <2>2, <1>1, <1>4 DEF ScreenOf
    <2> QED BY <2>1, <2>3, <1>3
  <1>5. CASE Put(t) /\ Head(todo[t]) # Newline
    <2>1. /\ pc[t] = "put" /\ Jump(t, "next_column") /\ column' = column
          /\ screen' = PutEntry(screen, Head(todo[t]), column, row)
      BY <1>5 DEF Put
    <2>2. ScreenOf(pc[t], Head(todo[t])) => RoomOn(Place', text', row', column', screen)
      BY <2>1, <1>1 DEF ScreenOf
    <2>3. ScreenOf(pc[t], Head(todo[t])) =>
            \E s : /\ DOMAIN s = Cells /\ RoomOn(Place', text', row', column', s)
                   /\ screen' = PutEntry(s, Head(todo'[t]), column', row')
      BY <2>1, <2>2, <1>1
    <2>4. ScreenOf(pc[t], Head(todo[t])) => (ScreenOf("next_column", Head(todo[t])))'
      BY <2>3, <1>1, <1>5 DEF ScreenOf
    <2> QED BY <2>1, <2>4, <1>3
  <1>6. CASE NewlineLoad(t)
    <2>1. pc[t] = "newline" /\ Jump(t, "newline_store") /\ column' = column /\ screen' = screen
      BY <1>6 DEF NewlineLoad
    <2>2. ScreenOf(pc[t], Head(todo[t])) => (ScreenOf("newline_store", Head(todo[t])))'
      BY <2>1, <1>1 DEF ScreenOf
    <2> QED BY <2>1, <2>2, <1>3
  <1>7. CASE ColumnLoad(t)
    <2>1. pc[t] = "next_column" /\ Jump(t, "store_column") /\ column' = column /\ screen' = screen
      BY <1>7 DEF ColumnLoad
    <2>2. ScreenOf(pc[t], Head(todo[t])) => (ScreenOf("store_column", Head(todo[t])))'
      BY <2>1, <1>1 DEF ScreenOf
    <2> QED BY <2>1, <2>2, <1>3
  <1> QED BY <1>4, <1>5, <1>6, <1>7

\* The thread goes on behind a character.
LEMMA Onwards ==
    ASSUME IInv, ScreenInv, NEW t \in Writers, pc[t] \in Inside, NextChar(t), torn' = torn,
           ~ torn => SettledOn(Place', text', row', column', screen')
    PROVE  ScreenInv'
  <1>1. text' = Append(text, Head(todo[t])) /\ Typed
    BY DEF NextChar, IInv
  <1>2. PlaceFacts(Place, text)'
    BY <1>1, TextGrows DEF ScreenInv
  <1>3. PICK label \in {"move", "char"} : Jump(t, label) /\ label \in Labels /\ label \notin Inside
    BY <1>1, NextFacts
  <1>4. pc'[t] = label /\ \A u \in Writers : u # t => pc'[u] = pc[u]
    BY <1>1, <1>3, JumpFacts
  <1>5. ASSUME ~ torn PROVE ScreenAt'
    <2>1. \A u \in Writers : pc'[u] \notin Inside
      BY <1>3, <1>4, <1>5, ScreenInside
    <2> QED BY <2>1, <1>5 DEF ScreenAt
  <1> QED BY <1>2, <1>5 DEF ScreenInv

\* The steps behind a newline.
LEMMA NewlineScreen ==
    ASSUME IInv, ScreenInv, NEW t \in Writers, NewlineStore(t) \/ NewlineBack(t)
    PROVE  ScreenInv'
  <1>1. /\ torn' = torn /\ row \in Nat /\ column' = column /\ VGA_HEIGHT \in Nat \ {0, 1}
        /\ pc[t] \in Inside /\ "newline_back" \in Inside /\ Typed
    BY Sizes DEF NewlineStore, NewlineBack, IInv, Typed, TypeOK, Inside
  <1>2. PICK P, z, c, R, v :
          P = Place /\ z = text /\ c = Head(todo[t]) /\ R = Place' /\ v = text'
    OBVIOUS
  <1>3. PlaceFacts(Place, text)
    BY DEF ScreenInv
  <1>4. ~ torn => /\ ScreenOf(pc[t], Head(todo[t])) /\ At(pc[t], reg[t])
                  /\ \A u \in Writers : u # t => pc[u] \notin Inside
    BY <1>1, ScreenInside
  <1>5. CASE NewlineStore(t) /\ reg[t] = VGA_HEIGHT
    <2>1. /\ pc[t] = "newline_store" /\ Jump(t, "newline_back") /\ row' = reg[t]
          /\ screen' = Scrolled(screen) /\ text' = text /\ todo' = todo /\ Place' = Place
      BY <1>5, SameText DEF NewlineStore
    <2>2. ASSUME ~ torn PROVE (ScreenOf("newline_back", Head(todo[t])))'
      <3>1. row = VGA_HEIGHT - 1
        BY <2>1, <2>2, <1>1, <1>4, <1>5 DEF At
      <3>2. Head(todo[t]) = Newline /\ column = 0 /\ \E x : RoomOn(Place, text, row, x, screen)
        BY <2>1, <2>2, <1>4 DEF ScreenOf
      <3>3. \E x, s : RoomOn(Place', text', VGA_HEIGHT - 1, x, s) /\ screen' = Scrolled(s)
        BY <3>1, <3>2, <2>1
      <3> QED BY <3>2, <3>3, <2>1, <1>1, <1>5 DEF ScreenOf
    <2> QED BY <2>1, <2>2, <1>1, <1>4, StepScreen
  <1>6. CASE NewlineStore(t) /\ reg[t] # VGA_HEIGHT
    <2>1. pc[t] = "newline_store" /\ row' = reg[t] /\ screen' = screen /\ NextChar(t)
      BY <1>6 DEF NewlineStore
    <2>2. ASSUME ~ torn PROVE SettledOn(Place', text', row', column', screen')
      <3>1. reg[t] = row + 1
        BY <2>1, <2>2, <1>4 DEF At
      <3>2. c = Newline /\ column = 0 /\ \E x : RoomOn(P, z, row, x, screen)
        BY <2>1, <2>2, <1>2, <1>4 DEF ScreenOf
      <3>3. Grows(P, z, Newline, R, v)
        BY <2>1, <3>2, <1>2, <1>3, TextGrows DEF NextChar
      <3>4. ASSUME NEW y \in Nat, NEW x, NEW s, RoomOn(P, z, y, x, s), y + 1 # VGA_HEIGHT
            PROVE  SettledOn(R, v, y + 1, 0, s)
        BY <3>3, <3>4, NewlineDone
      <3>5. SettledOn(R, v, row + 1, 0, screen)
        BY <3>1, <3>2, <3>4, <1>1, <1>6
      <3> QED BY <3>1, <3>2, <3>5, <2>1, <1>1, <1>2
    <2> QED BY <2>1, <2>2, <1>1, Onwards
  <1>7. CASE NewlineBack(t)
    <2>1. pc[t] = "newline_back" /\ row' = Word(row - 1) /\ screen' = screen /\ NextChar(t)
      BY <1>7 DEF NewlineBack
    <2>2. ASSUME ~ torn PROVE SettledOn(Place', text', row', column', screen')
      <3>1. /\ c = Newline /\ column = 0 /\ row = VGA_HEIGHT
            /\ \E x, s : RoomOn(P, z, VGA_HEIGHT - 1, x, s) /\ screen = Scrolled(s)
        BY <2>1, <2>2, <1>2, <1>4 DEF ScreenOf
      <3>2. Grows(P, z, Newline, R, v)
        BY <2>1, <3>1, <1>2, <1>3, TextGrows DEF NextChar
      <3>3. ASSUME NEW y \in Nat, NEW x, NEW s, RoomOn(P, z, y, x, s), y + 1 = VGA_HEIGHT
            PROVE  SettledOn(R, v, y, 0, Scrolled(s))
        BY <3>2, <3>3, NewlineDone
      <3>4. VGA_HEIGHT - 1 \in Nat /\ (VGA_HEIGHT - 1) + 1 = VGA_HEIGHT
        BY <1>1
      <3>5. SettledOn(R, v, VGA_HEIGHT - 1, 0, screen)
        BY <3>1, <3>3, <3>4
      <3>6. row' = VGA_HEIGHT - 1
        BY <3>1, <2>1, <1>1, WordNext
      <3> QED BY <3>1, <3>5, <3>6, <2>1, <1>1, <1>2
    <2> QED BY <2>1, <2>2, <1>1, Onwards
  <1> QED BY <1>5, <1>6, <1>7

\* The steps behind any other character.
LEMMA ColumnScreen ==
    ASSUME IInv, ScreenInv, NEW t \in Writers, ColumnStore(t) \/ Wrap(t)
    PROVE  ScreenInv'
  <1>1. /\ torn' = torn /\ row \in Nat /\ column \in Nat /\ screen' = screen
        /\ VGA_WIDTH \in Nat \ {0} /\ VGA_HEIGHT \in Nat
        /\ pc[t] \in Inside /\ "wrap" \in Inside /\ Typed
    BY Sizes DEF ColumnStore, Wrap, IInv, Typed, TypeOK, Inside
  <1>2. PICK P, z, c, R, v :
          P = Place /\ z = text /\ c = Head(todo[t]) /\ R = Place' /\ v = text'
    OBVIOUS
  <1>3. PlaceFacts(Place, text)
    BY DEF ScreenInv
  <1>4. ~ torn => /\ ScreenOf(pc[t], Head(todo[t])) /\ At(pc[t], reg[t])
                  /\ \A u \in Writers : u # t => pc[u] \notin Inside
    BY <1>1, ScreenInside
  <1>5. CASE ColumnStore(t) /\ reg[t] = VGA_WIDTH
    <2>1. /\ pc[t] = "store_column" /\ Jump(t, "wrap") /\ row' = row
          /\ text' = text /\ todo' = todo /\ Place' = Place
      BY <1>5, SameText DEF ColumnStore
    <2>2. ASSUME ~ torn PROVE (ScreenOf("wrap", Head(todo[t])))'
      <3>1. column = VGA_WIDTH - 1
        BY <2>1, <2>2, <1>1, <1>4, <1>5 DEF At
      <3>2. Head(todo[t]) # Newline
            /\ \E s : /\ DOMAIN s = Cells /\ RoomOn(Place, text, row, column, s)
                      /\ screen = PutEntry(s, Head(todo[t]), column, row)
        BY <2>1, <2>2, <1>4 DEF ScreenOf
      <3>3. \E s : /\ DOMAIN s = Cells /\ RoomOn(Place', text', row', VGA_WIDTH - 1, s)
                   /\ screen' = PutEntry(s, Head(todo'[t]), VGA_WIDTH - 1, row')
        BY <3>1, <3>2, <2>1, <1>1
      <3> QED BY <3>2, <3>3, <2>1 DEF ScreenOf
    <2> QED BY <2>1, <2>2, <1>1, <1>4, StepScreen
  <1>6. ASSUME NEW y \in Nat, NEW x \in Nat, NEW s, DOMAIN s = Cells,
               RoomOn(P, z, y, x, s), c # Newline, NextChar(t)
        PROVE  /\ x + 1 = VGA_WIDTH => SettledOn(R, v, y + 1, 0, PutEntry(s, c, x, y))
               /\ x + 1 # VGA_WIDTH => SettledOn(R, v, y, x + 1, PutEntry(s, c, x, y))
    <2>1. Grows(P, z, c, R, v)
      BY <1>2, <1>3, <1>6, TextGrows DEF NextChar
    <2> QED BY <2>1, <1>6, CharDone
  <1>7. CASE ColumnStore(t) /\ reg[t] # VGA_WIDTH
    <2>1. pc[t] = "store_column" /\ column' = reg[t] /\ row' = row /\ NextChar(t)
      BY <1>7 DEF ColumnStore
    <2>2. ASSUME ~ torn PROVE SettledOn(Place', text', row', column', screen')
      <3>1. reg[t] = column + 1
        BY <2>1, <2>2, <1>4 DEF At
      <3>2. c # Newline /\ \E s : /\ DOMAIN s = Cells /\ RoomOn(P, z, row, column, s)
                                  /\ screen = PutEntry(s, c, column, row)
        BY <2>1, <2>2, <1>2, <1>4 DEF ScreenOf
      <3>3. SettledOn(R, v, row, column + 1, screen)
        BY <3>1, <3>2, <2>1, <1>1, <1>6, <1>7
      <3> QED BY <3>1, <3>3, <2>1, <1>1, <1>2
    <2> QED BY <2>1, <2>2, <1>1, Onwards
  <1>8. CASE Wrap(t)
    <2>1. pc[t] = "wrap" /\ column' = 0 /\ row' = Word(row + 1) /\ NextChar(t)
      BY <1>8 DEF Wrap
    <2>2. ASSUME ~ torn PROVE SettledOn(Place', text', row', column', screen')
      <3>1. c # Newline /\ \E s : /\ DOMAIN s = Cells /\ RoomOn(P, z, row, VGA_WIDTH - 1, s)
                                  /\ screen = PutEntry(s, c, VGA_WIDTH - 1, row)
        BY <2>1, <2>2, <1>2, <1>4 DEF ScreenOf
      <3>2. VGA_WIDTH - 1 \in Nat /\ (VGA_WIDTH - 1) + 1 = VGA_WIDTH
        BY <1>1
      <3>3. SettledOn(R, v, row + 1, 0, screen)
        BY <3>1, <3>2, <2>1, <1>1, <1>6
      <3>4. row < VGA_HEIGHT
        BY <2>1, <2>2, <1>4 DEF At
      <3>5. row' = row + 1
        BY <3>4, <2>1, <1>1, WordNext
      <3> QED BY <3>3, <3>5, <2>1, <1>1, <1>2
    <2> QED BY <2>1, <2>2, <1>1, Onwards
  <1> QED BY <1>5, <1>7, <1>8

\* terminal_putchar() at one go shows a character as its steps do.
LEMMA PutCharShows ==
    ASSUME NEW P, NEW t, NEW c, NEW R, NEW u, Grows(P, t, c, R, u),
           NEW y \in Nat, NEW x \in Nat, NEW s, DOMAIN s = Cells, SettledOn(P, t, y, x, s),
           NEW v, v = PutChar([row |-> y, column |-> x, screen |-> s], c)
    PROVE  SettledOn(R, u, v.row, v.column, v.screen)
  <1>1. VGA_HEIGHT \in Nat \ {0, 1} /\ VGA_WIDTH \in Nat \ {0} /\ PlaceFacts(P, t)
    BY TerminalAssumption DEF Grows
  <1>2. PICK a, b, z :
          /\ a \in Nat /\ b \in Nat /\ DOMAIN z = Cells /\ RoomOn(P, t, a, b, z)
          /\ [row |-> a, column |-> b, screen |-> z] =
                IF y = VGA_HEIGHT THEN [row |-> VGA_HEIGHT - 1, column |-> 0, screen |-> Scrolled(s)]
                ELSE [row |-> y, column |-> x, screen |-> s]
    <2>1. CASE y = VGA_HEIGHT
      <3>1. RoomOn(P, t, VGA_HEIGHT - 1, 0, Scrolled(s))
        BY <2>1, <1>1, RoomMade
      <3>2. VGA_HEIGHT - 1 \in Nat /\ 0 \in Nat /\ DOMAIN Scrolled(s) = Cells
        BY <1>1 DEF Scrolled
      <3> QED BY <3>1, <3>2, <2>1
    <2>2. CASE y # VGA_HEIGHT
      <3>1. RoomOn(P, t, y, x, s)
        BY <2>2, <1>1, RoomMade
      <3> QED BY <3>1, <2>2
    <2> QED BY <2>1, <2>2
  <1>3. Word(a + 1) = a + 1 /\ Word(b + 1) = b + 1
    <2>1. a < VGA_HEIGHT /\ b < VGA_WIDTH
      BY <1>2, RoomInside
    <2>2. Word(a + 1) = a + 1
      BY <2>1, <1>1, <1>2, WordNext
    <2>3. Word(b + 1) = b + 1
      BY <2>1, <1>1, <1>2, WordNext
    <2> QED BY <2>2, <2>3
  <1> DEFINE w == [row |-> a, column |-> b, screen |-> z]
  <1>4. v = CASE c = Newline /\ Word(w.row + 1) = VGA_HEIGHT ->
                   [w EXCEPT !.column = 0, !.screen = Scrolled(w.screen)]
              [] c = Newline /\ Word(w.row + 1) # VGA_HEIGHT ->
                   [w EXCEPT !.column = 0, !.row = Word(@ + 1)]
              [] c # Newline ->
                   LET wraps == Word(w.column + 1) = VGA_WIDTH IN
                   [row |-> IF wraps THEN Word(w.row + 1) ELSE w.row,
                    column |-> IF wraps THEN 0 ELSE Word(w.column + 1),
                    screen |-> PutEntry(w.screen, c, w.column, w.row)]
    <2>1. w = IF [row |-> y, column |-> x, screen |-> s].row = VGA_HEIGHT
              THEN [row |-> VGA_HEIGHT - 1, column |-> 0,
                    screen |-> Scrolled([row |-> y, column |-> x, screen |-> s].screen)]
              ELSE [row |-> y, column |-> x, screen |-> s]
      BY <1>2
    <2> HIDE DEF w
    <2> QED BY <2>1 DEF PutChar
  <1>5. CASE c = Newline /\ a + 1 = VGA_HEIGHT
    <2>1. v.row = a /\ v.column = 0 /\ v.screen = Scrolled(z)
      BY <1>3, <1>4, <1>5
    <2>2. SettledOn(R, u, a, 0, Scrolled(z))
      BY <1>2, <1>5, NewlineDone
    <2> QED BY <2>1, <2>2
  <1>6. CASE c = Newline /\ a + 1 # VGA_HEIGHT
    <2>1. v.row = a + 1 /\ v.column = 0 /\ v.screen = z
      BY <1>3, <1>4, <1>6
    <2>2. SettledOn(R, u, a + 1, 0, z)
      BY <1>2, <1>6, NewlineDone
    <2> QED BY <2>1, <2>2
  <1>7. CASE c # Newline
    <2>1. /\ v.row = (IF b + 1 = VGA_WIDTH THEN a + 1 ELSE a)
          /\ v.column = (IF b + 1 = VGA_WIDTH THEN 0 ELSE b + 1)
          /\ v.screen = PutEntry(z, c, b, a)
      BY <1>3, <1>4, <1>7
    <2>2. /\ b + 1 = VGA_WIDTH => SettledOn(R, u, a + 1, 0, PutEntry(z, c, b, a))
          /\ b + 1 # VGA_WIDTH => SettledOn(R, u, a, b + 1, PutEntry(z, c, b, a))
      BY <1>2, <1>7, CharDone
    <2> QED BY <2>1, <2>2
  <1> QED BY <1>5, <1>6, <1>7

\* A key is echoed.
LEMMA KeyScreen ==
    ASSUME IInv, ScreenInv, NEW scancode \in DOMAIN kbdus, KeyPressed(scancode)
    PROVE  ScreenInv'
  <1>1. PICK c : c = kbdus[scancode]
    OBVIOUS
  <1>2. PICK v : v = PutChar([row |-> row, column |-> column, screen |-> screen], c)
    OBVIOUS
  <1>3. /\ row' = v.row /\ column' = v.column /\ screen' = v.screen
        /\ text' = Append(text, c) /\ pc' = pc
    BY <1>1, <1>2 DEF KeyPressed, thread
  <1>4. torn' = (torn \/ \E u \in Writers : pc[u] \in Inside)
    BY DEF KeyPressed
  <1>5. PlaceFacts(Place, text) /\ Grows(Place, text, c, Place', text') /\ PlaceFacts(Place, text)'
    BY <1>3, TextGrows DEF ScreenInv
  <1>6. ASSUME ~ torn' PROVE ScreenAt'
    <2>1. ~ torn /\ Settled
      BY <1>4, <1>6, Zenon DEF Settled
    <2>2. SettledOn(Place, text, row, column, screen)
      BY <2>1 DEF ScreenInv, ScreenAt
    <2>3. row \in Nat /\ column \in Nat /\ DOMAIN screen = Cells
      BY Sizes DEF IInv, Typed, TypeOK
    <2>4. ASSUME NEW P, NEW t, NEW R, NEW u, Grows(P, t, c, R, u),
                 NEW y \in Nat, NEW x \in Nat, NEW s, DOMAIN s = Cells, SettledOn(P, t, y, x, s),
                 v = PutChar([row |-> y, column |-> x, screen |-> s], c)
          PROVE  SettledOn(R, u, v.row, v.column, v.screen)
      BY <2>4, PutCharShows
    <2>5. SettledOn(Place', text', v.row, v.column, v.screen)
      BY <2>2, <2>3, <2>4, <1>2, <1>5
    <2>6. SettledOn(Place', text', row', column', screen') /\ \A u \in Writers : pc'[u] \notin Inside
      BY <2>1, <2>5, <1>3 DEF Settled
    <2> QED BY <2>6 DEF ScreenAt
  <1> QED BY <1>5, <1>6 DEF ScreenInv

\* A step of terminal_write() away from terminal_putchar().
LEMMA MoveScreen ==
    ASSUME IInv, ScreenInv, NEW t \in Writers,
           \/ \E str \in Strings : Write(t, str)
           \/ MoveCursor(t) \/ MoveCursorAdd(t) \/ send_high(t) \/ send_low(t)
    PROVE  ScreenInv'
  <1>1. /\ UNCHANGED <<row, column, screen, text, torn>>
        /\ \E label \in Labels : Jump(t, label) /\ label \notin Inside
        /\ pc[t] \notin Inside
    BY DEF Write, MoveCursor, MoveCursorAdd, send_high, send_low, Select, Send, history,
           Labels, Inside, Moving
  <1>2. \A u \in Writers : u # t => todo'[u] = todo[u]
    BY DEF Write, MoveCursor, MoveCursorAdd, send_high, send_low, Select, Send,
           IInv, Typed, TypeOK
  <1>3. Typed
    BY DEF IInv
  <1>4. pc'[t] \notin Inside /\ \A u \in Writers : u # t => pc'[u] = pc[u]
    BY <1>1, <1>3, JumpFacts
  <1> QED BY <1>1, <1>2, <1>4, QuietScreen

\* Every step keeps what the screen shows.
LEMMA NextScreen == IInv /\ ScreenInv /\ [Next]_vars => ScreenInv'
  <1> SUFFICES ASSUME IInv, ScreenInv, [Next]_vars PROVE ScreenInv'
    OBVIOUS
  <1>1. CASE UNCHANGED vars
    <2>1. UNCHANGED <<row, column, screen, pc, todo, text, torn>>
      BY <1>1 DEF vars, thread, history
    <2>2. Place' = Place
      BY <2>1, SameText
    <2>3. PlaceFacts(Place, text)'
      BY <2>1, <2>2 DEF ScreenInv, PlaceFacts, IsPlaces
    <2>4. ScreenAt => ScreenAt'
      BY <2>1, <2>2 DEF ScreenAt, ScreenOf, Settled
    <2> QED BY <2>1, <2>3, <2>4 DEF ScreenInv
  <1>2. ASSUME NEW t \in Writers, (\E str \in Strings : Write(t, str)) \/ Step(t) PROVE ScreenInv'
    BY <1>2, FullScreen, PutScreen, NewlineScreen, ColumnScreen, MoveScreen DEF Step
  <1>3. CASE \E scancode \in DOMAIN kbdus : KeyPressed(scancode)
    BY <1>3, KeyScreen
  <1>4. CASE \E scancode \in Released : KeyReleased(scancode)
    BY <1>4, <1>1 DEF KeyReleased
  <1> QED BY <1>1, <1>2, <1>3, <1>4 DEF Next

\* Between two characters the screen shows the end of the text.
LEMMA SettledIsShown ==
    ASSUME IInv, ScreenInv
    PROVE  ScreenShowsText
  <1> SUFFICES ASSUME ~ torn, Settled
               PROVE  /\ \A i \in Cells : screen[i] = Sheet(TopLine * VGA_WIDTH + i)
                      /\ Index(column, row) = Place[Len(text)] - TopLine * VGA_WIDTH
    BY DEF ScreenShowsText
  <1>1. SettledOn(Place, text, row, column, screen)
    BY DEF ScreenInv, ScreenAt
  <1>2. PICK q \in Nat, r \in 0 .. (VGA_WIDTH - 1), top \in Nat :
          /\ Place[Len(text)] = q * VGA_WIDTH + r
          /\ top = TopOf(IF WaitsOn(Place, text) THEN q - 1 ELSE q)
          /\ column = r /\ row + top = q
          /\ Shows(Place, text, screen, top)
    BY <1>1 DEF SettledOn
  <1>3. /\ VGA_WIDTH \in Nat \ {0} /\ VGA_HEIGHT \in Nat \ {0, 1} /\ row \in Nat
        /\ column \in Nat /\ column < VGA_WIDTH /\ row <= VGA_HEIGHT
    BY Sizes DEF IInv, Typed, TypeOK, InPlace
  <1>4. Place[Len(text)] \div VGA_WIDTH = q
    BY <1>2, LineAndColumn
  <1>5. PICK l \in Int : l = IF WaitsOn(Place, text) THEN q - 1 ELSE q
    OBVIOUS
  <1>6. TopLine = Max({0, l - (VGA_HEIGHT - 1)})
    BY <1>4, <1>5 DEF TopLine, WaitsOn
  <1>7. TopLine = top
    <2>1. \A a \in Int : Max({0, a}) = IF a > 0 THEN a ELSE 0
      <3>1. ASSUME NEW a \in Int PROVE Max({0, a}) = IF a > 0 THEN a ELSE 0
        <4>1. CASE a > 0
          BY <4>1 DEF Max
        <4>2. CASE ~ (a > 0)
          BY <4>2 DEF Max
        <4> QED BY <4>1, <4>2
      <3> QED BY <3>1
    <2>2. top = IF l > VGA_HEIGHT - 1 THEN l - (VGA_HEIGHT - 1) ELSE 0
      BY <1>2, <1>5 DEF TopOf
    <2>3. l - (VGA_HEIGHT - 1) \in Int
      BY <1>3
    <2> QED BY <2>1, <2>2, <2>3, <1>3, <1>6
  <1>8. \A i \in Cells : screen[i] = Sheet(TopLine * VGA_WIDTH + i)
    BY <1>2, <1>7, SheetIs DEF Shows
  <1>9. Index(column, row) = Place[Len(text)] - TopLine * VGA_WIDTH
    <2>1. q * VGA_WIDTH = row * VGA_WIDTH + top * VGA_WIDTH
      <3>1. q = row + top
        BY <1>2, <1>3
      <3> QED BY <3>1, <1>3
    <2>2. row * VGA_WIDTH \in Int /\ top * VGA_WIDTH \in Int
      BY <1>3
    <2>3. Index(column, row) = row * VGA_WIDTH + column
      BY <1>3, IndexInCells
    <2> QED BY <2>1, <2>2, <2>3, <1>2, <1>7
  <1> QED BY <1>8, <1>9

-----------------------------------------------------------------------------
(* The theorems.                                                           *)

\* What holds of row, column and cursor at every place of every thread.
THEOREM Invariant == Spec => []IInv
  <1>1. Init => IInv
    BY InitIInv
  <1>2. IInv /\ [Next]_vars => IInv'
    BY NextIInv
  <1> QED BY <1>1, <1>2, PTL DEF Spec

\* Only a terminal_putchar() that begins within another one, that of a key or of
\* another thread, can take the terminal out of its buffer; the bytes of
\* move_cursor() fit the registers.
THEOREM WritesStayInBuffer == Spec => []StaysInBuffer
  <1>1. IInv => StaysInBuffer
    <2> SUFFICES ASSUME IInv PROVE OnlyTornWritesStray
      BY DEF IInv, Typed, StaysInBuffer
    <2>1. ~ torn => InPlace
      BY DEF IInv
    <2> QED BY <2>1 DEF OnlyTornWritesStray, InPlace
  <1> QED BY <1>1, Invariant, PTL

\* When nobody is writing the cursor is behind the last character, unless a key
\* was echoed or another thread moved the cursor between the first load of the
\* last move_cursor() and its last port write.
THEOREM CursorIsBehindText == Spec => []CursorFollows
  <1>1. IInv => CursorFollows
    BY DEF IInv
  <1> QED BY <1>1, Invariant, PTL

\* The screen shows the last lines of what was written and typed, in the order in
\* which it came, if no terminal_putchar() begins within another one.
THEOREM ScreenIsEndOfText == Spec => []ScreenShowsText
  <1>1. Init => ScreenInv
    BY InitScreen
  <1>2. IInv /\ ScreenInv /\ [Next]_vars => ScreenInv'
    BY NextScreen
  <1>3. IInv /\ ScreenInv => ScreenShowsText
    BY SettledIsShown
  <1> QED BY <1>1, <1>2, <1>3, Invariant, PTL DEF Spec

-----------------------------------------------------------------------------
(* Concatenations: FlattenSeq, prefix by prefix.                           *)

\* The recursive function of FlattenSeq, up to the n-th sequence.
IsFlattened(g, ss, n) == g = [i \in 1 .. n |-> IF i = 1 THEN ss[i] ELSE g[i - 1] \o ss[i]]

\* There is such a function.
LEMMA FlattenedExists ==
    ASSUME NEW n \in Nat, NEW ss
    PROVE  \E g : IsFlattened(g, ss, n)
  <1> DEFINE Bad == {k \in Nat : ~ \E g : IsFlattened(g, ss, k)}
  <1>1. SUFFICES ASSUME Bad # {} PROVE FALSE
    OBVIOUS
  <1>2. PICK k \in Bad : \A j \in Bad : k <= j
    <2>1. Bad \subseteq Nat
      OBVIOUS
    <2> HIDE DEF Bad
    <2> QED BY <1>1, <2>1, LeastElement
  <1>3. k \in Nat /\ ~ \E g : IsFlattened(g, ss, k)
    OBVIOUS
  <1> DEFINE V(i, g) == IF i = 1 THEN ss[i] ELSE g[i - 1] \o ss[i]
  <1>4. k # 0
    <2>1. ASSUME k = 0 PROVE FALSE
      <3>1. PICK g : g = [i \in 1 .. k |-> 0]
        OBVIOUS
      <3>2. 1 .. k = {}
        BY <2>1
      <3> HIDE DEF V
      <3>3. g = [i \in 1 .. k |-> V(i, g)]
        BY <3>1, <3>2
      <3>4. IsFlattened(g, ss, k)
        BY <3>3 DEF IsFlattened, V
      <3> QED BY <3>4, <1>3
    <2> QED BY <2>1
  <1>5. PICK j \in Nat : j = k - 1
    BY <1>3, <1>4
  <1>6. PICK f : IsFlattened(f, ss, j)
    <2>1. ~ (k <= j)
      BY <1>3, <1>5
    <2>2. ~ (j \in Bad)
      BY <1>2, <2>1
    <2> QED BY <2>2
  <1> DEFINE g == [i \in 1 .. k |-> IF i = k THEN V(k, f) ELSE f[i]]
  <1>7. \A i \in 1 .. j : g[i] = f[i] /\ f[i] = V(i, f)
    <2>1. f = [i \in 1 .. j |-> V(i, f)]
      BY <1>6 DEF IsFlattened
    <2> HIDE DEF V
    <2>2. \A i \in 1 .. j : i \in 1 .. k /\ i # k
      BY <1>5
    <2> QED BY <2>1, <2>2
  <1>8. ASSUME NEW i \in 1 .. k PROVE V(i, g) = V(i, f)
    <2>1. CASE i = 1
      BY <2>1
    <2>2. CASE i # 1
      <3>1. g[i - 1] = f[i - 1]
        BY <2>2, <1>5, <1>7
      <3> HIDE DEF g
      <3> QED BY <3>1
    <2> QED BY <2>1, <2>2
  <1>9. ASSUME NEW i \in 1 .. k PROVE g[i] = V(i, g)
    <2>1. CASE i = k
      <3>1. g[i] = V(k, f)
        BY <2>1
      <3> HIDE DEF g, V
      <3> QED BY <3>1, <2>1, <1>8
    <2>2. CASE i # k
      <3>1. i \in 1 .. j
        BY <2>2, <1>5
      <3> HIDE DEF g, V
      <3> QED BY <3>1, <1>7, <1>8
    <2> QED BY <2>1, <2>2
  <1>10. g = [i \in 1 .. k |-> g[i]]
    OBVIOUS
  <1> HIDE DEF g
  <1>11. g = [i \in 1 .. k |-> V(i, g)]
    <2> HIDE DEF V
    <2> QED BY <1>9, <1>10
  <1>12. IsFlattened(g, ss, k)
    BY <1>11 DEF IsFlattened
  <1> QED BY <1>12, <1>3

\* The first k sequences of ss, one behind the other.
Joined(ss, k) == IF k = 0 THEN <<>> ELSE (CHOOSE g : IsFlattened(g, ss, Len(ss)))[k]

\* FlattenSeq joins them all.
LEMMA FlattenIsJoined ==
    ASSUME NEW S, NEW ss \in Seq(S)
    PROVE  FlattenSeq(ss) = Joined(ss, Len(ss))
  <1>1. CASE Len(ss) = 0
    <2>1. ss = <<>>
      BY <1>1, EmptySeq
    <2> QED BY <1>1, <2>1 DEF FlattenSeq, Joined
  <1>2. CASE Len(ss) # 0
    <2>1. FlattenSeq(ss) = (CHOOSE g : IsFlattened(g, ss, Len(ss)))[Len(ss)]
      BY <1>2, Zenon DEF FlattenSeq, IsFlattened
    <2> QED BY <2>1, <1>2 DEF Joined
  <1> QED BY <1>1, <1>2

\* Each adds its own elements.
LEMMA JoinedStep ==
    ASSUME NEW S, NEW ss \in Seq(Seq(S))
    PROVE  /\ Joined(ss, 0) = <<>>
           /\ \A k \in 1 .. Len(ss) : Joined(ss, k) = Joined(ss, k - 1) \o ss[k]
  <1> DEFINE n == Len(ss)
  <1>1. n \in Nat
    BY LenProperties
  <1>2. PICK g : g = CHOOSE h : IsFlattened(h, ss, n)
    OBVIOUS
  <1>3. IsFlattened(g, ss, n)
    BY <1>1, <1>2, FlattenedExists, Zenon
  <1>4. \A k \in 1 .. n : g[k] = IF k = 1 THEN ss[k] ELSE g[k - 1] \o ss[k]
    <2>1. g = [i \in 1 .. n |-> IF i = 1 THEN ss[i] ELSE g[i - 1] \o ss[i]]
      BY <1>3, Zenon DEF IsFlattened
    <2> QED BY <2>1, Zenon
  <1>5. \A k \in 1 .. n : Joined(ss, k) = g[k]
    BY <1>1, <1>2 DEF Joined
  <1>6. ASSUME NEW k \in 1 .. n PROVE Joined(ss, k) = Joined(ss, k - 1) \o ss[k]
    <2>1. Joined(ss, k) = g[k] /\ k \in Nat
      BY <1>5
    <2>2. CASE k = 1
      <3>1. ss[k] \in Seq(S) /\ k - 1 = 0
        BY <2>2, ElementOfSeq
      <3>2. Joined(ss, k - 1) = <<>> /\ Joined(ss, k) = ss[k]
        BY <3>1, <2>1, <2>2, <1>4 DEF Joined
      <3> QED BY <3>1, <3>2, ConcatEmptySeq
    <2>3. CASE k # 1
      <3>1. k - 1 \in 1 .. n
        BY <2>3, <1>1
      <3>2. g[k] = g[k - 1] \o ss[k]
        BY <2>3, <1>4, Zenon
      <3> QED BY <3>1, <3>2, <2>1, <1>5
    <2> QED BY <2>2, <2>3
  <1>7. Joined(ss, 0) = <<>>
    BY DEF Joined
  <1> QED BY <1>6, <1>7

\* They are sequences, whose lengths add up.
LEMMA JoinedType ==
    ASSUME NEW S, NEW ss \in Seq(Seq(S))
    PROVE  /\ \A k \in 0 .. Len(ss) : Joined(ss, k) \in Seq(S) /\ Len(Joined(ss, k)) \in Nat
           /\ \A k \in 1 .. Len(ss) :
                /\ ss[k] \in Seq(S) /\ Len(ss[k]) \in Nat
                /\ Len(Joined(ss, k)) = Len(Joined(ss, k - 1)) + Len(ss[k])
  <1> DEFINE n == Len(ss)
             Bad == {k \in 0 .. n : Joined(ss, k) \notin Seq(S)}
  <1>1. n \in Nat /\ \A k \in 1 .. n : ss[k] \in Seq(S) /\ Len(ss[k]) \in Nat
    BY LenProperties, ElementOfSeq
  <1>2. Bad = {}
    <2>1. SUFFICES ASSUME Bad # {} PROVE FALSE
      OBVIOUS
    <2>2. PICK k \in Bad : \A j \in Bad : k <= j
      <3>1. Bad \subseteq Nat
        OBVIOUS
      <3> HIDE DEF Bad
      <3> QED BY <2>1, <3>1, LeastElement
    <2>3. k # 0
      <3>1. Joined(ss, 0) \in Seq(S)
        BY EmptySeq DEF Joined
      <3>2. Joined(ss, k) \notin Seq(S)
        OBVIOUS
      <3> QED BY <3>1, <3>2, Zenon
    <2>4. k \in 1 .. n /\ k - 1 \in 0 .. n /\ ~ (k <= k - 1)
      BY <2>3, <1>1
    <2>5. Joined(ss, k - 1) \in Seq(S)
      BY <2>2, <2>4
    <2>6. Joined(ss, k) = Joined(ss, k - 1) \o ss[k]
      BY <2>4, JoinedStep
    <2>7. Joined(ss, k) \in Seq(S)
      BY <2>4, <2>5, <2>6, <1>1, ConcatProperties
    <2> QED BY <2>7
  <1>3. \A k \in 0 .. n : Joined(ss, k) \in Seq(S) /\ Len(Joined(ss, k)) \in Nat
    BY <1>2, LenProperties
  <1>4. ASSUME NEW k \in 1 .. n PROVE Len(Joined(ss, k)) = Len(Joined(ss, k - 1)) + Len(ss[k])
    <2>1. k - 1 \in 0 .. n
      BY <1>1
    <2>2. Joined(ss, k) = Joined(ss, k - 1) \o ss[k]
      BY JoinedStep
    <2> QED BY <2>1, <2>2, <1>1, <1>3, ConcatProperties
  <1> QED BY <1>1, <1>3, <1>4

\* What is joined stays where it is.
LEMMA JoinedPrefix ==
    ASSUME NEW S, NEW ss \in Seq(Seq(S)), NEW k \in 0 .. Len(ss), NEW m \in k .. Len(ss)
    PROVE  /\ Len(Joined(ss, k)) <= Len(Joined(ss, m))
           /\ \A i \in 1 .. Len(Joined(ss, k)) : Joined(ss, m)[i] = Joined(ss, k)[i]
  <1> DEFINE n == Len(ss)
             P(x) == /\ Len(Joined(ss, k)) <= Len(Joined(ss, x))
                     /\ \A i \in 1 .. Len(Joined(ss, k)) : Joined(ss, x)[i] = Joined(ss, k)[i]
             Bad == {x \in k .. n : ~ P(x)}
  <1>1. n \in Nat /\ k \in Nat
    BY LenProperties
  <1>2. P(k)
    BY JoinedType
  <1>3. Bad = {}
    <2>1. SUFFICES ASSUME Bad # {} PROVE FALSE
      OBVIOUS
    <2>2. PICK x \in Bad : \A j \in Bad : x <= j
      <3>1. Bad \subseteq Nat
        BY <1>1
      <3> HIDE DEF Bad
      <3> QED BY <2>1, <3>1, LeastElement
    <2>3. x # k
      BY <1>2
    <2>4. x - 1 \in k .. n /\ ~ (x <= x - 1) /\ x \in 1 .. n /\ x - 1 \in 0 .. n
      BY <2>3, <1>1
    <2>5. P(x - 1)
      BY <2>2, <2>4
    <2> DEFINE a == Joined(ss, x - 1)
               b == ss[x]
               c == Joined(ss, k)
    <2>6. a \in Seq(S) /\ b \in Seq(S) /\ Len(c) \in Nat /\ Joined(ss, x) = a \o b
          /\ Len(a) \in Nat /\ Len(b) \in Nat
      BY <2>4, <1>1, JoinedType, JoinedStep
    <2>7. Len(c) <= Len(a) /\ \A i \in 1 .. Len(c) : a[i] = c[i]
      BY <2>5
    <2> HIDE DEF a, b, c
    <2>8. Len(a \o b) = Len(a) + Len(b) /\ \A i \in 1 .. Len(a) : (a \o b)[i] = a[i]
      BY <2>6, ConcatProperties
    <2>9. Len(c) <= Len(a \o b) /\ \A i \in 1 .. Len(c) : (a \o b)[i] = c[i]
      BY <2>6, <2>7, <2>8
    <2>10. P(x)
      BY <2>6, <2>9 DEF c
    <2> QED BY <2>10
  <1> QED BY <1>3

\* Where the elements of the k-th sequence are in the whole.
LEMMA JoinedPart ==
    ASSUME NEW S, NEW ss \in Seq(Seq(S)), NEW k \in 1 .. Len(ss)
    PROVE  /\ Len(Joined(ss, k - 1)) + Len(ss[k]) <= Len(Joined(ss, Len(ss)))
           /\ \A j \in 1 .. Len(ss[k]) :
                Joined(ss, Len(ss))[Len(Joined(ss, k - 1)) + j] = ss[k][j]
  <1> DEFINE n == Len(ss)
             a == Joined(ss, k - 1)
             b == ss[k]
             f == Joined(ss, n)
  <1>1. n \in Nat /\ k \in Nat /\ k - 1 \in 0 .. n /\ k \in 0 .. n /\ n \in k .. n
    BY LenProperties
  <1>2. /\ a \in Seq(S) /\ b \in Seq(S) /\ Joined(ss, k) = a \o b
        /\ Len(a) \in Nat /\ Len(b) \in Nat /\ Len(f) \in Nat
    <2>1. Joined(ss, k) = a \o b
      BY <1>1, JoinedStep
    <2>2. n \in 0 .. n
      BY <1>1
    <2>3. Len(f) \in Nat /\ a \in Seq(S) /\ Len(a) \in Nat
      BY <2>2, <1>1, JoinedType
    <2>4. b \in Seq(S) /\ Len(b) \in Nat
      BY <1>1, JoinedType
    <2> QED BY <2>1, <2>3, <2>4
  <1>3. /\ Len(Joined(ss, k)) <= Len(f)
        /\ \A i \in 1 .. Len(Joined(ss, k)) : f[i] = Joined(ss, k)[i]
    BY <1>1, JoinedPrefix
  <1> HIDE DEF a, b, f
  <1>4. Len(a \o b) = Len(a) + Len(b) /\ \A j \in 1 .. Len(b) : (a \o b)[Len(a) + j] = b[j]
    BY <1>2, ConcatProperties
  <1>5. \A j \in 1 .. Len(b) : Len(a) + j \in 1 .. (Len(a) + Len(b))
    BY <1>2
  <1>6. Len(a) + Len(b) <= Len(f) /\ \A j \in 1 .. Len(b) : f[Len(a) + j] = b[j]
    BY <1>2, <1>3, <1>4, <1>5
  <1> QED BY <1>6 DEF a, b, f

-----------------------------------------------------------------------------
(* itoa() and numerals.                                                    *)

\* One turn of the loop of itoa(), on the digits g of smaller numbers.
ItoaTurn(g, v) == IF v = 0 THEN <<>> ELSE Append(g[v \div 10], Digit(v % 10))

\* Its recursive function, on a set of numbers.
IsItoa(g, D) == g = [v \in D |-> ItoaTurn(g, v)]

\* The quotient is a smaller number.
LEMMA Tenth ==
    ASSUME NEW v \in Nat
    PROVE  /\ v \div 10 \in Nat /\ v % 10 \in 0 .. 9
           /\ v # 0 => v \div 10 < v /\ v \div 10 <= v - 1
           /\ v = 10 * (v \div 10) + (v % 10)
  OBVIOUS

\* There is such a function up to any number
LEMMA ItoaUpTo ==
    ASSUME NEW n \in Nat
    PROVE  \E g : IsItoa(g, 0 .. n)
  <1> DEFINE Bad == {k \in Nat : ~ \E g : IsItoa(g, 0 .. k)}
  <1>1. SUFFICES ASSUME Bad # {} PROVE FALSE
    OBVIOUS
  <1>2. PICK k \in Bad : \A j \in Bad : k <= j
    <2>1. Bad \subseteq Nat
      OBVIOUS
    <2> HIDE DEF Bad
    <2> QED BY <1>1, <2>1, LeastElement
  <1>3. k \in Nat /\ ~ \E g : IsItoa(g, 0 .. k)
    OBVIOUS
  <1>4. k # 0
    <2>1. ASSUME k = 0 PROVE FALSE
      <3>1. PICK g : g = [v \in 0 .. k |-> <<>>]
        OBVIOUS
      <3>2. \A v \in 0 .. k : ItoaTurn(g, v) = <<>>
        BY <2>1 DEF ItoaTurn
      <3>3. g = [v \in 0 .. k |-> ItoaTurn(g, v)]
        BY <3>1, <3>2
      <3> QED BY <3>3, <1>3 DEF IsItoa
    <2> QED BY <2>1
  <1>5. PICK j \in Nat : j = k - 1
    BY <1>3, <1>4
  <1>6. PICK f : IsItoa(f, 0 .. j)
    <2>1. ~ (k <= j)
      BY <1>3, <1>5
    <2>2. ~ (j \in Bad)
      BY <1>2, <2>1
    <2> QED BY <2>2
  <1> DEFINE g == [v \in 0 .. k |-> IF v = k THEN ItoaTurn(f, k) ELSE f[v]]
  <1>7. \A v \in 0 .. j : g[v] = f[v] /\ f[v] = ItoaTurn(f, v)
    <2>1. f = [v \in 0 .. j |-> ItoaTurn(f, v)]
      BY <1>6 DEF IsItoa
    <2>2. \A v \in 0 .. j : v \in 0 .. k /\ v # k
      BY <1>5
    <2> QED BY <2>1, <2>2
  <1>8. ASSUME NEW v \in 0 .. k PROVE ItoaTurn(g, v) = ItoaTurn(f, v)
    <2>1. v \in Nat /\ (v # 0 => v \div 10 \in 0 .. j)
      BY <1>5, Tenth
    <2>2. v # 0 => g[v \div 10] = f[v \div 10]
      BY <2>1, <1>7
    <2> HIDE DEF g
    <2> QED BY <2>2, Zenon DEF ItoaTurn
  <1>9. ASSUME NEW v \in 0 .. k PROVE g[v] = ItoaTurn(g, v)
    <2>1. CASE v = k
      <3>1. g[v] = ItoaTurn(f, k)
        BY <2>1
      <3> HIDE DEF g
      <3> QED BY <3>1, <2>1, <1>8
    <2>2. CASE v # k
      <3>1. v \in 0 .. j
        BY <2>2, <1>5
      <3> HIDE DEF g
      <3> QED BY <3>1, <1>7, <1>8
    <2> QED BY <2>1, <2>2
  <1>10. g = [v \in 0 .. k |-> g[v]]
    OBVIOUS
  <1> HIDE DEF g
  <1>11. g = [v \in 0 .. k |-> ItoaTurn(g, v)]
    BY <1>9, <1>10
  <1> QED BY <1>11, <1>3 DEF IsItoa

\* and only one
LEMMA ItoaOnce ==
    ASSUME NEW n \in Nat, NEW m \in Nat, NEW g, NEW h, IsItoa(g, 0 .. n), IsItoa(h, 0 .. m),
           NEW v \in Nat, v <= n, v <= m
    PROVE  g[v] = h[v]
  <1> DEFINE Bad == {x \in Nat : x <= n /\ x <= m /\ g[x] # h[x]}
  <1>1. SUFFICES ASSUME Bad # {} PROVE FALSE
    OBVIOUS
  <1>2. PICK x \in Bad : \A y \in Bad : x <= y
    <2>1. Bad \subseteq Nat
      OBVIOUS
    <2> HIDE DEF Bad
    <2> QED BY <1>1, <2>1, LeastElement
  <1>3. x \in Nat /\ x <= n /\ x <= m /\ g[x] # h[x]
    OBVIOUS
  <1>4. g[x] = ItoaTurn(g, x) /\ h[x] = ItoaTurn(h, x)
    <2>1. x \in 0 .. n /\ x \in 0 .. m
      BY <1>3
    <2>2. g = [y \in 0 .. n |-> ItoaTurn(g, y)] /\ h = [y \in 0 .. m |-> ItoaTurn(h, y)]
      BY Zenon DEF IsItoa
    <2> QED BY <2>1, <2>2, Zenon
  <1>5. x # 0
    BY <1>3, <1>4 DEF ItoaTurn
  <1>6. g[x \div 10] = h[x \div 10]
    <2>1. x \div 10 \in Nat /\ x \div 10 <= n /\ x \div 10 <= m /\ ~ (x <= x \div 10)
      BY <1>3, <1>5, Tenth
    <2>2. ~ (x \div 10 \in Bad)
      BY <1>2, <2>1
    <2> QED BY <2>1, <2>2
  <1> QED BY <1>3, <1>4, <1>5, <1>6, Zenon DEF ItoaTurn

\* and so one for all numbers.
LEMMA ItoaStep == \A v \in Nat : itoa[v] = ItoaTurn(itoa, v)
  <1> DEFINE F(n) == CHOOSE g : IsItoa(g, 0 .. n)
             g == [n \in Nat |-> F(n)[n]]
  <1>1. \A n \in Nat : IsItoa(F(n), 0 .. n)
    BY ItoaUpTo, Zenon
  <1> HIDE DEF F
  <1>2. \A n \in Nat : g[n] = F(n)[n]
    OBVIOUS
  <1>3. ASSUME NEW n \in Nat PROVE g[n] = ItoaTurn(g, n)
    <2>1. F(n) = [v \in 0 .. n |-> ItoaTurn(F(n), v)]
      BY <1>1, Zenon DEF IsItoa
    <2>2. n \in 0 .. n
      OBVIOUS
    <2>3. g[n] = ItoaTurn(F(n), n)
      BY <2>1, <2>2, <1>2, Zenon
    <2>4. n # 0 => F(n)[n \div 10] = g[n \div 10]
      <3>1. n \div 10 \in Nat /\ (n # 0 => n \div 10 <= n)
        BY Tenth
      <3>2. ASSUME n # 0 PROVE F(n)[n \div 10] = F(n \div 10)[n \div 10]
        <4>1. IsItoa(F(n), 0 .. n) /\ IsItoa(F(n \div 10), 0 .. (n \div 10))
          BY <3>1, <1>1
        <4>2. n \div 10 <= n /\ n \div 10 <= n \div 10
          BY <3>1, <3>2
        <4> QED BY <3>1, <4>1, <4>2, ItoaOnce
      <3> QED BY <3>1, <3>2, <1>2
    <2> HIDE DEF g
    <2> QED BY <2>3, <2>4, Zenon DEF ItoaTurn
  <1>4. IsItoa(g, Nat)
    <2>1. g = [n \in Nat |-> g[n]]
      OBVIOUS
    <2> HIDE DEF g
    <2>2. g = [n \in Nat |-> ItoaTurn(g, n)]
      BY <2>1, <1>3
    <2> QED BY <2>2 DEF IsItoa
  <1>5. itoa = CHOOSE h : IsItoa(h, Nat)
    BY Zenon DEF itoa, IsItoa, ItoaTurn
  <1>6. IsItoa(itoa, Nat)
    BY <1>4, <1>5, Zenon
  <1>7. itoa = [v \in Nat |-> ItoaTurn(itoa, v)]
    BY <1>6, Zenon DEF IsItoa
  <1> QED BY <1>7, Zenon

\* The powers of ten, and what dividing by ten does to a comparison with one.
LEMMA Powers ==
    /\ \A p \in 1 .. 10 : PowersOfTen[p] \in Nat /\ PowersOfTen[p] > 0
    /\ PowersOfTen[1] = 1
    /\ \A p \in 1 .. 9 : PowersOfTen[p + 1] = 10 * PowersOfTen[p]
  <1>1. /\ PowersOfTen[1] = 1 /\ PowersOfTen[2] = 10 /\ PowersOfTen[3] = 100
        /\ PowersOfTen[4] = 1000 /\ PowersOfTen[5] = 10000 /\ PowersOfTen[6] = 100000
        /\ PowersOfTen[7] = 1000000 /\ PowersOfTen[8] = 10000000
        /\ PowersOfTen[9] = 100000000 /\ PowersOfTen[10] = 1000000000
    BY SMTT(30) DEF PowersOfTen
  <1>2. \A p \in 1 .. 10 : \/ p = 1 \/ p = 2 \/ p = 3 \/ p = 4 \/ p = 5 \/ p = 6 \/ p = 7
                           \/ p = 8 \/ p = 9 \/ p = 10
    OBVIOUS
  <1>3. \A p \in 1 .. 10 : PowersOfTen[p] \in Nat /\ PowersOfTen[p] > 0
    BY <1>1, <1>2, SMTT(30)
  <1>4. \A p \in 1 .. 9 : PowersOfTen[p + 1] = 10 * PowersOfTen[p]
    BY <1>1, <1>2, SMTT(30)
  <1> QED BY <1>1, <1>3, <1>4, SMTT(30)

LEMMA PowersGrow ==
    ASSUME NEW p \in 1 .. 10, NEW q \in 1 .. p
    PROVE  PowersOfTen[q] <= PowersOfTen[p]
  <1> DEFINE Bad == {x \in Nat : x \in q .. 10 /\ ~ (PowersOfTen[q] <= PowersOfTen[x])}
  <1>1. SUFFICES ASSUME Bad # {} PROVE FALSE
    OBVIOUS
  <1>2. PICK x \in Bad : \A y \in Bad : x <= y
    <2>1. Bad \subseteq Nat
      OBVIOUS
    <2> HIDE DEF Bad
    <2> QED BY <1>1, <2>1, LeastElement
  <1>3. x \in q .. 10 /\ ~ (PowersOfTen[q] <= PowersOfTen[x])
    OBVIOUS
  <1>4. x # q
    BY <1>3, Powers
  <1>5. x - 1 \in q .. 10 /\ x - 1 \in 1 .. 9 /\ ~ (x <= x - 1) /\ x - 1 \in Nat /\ (x - 1) + 1 = x
    BY <1>3, <1>4
  <1>6. PowersOfTen[q] <= PowersOfTen[x - 1]
    BY <1>2, <1>5
  <1>7. PowersOfTen[x] = 10 * PowersOfTen[x - 1] /\ PowersOfTen[x - 1] \in Nat /\ PowersOfTen[q] \in Nat
    BY <1>5, Powers
  <1> QED BY <1>3, <1>6, <1>7

\* Division by 10 P is division by 10 and by P.
LEMMA DivTenTimes ==
    ASSUME NEW v \in Nat, NEW p \in 1 .. 9
    PROVE  /\ (v \div 10) \div PowersOfTen[p] = v \div PowersOfTen[p + 1]
           /\ PowersOfTen[p] <= v \div 10 <=> PowersOfTen[p + 1] <= v
  <1>1. /\ PowersOfTen[1] = 1 /\ PowersOfTen[2] = 10 /\ PowersOfTen[3] = 100
        /\ PowersOfTen[4] = 1000 /\ PowersOfTen[5] = 10000 /\ PowersOfTen[6] = 100000
        /\ PowersOfTen[7] = 1000000 /\ PowersOfTen[8] = 10000000
        /\ PowersOfTen[9] = 100000000 /\ PowersOfTen[10] = 1000000000
    BY SMTT(30) DEF PowersOfTen
  <1>2. \/ p = 1 \/ p = 2 \/ p = 3 \/ p = 4 \/ p = 5 \/ p = 6 \/ p = 7 \/ p = 8 \/ p = 9
    OBVIOUS
  <1>3. PowersOfTen[p] <= v \div 10 <=> PowersOfTen[p + 1] <= v
    BY Powers
  <1>4. CASE p = 1
    BY <1>1, <1>3, <1>4, SMTT(30)
  <1>5. CASE p = 2
    BY <1>1, <1>3, <1>5, SMTT(30)
  <1>6. CASE p = 3
    BY <1>1, <1>3, <1>6, SMTT(30)
  <1>7. CASE p = 4
    BY <1>1, <1>3, <1>7, SMTT(30)
  <1>8. CASE p = 5
    BY <1>1, <1>3, <1>8, SMTT(30)
  <1>9. CASE p = 6
    BY <1>1, <1>3, <1>9, SMTT(30)
  <1>10. CASE p = 7
    BY <1>1, <1>3, <1>10, SMTT(30)
  <1>11. CASE p = 8
    BY <1>1, <1>3, <1>11, SMTT(30)
  <1>12. CASE p = 9
    BY <1>1, <1>3, <1>12, SMTT(30)
  <1> QED BY <1>2, <1>4, <1>5, <1>6, <1>7, <1>8, <1>9, <1>10, <1>11, <1>12

\* The powers up to a number are the first ones, as many as it has digits.
Digits(v) == Cardinality({p \in 1 .. 10 : PowersOfTen[p] <= v})

LEMMA DigitsFacts ==
    ASSUME NEW v \in Nat
    PROVE  /\ Digits(v) \in 0 .. 10
           /\ \A p \in 1 .. 10 : PowersOfTen[p] <= v <=> p <= Digits(v)
  <1> DEFINE D == {p \in 1 .. 10 : PowersOfTen[p] <= v}
  <1>1. PICK k \in 0 .. 10 : D = 1 .. k
    <2>1. CASE D = {}
      <3>1. D = 1 .. 0
        BY <2>1
      <3> QED BY <3>1
    <2>2. CASE D # {}
      <3>1. PICK x \in D : \A y \in D : y <= x
        <4>1. D \subseteq 1 .. 10
          OBVIOUS
        <4> HIDE DEF D
        <4>2. Max(D) \in D /\ \A y \in D : Max(D) >= y
          BY <2>2, <4>1, LargestElement
        <4>3. \A y \in D : y \in Int
          BY <4>1
        <4> QED BY <4>2, <4>3
      <3>2. x \in 1 .. 10 /\ PowersOfTen[x] <= v /\ PowersOfTen[x] \in Nat
        BY Powers
      <3>3. ASSUME NEW q \in 1 .. x PROVE q \in D
        <4>1. q \in 1 .. 10 /\ PowersOfTen[q] \in Nat
          BY <3>2, Powers
        <4>2. PowersOfTen[q] <= PowersOfTen[x]
          BY <3>2, PowersGrow
        <4> QED BY <3>2, <4>1, <4>2
      <3>4. \A y \in D : y \in 1 .. x
        BY <3>1, <3>2
      <3> HIDE DEF D
      <3>5. D = 1 .. x
        BY <3>3, <3>4
      <3>6. x \in 0 .. 10
        BY <3>2
      <3> QED BY <3>5, <3>6, Zenon
    <2> QED BY <2>1, <2>2, Zenon
  <1>2. Digits(v) = k
    <2>1. Digits(v) = Cardinality(1 .. k)
      BY <1>1 DEF Digits
    <2>2. Cardinality(1 .. k) = IF 1 > k THEN 0 ELSE (k - 1) + 1
      BY FS_Interval
    <2> QED BY <2>1, <2>2
  <1>3. \A p \in 1 .. 10 : PowersOfTen[p] <= v <=> p \in 1 .. k
    BY <1>1
  <1> QED BY <1>2, <1>3

\* A digit is a character.
LEMMA DigitFacts == \A d \in 0 .. 9 : Digit(d) \in Chars
  BY KprintfAssumption

\* A numeral has a digit for each of the powers, at most ten.
LEMMA NumeralFacts ==
    ASSUME NEW v \in Nat
    PROVE  /\ Numeral(v) \in Seq(Chars) /\ Len(Numeral(v)) = Digits(v) /\ Digits(v) \in 0 .. 10
           /\ \A i \in 1 .. Digits(v) :
                Numeral(v)[i] = Digit((v \div PowersOfTen[(Digits(v) - i) + 1]) % 10)
  <1>1. PICK k \in 0 .. 10 : k = Digits(v)
    BY DigitsFacts
  <1> DEFINE N == [i \in 1 .. k |-> Digit((v \div PowersOfTen[(k - i) + 1]) % 10)]
  <1>2. Numeral(v) = N
    BY <1>1, Zenon DEF Numeral, Digits
  <1>3. \A i \in 1 .. k : N[i] = Digit((v \div PowersOfTen[(k - i) + 1]) % 10)
    OBVIOUS
  <1>4. ASSUME NEW i \in 1 .. k PROVE N[i] \in Chars
    <2>1. PICK w \in Nat : w = PowersOfTen[(k - i) + 1] /\ w > 0
      <3>1. (k - i) + 1 \in 1 .. 10
        OBVIOUS
      <3> QED BY <3>1, Powers
    <2>2. (v \div w) % 10 \in 0 .. 9
      <3>1. v \div w \in Nat
        BY <2>1
      <3> QED BY <3>1, Tenth
    <2>3. N[i] = Digit((v \div w) % 10)
      BY <2>1, <1>3
    <2> HIDE DEF N
    <2> QED BY <2>2, <2>3, DigitFacts
  <1>5. N \in [1 .. k -> Chars]
    <2>1. N = [i \in 1 .. k |-> N[i]]
      OBVIOUS
    <2> HIDE DEF N
    <2> QED BY <2>1, <1>4
  <1> HIDE DEF N
  <1>6. N \in Seq(Chars) /\ Len(N) = k
    BY <1>5
  <1> QED BY <1>1, <1>2, <1>3, <1>6

\* A number without its last digit has one digit less.
LEMMA DigitsStep ==
    ASSUME NEW v \in Nat, v # 0, v \div 10 < PowersOfTen[10]
    PROVE  Digits(v) = Digits(v \div 10) + 1
  <1>1. PICK q \in Nat : q = v \div 10 /\ q < PowersOfTen[10]
    BY Tenth
  <1>2. PICK k \in 0 .. 10 : k = Digits(v)
    BY DigitsFacts
  <1>3. PICK j \in 0 .. 10 : j = Digits(q)
    BY DigitsFacts
  <1>4. \A p \in 1 .. 10 : (PowersOfTen[p] <= v <=> p <= k) /\ (PowersOfTen[p] <= q <=> p <= j)
    BY <1>2, <1>3, DigitsFacts
  <1>5. j <= 9
    <2>1. ~ (PowersOfTen[10] <= q) /\ 10 \in 1 .. 10
      BY <1>1, Powers
    <2> QED BY <2>1, <1>4
  <1>6. k >= 1
    <2>1. PowersOfTen[1] <= v /\ 1 \in 1 .. 10
      BY Powers
    <2> QED BY <2>1, <1>4
  <1>7. \A p \in 1 .. 9 : p <= j <=> p + 1 <= k
    <2> SUFFICES ASSUME NEW p \in 1 .. 9 PROVE p <= j <=> p + 1 <= k
      OBVIOUS
    <2>1. p \in 1 .. 10 /\ p + 1 \in 1 .. 10
      OBVIOUS
    <2>2. PowersOfTen[p] <= q <=> PowersOfTen[p + 1] <= v
      BY <1>1, DivTenTimes
    <2> QED BY <2>1, <2>2, <1>4
  <1>8. k = j + 1
    <2>1. j + 1 <= k
      <3>1. CASE j = 0
        BY <3>1, <1>6
      <3>2. CASE j # 0
        <4>1. j \in 1 .. 9 /\ j <= j
          BY <3>2, <1>5
        <4> QED BY <4>1, <1>7
      <3> QED BY <3>1, <3>2
    <2>2. k <= j + 1
      <3>1. CASE k = 1
        BY <3>1
      <3>2. CASE k # 1
        <4>1. PICK p \in 1 .. 9 : p + 1 = k
          <5>1. k - 1 \in 1 .. 9 /\ (k - 1) + 1 = k
            BY <3>2, <1>6
          <5> QED BY <5>1
        <4> QED BY <4>1, <1>7
      <3> QED BY <3>1, <3>2
    <2> QED BY <2>1, <2>2
  <1> QED BY <1>1, <1>2, <1>3, <1>8

\* and its numeral goes on with the last digit.
LEMMA NumeralStep ==
    ASSUME NEW v \in Nat, v # 0, v \div 10 < PowersOfTen[10]
    PROVE  Numeral(v) = Append(Numeral(v \div 10), Digit(v % 10))
  <1>1. PICK q \in Nat : q = v \div 10 /\ v % 10 \in 0 .. 9
    BY Tenth
  <1>2. PICK k \in 0 .. 10 : k = Digits(v) /\ Digits(q) = k - 1 /\ k - 1 \in 0 .. 9
    <2>1. Digits(v) \in 0 .. 10 /\ Digits(q) \in 0 .. 10 /\ Digits(v) = Digits(q) + 1
      BY <1>1, DigitsFacts, DigitsStep
    <2> QED BY <2>1
  <1> DEFINE a == Numeral(v)
             b == Numeral(q)
             d == Digit(v % 10)
  <1>3. /\ a \in Seq(Chars) /\ Len(a) = k
        /\ \A i \in 1 .. k : a[i] = Digit((v \div PowersOfTen[(k - i) + 1]) % 10)
    BY <1>2, NumeralFacts
  <1>4. /\ b \in Seq(Chars) /\ Len(b) = k - 1
        /\ \A i \in 1 .. (k - 1) : b[i] = Digit((q \div PowersOfTen[((k - 1) - i) + 1]) % 10)
    BY <1>2, NumeralFacts
  <1>5. d \in Chars
    BY <1>1, DigitFacts
  <1>6. /\ Append(b, d) \in Seq(Chars) /\ Len(Append(b, d)) = k
        /\ \A i \in 1 .. (k - 1) : Append(b, d)[i] = b[i]
        /\ Append(b, d)[k] = d
    <2>1. (k - 1) + 1 = k
      BY <1>2
    <2> HIDE DEF a, b, d
    <2> QED BY <1>4, <1>5, <2>1, AppendProperties
  <1>7. ASSUME NEW i \in 1 .. k PROVE a[i] = Append(b, d)[i]
    <2>1. CASE i = k
      <3>1. (k - i) + 1 = 1 /\ v \div 1 = v
        BY <2>1
      <3>2. a[i] = Digit((v \div PowersOfTen[1]) % 10)
        BY <3>1, <1>3
      <3>3. PowersOfTen[1] = 1
        BY Powers
      <3>4. a[i] = Digit(v % 10)
        BY <3>1, <3>2, <3>3
      <3> HIDE DEF a, b
      <3> QED BY <3>4, <2>1, <1>6
    <2>2. CASE i # k
      <3>1. PICK p \in 1 .. 9 : p = k - i /\ ((k - 1) - i) + 1 = p /\ i \in 1 .. (k - 1)
        <4>1. k - i \in 1 .. 9 /\ ((k - 1) - i) + 1 = k - i /\ i \in 1 .. (k - 1)
          BY <2>2, <1>2
        <4> QED BY <4>1
      <3>2. a[i] = Digit((v \div PowersOfTen[p + 1]) % 10)
        BY <3>1, <1>3
      <3>3. b[i] = Digit((q \div PowersOfTen[p]) % 10)
        BY <3>1, <1>4
      <3>4. q \div PowersOfTen[p] = v \div PowersOfTen[p + 1]
        BY <1>1, DivTenTimes
      <3>5. Append(b, d)[i] = b[i]
        BY <3>1, <1>6
      <3> HIDE DEF a, b, d
      <3> QED BY <3>2, <3>3, <3>4, <3>5
    <2> QED BY <2>1, <2>2
  <1>8. a = Append(b, d)
    <2> HIDE DEF a, b, d
    <2> QED BY <1>3, <1>6, <1>7, SeqEqual
  <1> QED BY <1>1, <1>8

\* itoa() makes the decimal numeral of an unsigned int, and an empty text of 0.
LEMMA ItoaIsNumeral ==
    ASSUME NEW v \in Nat, v \div 10 < PowersOfTen[10]
    PROVE  itoa[v] = Numeral(v)
  <1> DEFINE Bad == {x \in Nat : x \div 10 < PowersOfTen[10] /\ itoa[x] # Numeral(x)}
  <1>1. SUFFICES ASSUME Bad # {} PROVE FALSE
    OBVIOUS
  <1>2. PICK x \in Bad : \A y \in Bad : x <= y
    <2>1. Bad \subseteq Nat
      OBVIOUS
    <2> HIDE DEF Bad
    <2> QED BY <1>1, <2>1, LeastElement
  <1>3. x \in Nat /\ x \div 10 < PowersOfTen[10] /\ itoa[x] # Numeral(x)
    OBVIOUS
  <1>4. x # 0
    <2>1. ASSUME x = 0 PROVE FALSE
      <3>1. itoa[0] = <<>>
        BY ItoaStep DEF ItoaTurn
      <3>2. Digits(0) = 0
        <4>1. Digits(0) \in 0 .. 10 /\ (PowersOfTen[1] <= 0 <=> 1 <= Digits(0))
          BY DigitsFacts
        <4> QED BY <4>1, Powers
      <3>3. Numeral(0) \in Seq(Chars) /\ Len(Numeral(0)) = 0
        BY <3>2, NumeralFacts
      <3>4. Numeral(0) = <<>>
        BY <3>3, EmptySeq
      <3> QED BY <3>1, <3>4, <2>1, <1>3
    <2> QED BY <2>1
  <1>5. PICK q \in Nat : q = x \div 10 /\ q < PowersOfTen[10] /\ q \div 10 < PowersOfTen[10] /\ ~ (x <= q)
    <2>1. x \div 10 \in Nat /\ x \div 10 < x
      BY <1>3, <1>4, Tenth
    <2>2. (x \div 10) \div 10 \in Nat /\ (x \div 10) \div 10 <= x \div 10
      BY <2>1
    <2>3. PowersOfTen[10] \in Nat
      BY Powers
    <2> QED BY <2>1, <2>2, <2>3, <1>3
  <1>6. itoa[q] = Numeral(q)
    <2>1. ~ (q \in Bad)
      BY <1>2, <1>5
    <2> QED BY <2>1, <1>5
  <1>7. itoa[x] = Append(itoa[q], Digit(x % 10))
    BY <1>3, <1>4, <1>5, ItoaStep DEF ItoaTurn
  <1>8. Numeral(x) = Append(Numeral(q), Digit(x % 10))
    BY <1>3, <1>4, <1>5, NumeralStep
  <1> QED BY <1>3, <1>6, <1>7, <1>8

-----------------------------------------------------------------------------
(* The tokens of a call.                                                   *)

Flats(tokens) == [i \in DOMAIN tokens |-> Flat(tokens[i])]
Args(tokens) == [i \in DOMAIN tokens |-> Words(tokens[i])]
Outs(tokens) == [i \in DOMAIN tokens |-> MeaningOf(tokens[i])]

\* The tokens whose words are passed.
Given(tokens) == {tokens[i] : i \in {j \in 1 .. Len(tokens) : tokens[j].spec # "text"}}

\* The tokens of well-formed calls.
Proper(tokens) ==
    /\ tokens \in Seq(Token)
    /\ \A i \in 1 .. Len(tokens) :
          IF tokens[i].spec = "text" THEN PlainText(tokens, i)
          ELSE /\ tokens[i].spec \notin Spaces
               /\ tokens[i].spec = "c" => Len(tokens[i].str) = 1
               /\ tokens[i].num \div 10 < PowersOfTen[10]

LEMMA ProperCalls ==
    ASSUME NEW t \in Threads, NEW c \in Calls[t]
    PROVE  /\ Proper(c.tokens) /\ c.level \in BOOLEAN /\ c # NoCall
           /\ c.target \in {"SERIAL_PORT", "FRAME_BUFFER"}
  <1>1. WellFormed(c)
    BY KprintfAssumption
  <1>2. c.tokens \in Seq(Token) /\ c.level \in BOOLEAN /\ c.target \in {"SERIAL_PORT", "FRAME_BUFFER"}
    BY <1>1 DEF WellFormed
  <1>3. DOMAIN c.tokens = 1 .. Len(c.tokens)
    BY <1>2, LenProperties
  <1>4. Proper(c.tokens)
    BY <1>1, <1>2, <1>3, Zenon DEF WellFormed, Proper
  <1>5. c # NoCall
    BY <1>2 DEF NoCall
  <1> QED BY <1>2, <1>4, <1>5

\* The fields of a token.
LEMMA TokenFacts ==
    ASSUME NEW token \in Token
    PROVE  /\ token.spec \in Chars \cup {"text", "du"} /\ token.num \in Nat
           /\ token.str \in Seq(Chars) /\ Len(token.str) \in Nat
           /\ Flat(token) \in Seq(Chars) /\ Numeral(token.num) \in Seq(Chars)
           /\ MeaningOf(token) \in Seq(Chars)
  <1>1. token.spec \in Chars \cup {"text", "du"} /\ token.num \in Nat /\ token.str \in Seq(Chars)
    BY DEF Token
  <1>2. Len(token.str) \in Nat
    BY <1>1, LenProperties
  <1>3. Flat(token) \in Seq(Chars)
    <2>1. {"%", "d", "u"} \subseteq Chars
      BY KprintfAssumption
    <2>2. CASE token.spec = "text"
      BY <2>2, <1>1 DEF Flat
    <2>3. CASE token.spec = "du"
      <3>1. Flat(token) = <<"%", "d", "u">>
        BY <2>3 DEF Flat
      <3>2. "%" \in Chars /\ "d" \in Chars /\ "u" \in Chars
        BY <2>1
      <3> QED BY <3>1, <3>2
    <2>4. CASE token.spec # "text" /\ token.spec # "du"
      <3>1. token.spec \in Chars
        BY <2>4, <1>1
      <3>2. Flat(token) = <<"%", token.spec>>
        BY <2>4 DEF Flat
      <3>3. "%" \in Chars
        BY <2>1
      <3> QED BY <3>1, <3>2, <3>3
    <2> QED BY <2>2, <2>3, <2>4
  <1>4. Numeral(token.num) \in Seq(Chars)
    BY <1>1, NumeralFacts
  <1>5. <<"0">> \in Seq(Chars)
    <2>1. Digit(0) \in Chars /\ Digit(0) = "0"
      BY DigitFacts DEF Digit
    <2> QED BY <2>1
  <1>6. MeaningOf(token) \in Seq(Chars)
    BY <1>1, <1>4, <1>5, Zenon DEF MeaningOf
  <1> QED BY <1>1, <1>2, <1>3, <1>4, <1>6

\* The words of the tokens are those of Given.
LEMMA GivenFacts ==
    ASSUME NEW tokens, Proper(tokens)
    PROVE  /\ Given(tokens) \subseteq Token
           /\ \A g \in Given(tokens) : g.num \div 10 < PowersOfTen[10]
           /\ \A i \in 1 .. Len(tokens) : Words(tokens[i]) \in Seq(Given(tokens))
  <1>1. \A i \in 1 .. Len(tokens) : tokens[i] \in Token
    BY ElementOfSeq DEF Proper
  <1>2. Given(tokens) \subseteq Token
    BY <1>1 DEF Given
  <1>3. \A g \in Given(tokens) : g.num \div 10 < PowersOfTen[10]
    BY Zenon DEF Given, Proper
  <1>4. ASSUME NEW i \in 1 .. Len(tokens) PROVE Words(tokens[i]) \in Seq(Given(tokens))
    <2>1. PICK x : x = tokens[i]
      OBVIOUS
    <2>2. CASE x.spec = "text"
      BY <2>1, <2>2 DEF Words
    <2>3. CASE x.spec # "text"
      <3>1. x \in Given(tokens)
        BY <2>1, <2>3 DEF Given
      <3>2. Words(x) = <<x, x>> \/ Words(x) = <<x>>
        BY <2>3 DEF Words
      <3>3. <<x, x>> \in Seq(Given(tokens)) /\ <<x>> \in Seq(Given(tokens))
        BY <3>1
      <3> QED BY <3>2, <3>3, <2>1
    <2> QED BY <2>2, <2>3
  <1> QED BY <1>2, <1>3, <1>4

\* The pieces of a call: its format, its arguments, what it should print.
LEMMA PartsTyped ==
    ASSUME NEW tokens, Proper(tokens)
    PROVE  /\ Len(tokens) \in Nat /\ DOMAIN tokens = 1 .. Len(tokens)
           /\ \A i \in 1 .. Len(tokens) : tokens[i] \in Token
           /\ Flats(tokens) \in Seq(Seq(Chars)) /\ Len(Flats(tokens)) = Len(tokens)
           /\ Args(tokens) \in Seq(Seq(Token)) /\ Len(Args(tokens)) = Len(tokens)
           /\ Args(tokens) \in Seq(Seq(Given(tokens)))
           /\ Outs(tokens) \in Seq(Seq(Chars)) /\ Len(Outs(tokens)) = Len(tokens)
  <1>1. PICK n \in Nat : n = Len(tokens) /\ DOMAIN tokens = 1 .. n
    BY LenProperties DEF Proper
  <1>2. \A i \in 1 .. n : tokens[i] \in Token
    BY <1>1, ElementOfSeq DEF Proper
  <1>3. Flats(tokens) \in [1 .. n -> Seq(Chars)]
    <2>1. \A i \in 1 .. n : Flat(tokens[i]) \in Seq(Chars)
      BY <1>2, TokenFacts
    <2> QED BY <2>1, <1>1 DEF Flats
  <1>4. Args(tokens) \in [1 .. n -> Seq(Given(tokens))]
    BY <1>1, GivenFacts, Zenon DEF Args
  <1>5. Args(tokens) \in [1 .. n -> Seq(Token)]
    <2>1. \A x \in Seq(Given(tokens)) : x \in Seq(Token)
      BY GivenFacts
    <2> QED BY <2>1, <1>4
  <1>6. Outs(tokens) \in [1 .. n -> Seq(Chars)]
    <2>1. \A i \in 1 .. n : MeaningOf(tokens[i]) \in Seq(Chars)
      BY <1>2, TokenFacts
    <2> QED BY <2>1, <1>1, Zenon DEF Outs
  <1>7. \A S : \A f \in [1 .. n -> S] : f \in Seq(S) /\ Len(f) = n
    OBVIOUS
  <1> QED BY <1>1, <1>2, <1>3, <1>4, <1>5, <1>6, <1>7

\* Where the k-th token ends in the format, and the words of the first k tokens.
End(tokens, k) == Len(Joined(Flats(tokens), k))
Used(tokens, k) == Len(Joined(Args(tokens), k))

\* The format and the arguments of a call.
LEMMA FormatIs ==
    ASSUME NEW c, Proper(c.tokens)
    PROVE  /\ Format(c) = Joined(Flats(c.tokens), Len(c.tokens))
           /\ Arguments(c) = Joined(Args(c.tokens), Len(c.tokens))
           /\ Format(c) \in Seq(Chars) /\ Len(Format(c)) \in Nat
           /\ Arguments(c) \in Seq(Token) /\ Len(Arguments(c)) \in Nat
           /\ Arguments(c) \in Seq(Given(c.tokens))
           /\ Len(Format(c)) = End(c.tokens, Len(c.tokens))
           /\ Len(Arguments(c)) = Used(c.tokens, Len(c.tokens))
           /\ \A k \in 0 .. Len(c.tokens) : /\ End(c.tokens, k) \in 0 .. Len(Format(c))
                                            /\ Used(c.tokens, k) \in 0 .. Len(Arguments(c))
           /\ End(c.tokens, 0) = 0 /\ Used(c.tokens, 0) = 0
           /\ \A k \in 1 .. Len(c.tokens) :
                 /\ Used(c.tokens, k) = Used(c.tokens, k - 1) + Len(Words(c.tokens[k]))
                 /\ End(c.tokens, k) = End(c.tokens, k - 1) + Len(Flat(c.tokens[k]))
                 /\ \A j \in 1 .. Len(Flat(c.tokens[k])) :
                       Format(c)[End(c.tokens, k - 1) + j] = Flat(c.tokens[k])[j]
  <1>1. PICK tokens : tokens = c.tokens
    OBVIOUS
  <1>2. PICK n \in Nat : /\ n = Len(tokens)
                         /\ Flats(tokens) \in Seq(Seq(Chars)) /\ Len(Flats(tokens)) = n
                         /\ Args(tokens) \in Seq(Seq(Token)) /\ Len(Args(tokens)) = n
                         /\ Args(tokens) \in Seq(Seq(Given(tokens)))
                         /\ DOMAIN tokens = 1 .. n
    BY <1>1, PartsTyped
  <1>3. Format(c) = Joined(Flats(tokens), n) /\ Arguments(c) = Joined(Args(tokens), n)
    <2>1. Format(c) = FlattenSeq(Flats(tokens)) /\ Arguments(c) = FlattenSeq(Args(tokens))
      BY <1>1, Zenon DEF Format, Arguments, Flats, Args
    <2>2. FlattenSeq(Flats(tokens)) = Joined(Flats(tokens), n)
      BY <1>2, FlattenIsJoined
    <2>3. FlattenSeq(Args(tokens)) = Joined(Args(tokens), n)
      BY <1>2, FlattenIsJoined
    <2> QED BY <2>1, <2>2, <2>3
  <1>4. /\ \A k \in 0 .. n : End(tokens, k) \in Nat /\ Used(tokens, k) \in Nat
        /\ Joined(Flats(tokens), n) \in Seq(Chars) /\ Joined(Args(tokens), n) \in Seq(Token)
        /\ Joined(Args(tokens), n) \in Seq(Given(tokens))
    <2>1. \A k \in 0 .. n : Joined(Flats(tokens), k) \in Seq(Chars) /\ End(tokens, k) \in Nat
      BY <1>2, JoinedType DEF End
    <2>2. \A k \in 0 .. n : Joined(Args(tokens), k) \in Seq(Token) /\ Used(tokens, k) \in Nat
      BY <1>2, JoinedType DEF Used
    <2>3. \A k \in 0 .. n : Joined(Args(tokens), k) \in Seq(Given(tokens))
      BY <1>2, JoinedType
    <2>4. n \in 0 .. n
      OBVIOUS
    <2> QED BY <2>1, <2>2, <2>3, <2>4
  <1>5. \A k \in 0 .. n : End(tokens, k) <= End(tokens, n) /\ Used(tokens, k) <= Used(tokens, n)
    <2> SUFFICES ASSUME NEW k \in 0 .. n
                 PROVE  End(tokens, k) <= End(tokens, n) /\ Used(tokens, k) <= Used(tokens, n)
      OBVIOUS
    <2>1. n \in k .. n
      OBVIOUS
    <2>2. End(tokens, k) <= End(tokens, n)
      BY <2>1, <1>2, JoinedPrefix DEF End
    <2>3. Used(tokens, k) <= Used(tokens, n)
      BY <2>1, <1>2, JoinedPrefix DEF Used
    <2> QED BY <2>2, <2>3
  <1>6. ASSUME NEW k \in 1 .. n
        PROVE  /\ Used(tokens, k) = Used(tokens, k - 1) + Len(Words(tokens[k]))
               /\ End(tokens, k) = End(tokens, k - 1) + Len(Flat(tokens[k]))
               /\ \A j \in 1 .. Len(Flat(tokens[k])) :
                     Joined(Flats(tokens), n)[End(tokens, k - 1) + j] = Flat(tokens[k])[j]
    <2>1. Flats(tokens)[k] = Flat(tokens[k]) /\ Args(tokens)[k] = Words(tokens[k])
      BY <1>2 DEF Flats, Args
    <2>2. End(tokens, k) = End(tokens, k - 1) + Len(Flats(tokens)[k])
      BY <1>2, JoinedType DEF End
    <2>3. Used(tokens, k) = Used(tokens, k - 1) + Len(Args(tokens)[k])
      BY <1>2, JoinedType DEF Used
    <2>4. \A j \in 1 .. Len(Flats(tokens)[k]) :
             Joined(Flats(tokens), n)[End(tokens, k - 1) + j] = Flats(tokens)[k][j]
      <3>1. PICK ss \in Seq(Seq(Chars)) : ss = Flats(tokens) /\ Len(ss) = n
        BY <1>2
      <3>2. k \in 1 .. Len(ss)
        BY <3>1
      <3>3. \A j \in 1 .. Len(ss[k]) : Joined(ss, Len(ss))[Len(Joined(ss, k - 1)) + j] = ss[k][j]
        BY <3>2, JoinedPart
      <3> QED BY <3>1, <3>3 DEF End
    <2> QED BY <2>1, <2>2, <2>3, <2>4
  <1>7. End(tokens, 0) = 0 /\ Used(tokens, 0) = 0
    BY DEF End, Used, Joined
  <1>8. Len(Format(c)) = End(tokens, n) /\ Len(Arguments(c)) = Used(tokens, n)
    BY <1>3 DEF End, Used
  <1>9. n \in 0 .. n
    OBVIOUS
  <1>10. \A k \in 0 .. n : End(tokens, k) \in 0 .. End(tokens, n) /\ Used(tokens, k) \in 0 .. Used(tokens, n)
    BY <1>4, <1>5, <1>9
  <1> QED BY <1>1, <1>2, <1>3, <1>4, <1>6, <1>7, <1>8, <1>9, <1>10

\* The order in which sequences are joined does not matter.
LEMMA Associative ==
    \A S : \A u, v, w \in Seq(S) : (u \o v) \o w = u \o (v \o w)
  <1> SUFFICES ASSUME NEW S, NEW u \in Seq(S), NEW v \in Seq(S), NEW w \in Seq(S)
               PROVE  (u \o v) \o w = u \o (v \o w)
    OBVIOUS
  <1> QED BY SMTT(40), ConcatAssociative

\* The same for text.
LEMMA TextAssociative ==
    \A u, v, w \in Seq(Chars) : (u \o v) \o w = u \o (v \o w)
  BY Associative, SMTT(60)

\* The k-th sequence as a part of the whole,
LEMMA PartOfWhole ==
    ASSUME NEW S, NEW ss \in Seq(Seq(S)), NEW k \in 1 .. Len(ss)
    PROVE  SubSeq(Joined(ss, Len(ss)), Len(Joined(ss, k - 1)) + 1, Len(Joined(ss, k))) = ss[k]
  <1> DEFINE n == Len(ss)
  <1>1. n \in Nat /\ k - 1 \in 0 .. n /\ n \in 0 .. n
    BY LenProperties
  <1>2. PICK f \in Seq(S) : f = Joined(ss, n) /\ Len(f) \in Nat
    BY <1>1, JoinedType
  <1>3. PICK a \in Nat : a = Len(Joined(ss, k - 1))
    BY <1>1, JoinedType
  <1>4. PICK b \in Seq(S) : b = ss[k] /\ Len(b) \in Nat /\ Len(Joined(ss, k)) = a + Len(b)
    BY <1>1, <1>3, JoinedType
  <1>5. a + Len(b) <= Len(f) /\ \A j \in 1 .. Len(b) : f[a + j] = b[j]
    BY <1>2, <1>3, <1>4, JoinedPart
  <1>6. SubSeq(f, a + 1, a + Len(b)) = b
    <2>1. a + 1 \in Int /\ a + Len(b) \in Int
      BY <1>4
    <2>2. \A i \in (a + 1) .. (a + Len(b)) : f[i] \in S
      <3> SUFFICES ASSUME NEW i \in (a + 1) .. (a + Len(b)) PROVE f[i] \in S
        OBVIOUS
      <3>1. i \in 1 .. Len(f)
        BY <1>2, <1>4, <1>5
      <3> QED BY <3>1, ElementOfSeq
    <2>3. /\ SubSeq(f, a + 1, a + Len(b)) \in Seq(S)
          /\ Len(SubSeq(f, a + 1, a + Len(b))) =
                IF a + 1 <= a + Len(b) THEN ((a + Len(b)) - (a + 1)) + 1 ELSE 0
          /\ \A i \in 1 .. (((a + Len(b)) - (a + 1)) + 1) :
                SubSeq(f, a + 1, a + Len(b))[i] = f[((a + 1) + i) - 1]
      BY <2>1, <2>2, SubSeqProperties
    <2>4. Len(SubSeq(f, a + 1, a + Len(b))) = Len(b)
      BY <2>3, <1>4
    <2>5. ASSUME NEW i \in 1 .. Len(b) PROVE SubSeq(f, a + 1, a + Len(b))[i] = b[i]
      <3>1. i \in 1 .. (((a + Len(b)) - (a + 1)) + 1) /\ ((a + 1) + i) - 1 = a + i
        BY <1>4
      <3> QED BY <3>1, <2>3, <1>5
    <2> QED BY <2>3, <2>4, <2>5, SeqEqual
  <1> QED BY <1>2, <1>3, <1>4, <1>6

\* and several of them, also when others are before them.
LEMMA JoinedSpan ==
    ASSUME NEW S, NEW ss \in Seq(Seq(S)), NEW tt \in Seq(Seq(S)), Len(tt) = Len(ss),
           NEW k \in 0 .. Len(ss), NEW m \in k .. Len(ss),
           \A i \in (k + 1) .. m : tt[i] = ss[i]
    PROVE  Joined(tt, m) =
           Joined(tt, k) \o SubSeq(Joined(ss, Len(ss)), Len(Joined(ss, k)) + 1, Len(Joined(ss, m)))
  <1> DEFINE n == Len(ss)
             f == Joined(ss, n)
             e(x) == Len(Joined(ss, x))
             part(x) == SubSeq(f, e(k) + 1, e(x))
             P(x) == Joined(tt, x) = Joined(tt, k) \o part(x)
             Bad == {x \in k .. m : ~ P(x)}
  <1>1. n \in Nat /\ k \in Nat /\ m \in Nat /\ n \in 0 .. n /\ m <= n
    BY LenProperties
  <1>2. f \in Seq(S) /\ Len(f) \in Nat
    BY <1>1, JoinedType
  <1>3. \A x \in k .. n : e(k) <= e(x) /\ e(x) \in Nat /\ e(x) <= Len(f)
    <2> SUFFICES ASSUME NEW x \in k .. n PROVE e(k) <= e(x) /\ e(x) \in Nat /\ e(x) <= Len(f)
      OBVIOUS
    <2>1. x \in 0 .. n /\ n \in x .. n
      BY <1>1
    <2>2. e(x) \in Nat
      BY <2>1, JoinedType
    <2>3. e(k) <= e(x)
      BY JoinedPrefix
    <2>4. e(x) <= Len(f)
      BY <2>1, JoinedPrefix
    <2> QED BY <2>2, <2>3, <2>4
  <1>4. Joined(tt, k) \in Seq(S)
    BY <1>1, JoinedType
  <1>5. ASSUME NEW x \in k .. n PROVE part(x) \in Seq(S)
    <2>1. k \in k .. n
      BY <1>1
    <2>2. e(k) + 1 \in Int /\ e(x) \in Int
      BY <2>1, <1>3
    <2>3. \A i \in (e(k) + 1) .. e(x) : f[i] \in S
      <3> SUFFICES ASSUME NEW i \in (e(k) + 1) .. e(x) PROVE f[i] \in S
        OBVIOUS
      <3> HIDE DEF f, e
      <3>1. i \in 1 .. Len(f)
        BY <2>1, <1>2, <1>3
      <3> QED BY <3>1, <1>2, ElementOfSeq
    <2> HIDE DEF f, e
    <2> QED BY <2>2, <2>3, SubSeqProperties
  <1>6. P(k)
    <2>1. part(k) = <<>>
      <3>1. k \in k .. n
        BY <1>1
      <3>2. e(k) \in Int /\ e(k) + 1 \in Int /\ e(k) < e(k) + 1
        BY <3>1, <1>3
      <3> HIDE DEF e, f
      <3> QED BY <3>2, SubSeqEmpty
    <2> QED BY <2>1, <1>4, ConcatEmptySeq
  <1>7. ASSUME NEW x \in k .. m, x # k, P(x - 1) PROVE P(x)
    <2>1. x \in Nat /\ x \in 1 .. n /\ x - 1 \in k .. n /\ x \in k .. n /\ x \in (k + 1) .. m
      BY SMTT(40), <1>1, <1>7
    <2>2. Joined(tt, x) = Joined(tt, x - 1) \o ss[x]
      <3>1. x \in 1 .. Len(tt)
        BY <2>1
      <3>2. tt[x] = ss[x]
        BY <2>1
      <3> QED BY <3>1, <3>2, JoinedStep
    <2>3. ss[x] = SubSeq(f, e(x - 1) + 1, e(x))
      BY <2>1, PartOfWhole
    <2>4. part(x - 1) \o SubSeq(f, e(x - 1) + 1, e(x)) = part(x)
      <3>1. e(k) + 1 \in 1 .. (Len(f) + 1) /\ e(x - 1) \in ((e(k) + 1) - 1) .. Len(f)
        <4>1. k \in k .. n
          BY <1>1
        <4>2. /\ e(k) \in Nat /\ e(k) <= Len(f)
              /\ e(x - 1) \in Nat /\ e(k) <= e(x - 1) /\ e(x - 1) <= Len(f)
          BY <4>1, <2>1, <1>3, Zenon
        <4> HIDE DEF e, f
        <4> QED BY ONLY <4>2, <1>2
      <3>2. e(x) \in e(x - 1) .. Len(f)
        <4>1. x - 1 \in 0 .. n /\ x \in (x - 1) .. n
          BY <2>1, <1>1
        <4>2. e(x - 1) <= e(x)
          BY <4>1, JoinedPrefix
        <4> HIDE DEF e, f
        <4> QED BY <4>2, <2>1, <1>2, <1>3
      <3> HIDE DEF e, f
      <3> QED BY <3>1, <3>2, <1>2, ConcatAdjacentSubSeq
    <2>5. Joined(tt, x) = (Joined(tt, k) \o part(x - 1)) \o ss[x]
      BY <2>2, <1>7
    <2>6. ss[x] \in Seq(S) /\ part(x - 1) \in Seq(S)
      BY <2>1, <1>5, JoinedType
    <2>7. (Joined(tt, k) \o part(x - 1)) \o ss[x] = Joined(tt, k) \o (part(x - 1) \o ss[x])
      <3>1. \A u, v, w \in Seq(S) : (u \o v) \o w = u \o (v \o w)
        BY ONLY Associative, SMTT(40)
      <3> HIDE DEF part
      <3> QED BY ONLY <2>6, <1>4, <3>1, Zenon
    <2> HIDE DEF f, e
    <2> QED BY <2>3, <2>4, <2>5, <2>7, Zenon
  <1>8. Bad = {}
    <2>1. SUFFICES ASSUME Bad # {} PROVE FALSE
      OBVIOUS
    <2>2. PICK x \in Bad : \A j \in Bad : x <= j
      <3>1. Bad \subseteq Nat
        BY <1>1
      <3> HIDE DEF Bad
      <3> QED BY <2>1, <3>1, LeastElement
    <2>3. x \in k .. m /\ ~ P(x)
      OBVIOUS
    <2>4. x # k
      BY <1>6, <2>3, Zenon
    <2>5. x - 1 \in k .. m /\ ~ (x <= x - 1)
      BY <2>3, <2>4, <1>1
    <2>6. P(x - 1)
      <3> HIDE DEF P
      <3> QED BY <2>2, <2>5
    <2> HIDE DEF P
    <2> QED BY <2>3, <2>4, <2>6, <1>7
  <1>9. m \in k .. m
    BY <1>1
  <1>10. P(m)
    <2> HIDE DEF P
    <2> QED BY <1>8, <1>9
  <1> QED BY <1>10

\* Empty ones add nothing.
LEMMA JoinedEmpty ==
    ASSUME NEW S, NEW tt \in Seq(Seq(S)), NEW k \in 0 .. Len(tt), NEW m \in k .. Len(tt),
           \A i \in (k + 1) .. m : tt[i] = <<>>
    PROVE  Joined(tt, m) = Joined(tt, k)
  <1> DEFINE n == Len(tt)
             Bad == {x \in k .. m : Joined(tt, x) # Joined(tt, k)}
  <1>1. n \in Nat /\ k \in Nat /\ m \in Nat /\ m <= n
    BY LenProperties
  <1>2. ASSUME NEW x \in k .. m, x # k, Joined(tt, x - 1) = Joined(tt, k)
        PROVE  Joined(tt, x) = Joined(tt, k)
    <2>1. x \in 1 .. n /\ x \in (k + 1) .. m
      BY <1>1, <1>2
    <2>2. Joined(tt, x) = Joined(tt, x - 1) \o <<>>
      BY <2>1, JoinedStep
    <2>3. Joined(tt, k) \in Seq(S)
      BY JoinedType
    <2> QED BY <2>2, <2>3, <1>2, ConcatEmptySeq
  <1>3. Bad = {}
    <2>1. SUFFICES ASSUME Bad # {} PROVE FALSE
      OBVIOUS
    <2>2. PICK x \in Bad : \A j \in Bad : x <= j
      <3>1. Bad \subseteq Nat
        BY <1>1
      <3> HIDE DEF Bad
      <3> QED BY <2>1, <3>1, LeastElement
    <2>3. x - 1 \in k .. m /\ ~ (x <= x - 1) /\ x # k
      BY <1>1
    <2> QED BY <2>2, <2>3, <1>2
  <1>4. m \in k .. m
    BY <1>1
  <1> QED BY <1>3, <1>4

\* A place in the format lies in one of the tokens.
LEMMA PlaceInToken ==
    ASSUME NEW c, Proper(c.tokens), NEW k \in 0 .. Len(c.tokens), NEW m \in k .. Len(c.tokens),
           NEW s \in (End(c.tokens, k) + 1) .. End(c.tokens, m)
    PROVE  \E i \in (k + 1) .. m : s \in (End(c.tokens, i - 1) + 1) .. End(c.tokens, i)
  <1>1. PICK n \in Nat : n = Len(c.tokens)
    BY LenProperties DEF Proper
  <1>2. PICK e : e = [i \in 0 .. n |-> End(c.tokens, i)]
    OBVIOUS
  <1>3. \A i \in 0 .. n : e[i] = End(c.tokens, i) /\ e[i] \in Nat
    <2>1. \A i \in 0 .. n : End(c.tokens, i) \in 0 .. Len(Format(c)) /\ Len(Format(c)) \in Nat
      BY <1>1, FormatIs
    <2> QED BY <2>1, <1>2
  <1>4. k \in 0 .. n /\ m \in k .. n /\ s \in (e[k] + 1) .. e[m] /\ m \in 0 .. n
    <2>1. k \in 0 .. n /\ m \in k .. n /\ m \in 0 .. n
      BY <1>1
    <2> QED BY <2>1, <1>3
  <1> DEFINE Behind == {i \in k .. m : s <= e[i]}
  <1>5. PICK i \in Behind : \A j \in Behind : i <= j
    <2>1. Behind \subseteq Nat
      BY <1>4
    <2>2. m \in Behind
      BY <1>3, <1>4
    <2> HIDE DEF Behind
    <2> QED BY <2>1, <2>2, LeastElement
  <1>6. i # k
    BY <1>3, <1>4
  <1>7. i \in (k + 1) .. m /\ i - 1 \in k .. m /\ ~ (i <= i - 1) /\ i \in 0 .. n /\ i - 1 \in 0 .. n
    BY <1>4, <1>6
  <1>8. ~ (s <= e[i - 1]) /\ s <= e[i]
    BY <1>5, <1>7
  <1>9. s \in (e[i - 1] + 1) .. e[i]
    BY <1>3, <1>4, <1>7, <1>8
  <1> QED BY <1>3, <1>7, <1>9

\* The search does not stop in a text.
LEMMA NoFormatterInText ==
    ASSUME NEW c, Proper(c.tokens), NEW k \in 1 .. Len(c.tokens), c.tokens[k].spec = "text",
           NEW s \in (End(c.tokens, k - 1) + 1) .. End(c.tokens, k)
    PROVE  ~ is_formatter(Format(c), s)
  <1>1. PICK n \in Nat : n = Len(c.tokens) /\ k \in 1 .. n
    BY LenProperties DEF Proper
  <1>2. PICK str : str = c.tokens[k].str
    OBVIOUS
  <1>3. Flat(c.tokens[k]) = str
    BY <1>2 DEF Flat
  <1>4. PICK f : f = Format(c)
    OBVIOUS
  <1>5. Len(str) \in Nat /\ DOMAIN str = 1 .. Len(str)
    <2>1. c.tokens[k] \in Token
      BY ElementOfSeq DEF Proper
    <2>2. str \in Seq(Chars)
      BY <2>1, <1>2, TokenFacts
    <2> QED BY <2>2, LenProperties
  <1>6. PICK a \in Nat : a = End(c.tokens, k - 1)
    <2>1. k - 1 \in 0 .. Len(c.tokens)
      BY <1>1
    <2>2. End(c.tokens, k - 1) \in 0 .. Len(Format(c))
      BY <2>1, FormatIs
    <2> QED BY <2>2
  <1>7. End(c.tokens, k) = a + Len(str) /\ \A j \in 1 .. Len(str) : f[a + j] = str[j]
    <2>1. /\ End(c.tokens, k) = End(c.tokens, k - 1) + Len(Flat(c.tokens[k]))
          /\ \A j \in 1 .. Len(Flat(c.tokens[k])) :
                Format(c)[End(c.tokens, k - 1) + j] = Flat(c.tokens[k])[j]
      BY ONLY Proper(c.tokens), k \in 1 .. Len(c.tokens), FormatIs, SMTT(60)
    <2> QED BY <2>1, <1>3, <1>4, <1>6, Zenon
  <1>8. PICK j \in 1 .. Len(str) : s = a + j
    <2>1. s \in (a + 1) .. (a + Len(str))
      BY <1>6, <1>7
    <2>2. s - a \in 1 .. Len(str) /\ s = a + (s - a)
      BY <2>1, <1>5
    <2> QED BY <2>2
  <1>9. str[j] = "%" => IF j < Len(str) THEN str[j + 1] \in Spaces ELSE k = n
    <2>1. PlainText(c.tokens, k)
      BY DEF Proper
    <2> QED BY <2>1, <1>1, <1>2, <1>5, Zenon DEF PlainText
  <1>10. f[s] = str[j]
    BY <1>7, <1>8
  <1>11. CASE j < Len(str)
    <2>1. j + 1 \in 1 .. Len(str) /\ s + 1 = a + (j + 1)
      BY <1>5, <1>8, <1>11
    <2>2. f[a + (j + 1)] = str[j + 1]
      BY <2>1, <1>7
    <2>3. f[s + 1] = str[j + 1]
      BY <2>1, <2>2
    <2> QED BY <2>3, <1>4, <1>9, <1>10, <1>11 DEF is_formatter
  <1>12. CASE ~ (j < Len(str))
    <2>1. j = Len(str)
      BY <1>5, <1>12
    <2>2. CASE str[j] = "%"
      <3>1. k = n
        BY <2>2, <1>9, <1>12
      <3>2. Len(f) = a + Len(str)
        BY <3>1, <1>1, <1>4, <1>7, FormatIs
      <3>3. ~ (s < Len(f))
        BY <3>2, <2>1, <1>5, <1>8
      <3> QED BY <3>3, <1>4 DEF is_formatter
    <2>3. CASE str[j] # "%"
      BY <2>3, <1>4, <1>10 DEF is_formatter
    <2> QED BY <2>2, <2>3
  <1> QED BY <1>11, <1>12

\* The ends of the tokens are in order.
LEMMA PrefixEnds ==
    ASSUME NEW c, Proper(c.tokens), NEW k \in 0 .. Len(c.tokens), NEW m \in (k + 1) .. Len(c.tokens)
    PROVE  End(c.tokens, k) <= End(c.tokens, m - 1)
  <1>2. PICK ss \in Seq(Seq(Chars)) : ss = Flats(c.tokens) /\ Len(ss) = Len(c.tokens)
    BY PartsTyped
  <1>3. Len(c.tokens) \in Nat
    BY LenProperties DEF Proper
  <1>4. k \in 0 .. Len(ss) /\ m - 1 \in k .. Len(ss)
    BY <1>2, <1>3
  <1> QED BY <1>2, <1>4, JoinedPrefix DEF End

\* What the search reads at a conversion.
LEMMA FormatterOfConversion ==
    ASSUME NEW c, Proper(c.tokens), NEW k \in 1 .. Len(c.tokens), c.tokens[k].spec # "text",
           NEW s, s = End(c.tokens, k - 1) + 1
    PROVE  /\ is_formatter(Format(c), s) /\ s \in 1 .. Len(Format(c))
           /\ Format(c)[s + 1] = IF c.tokens[k].spec = "du" THEN "d" ELSE c.tokens[k].spec
           /\ s + ArgLength(Format(c), s) = End(c.tokens, k) + 1
  <1>1. PICK n \in Nat : n = Len(c.tokens) /\ k \in 1 .. n
    BY LenProperties DEF Proper
  <1>2. PICK spec : spec = c.tokens[k].spec
    OBVIOUS
  <1>3. PICK w : w = Flat(c.tokens[k])
    OBVIOUS
  <1>4. w = IF spec = "du" THEN <<"%", "d", "u">> ELSE <<"%", spec>>
    BY <1>2, <1>3 DEF Flat
  <1>5. /\ Len(w) = IF spec = "du" THEN 3 ELSE 2
        /\ w[1] = "%" /\ w[2] = (IF spec = "du" THEN "d" ELSE spec)
        /\ spec = "du" => w[3] = "u"
    <2>1. CASE spec = "du"
      BY <1>4, <2>1
    <2>2. CASE spec # "du"
      BY <1>4, <2>2
    <2> QED BY <2>1, <2>2
  <1>6. PICK f : f = Format(c) /\ Len(f) \in Nat /\ Len(f) = End(c.tokens, n)
    BY <1>1, FormatIs
  <1>7. PICK a \in Nat : a = End(c.tokens, k - 1)
    <2>1. k - 1 \in 0 .. Len(c.tokens)
      BY <1>1
    <2>2. End(c.tokens, k - 1) \in 0 .. Len(Format(c))
      BY <2>1, FormatIs
    <2> QED BY <2>2
  <1>8. End(c.tokens, k) = a + Len(w) /\ \A j \in 1 .. Len(w) : f[a + j] = w[j]
    <2>1. /\ End(c.tokens, k) = End(c.tokens, k - 1) + Len(Flat(c.tokens[k]))
          /\ \A j \in 1 .. Len(Flat(c.tokens[k])) :
                Format(c)[End(c.tokens, k - 1) + j] = Flat(c.tokens[k])[j]
      BY ONLY Proper(c.tokens), k \in 1 .. Len(c.tokens), FormatIs, SMTT(60)
    <2> QED BY <2>1, <1>3, <1>6, <1>7, Zenon
  <1>9. a + Len(w) <= Len(f)
    <2>1. k \in 0 .. Len(c.tokens)
      BY <1>1
    <2>2. End(c.tokens, k) \in 0 .. Len(Format(c))
      BY <2>1, FormatIs
    <2> QED BY <2>2, <1>6, <1>8
  <1>10. s = a + 1 /\ s + 1 = a + 2 /\ s + 2 = a + 3
    BY <1>7
  <1>11. f[s] = "%" /\ f[s + 1] = (IF spec = "du" THEN "d" ELSE spec)
    <2>1. 1 \in 1 .. Len(w) /\ 2 \in 1 .. Len(w)
      BY <1>5
    <2> QED BY <2>1, <1>5, <1>8, <1>10
  <1>12. is_formatter(f, s) /\ s \in 1 .. Len(f)
    <2>1. s < Len(f) /\ s \in 1 .. Len(f)
      BY <1>5, <1>6, <1>9, <1>10
    <2>2. f[s + 1] \notin Spaces
      <3>1. spec \notin Spaces /\ "d" \notin Spaces
        BY <1>1, <1>2, KprintfAssumption DEF Proper
      <3> QED BY <3>1, <1>11
    <2> QED BY <2>1, <2>2, <1>11 DEF is_formatter
  <1>13. ArgLength(f, s) = Len(w)
    <2>1. CASE spec = "du"
      <3>1. 3 \in 1 .. Len(w) /\ Len(w) = 3
        BY <1>5, <2>1
      <3>2. f[s + 2] = "u" /\ f[s + 1] = "d"
        BY <3>1, <2>1, <1>5, <1>8, <1>10, <1>11
      <3>3. s + 2 <= Len(f)
        BY <3>1, <1>6, <1>9, <1>10
      <3> QED BY <3>1, <3>2, <3>3 DEF ArgLength
    <2>2. CASE spec # "du" /\ spec # "d"
      BY <2>2, <1>5, <1>11 DEF ArgLength
    <2>3. CASE spec = "d"
      <3>1. Len(w) = 2
        BY <2>3, <1>5
      <3>2. SUFFICES ASSUME s + 2 <= Len(f) PROVE f[s + 2] # "u"
        BY <3>1, Zenon DEF ArgLength
      <3>3. k # n
        <4>1. k = n => Len(f) = a + 2
          BY <3>1, <1>6, <1>8
        <4> QED BY <4>1, <3>2, <1>6, <1>10
      <3>4. k + 1 \in 1 .. n /\ (k + 1) - 1 = k /\ k + 1 > 1
        BY <3>3, <1>1
      <3>5. PICK v : v = Flat(c.tokens[k + 1])
        OBVIOUS
      <3>6. \A j \in 1 .. Len(v) : f[(a + 2) + j] = v[j]
        <4>1. PICK q \in 1 .. Len(c.tokens) : q = k + 1 /\ q - 1 = k
          BY <3>4, <1>1
        <4>2. \A j \in 1 .. Len(v) : f[End(c.tokens, q - 1) + j] = v[j]
          <5>1. \A j \in 1 .. Len(Flat(c.tokens[q])) :
                   Format(c)[End(c.tokens, q - 1) + j] = Flat(c.tokens[q])[j]
            BY ONLY Proper(c.tokens), q \in 1 .. Len(c.tokens), FormatIs, SMTT(60)
          <5> QED BY <5>1, <4>1, <3>5, <1>6, Zenon
        <4>3. End(c.tokens, q - 1) = a + 2
          BY <3>1, <4>1, <1>8
        <4> QED BY <4>2, <4>3
      <3>7. c.tokens[k + 1] \in Token
        BY <3>4, <1>1, ElementOfSeq DEF Proper
      <3>8. 1 \in 1 .. Len(v) /\ v[1] # "u"
        <4>1. CASE c.tokens[k + 1].spec = "text"
          <5>1. v = c.tokens[k + 1].str /\ v \in Seq(Chars)
            BY <4>1, <3>5, <3>7, TokenFacts DEF Flat
          <5>2. PlainText(c.tokens, k + 1)
            BY <4>1, <3>4, <1>1 DEF Proper
          <5>3. v # <<>> /\ v[1] # "u"
            BY <5>1, <5>2, <3>4, <2>3, <1>2 DEF PlainText
          <5>4. Len(v) \in Nat /\ Len(v) # 0
            BY <5>1, <5>3, EmptySeq
          <5> QED BY <5>3, <5>4
        <4>2. CASE c.tokens[k + 1].spec = "du"
          <5>1. v = <<"%", "d", "u">>
            BY <4>2, <3>5 DEF Flat
          <5> QED BY <5>1
        <4>3. CASE c.tokens[k + 1].spec # "text" /\ c.tokens[k + 1].spec # "du"
          <5>1. v = <<"%", c.tokens[k + 1].spec>>
            BY <4>3, <3>5 DEF Flat
          <5> QED BY <5>1
        <4> QED BY <4>1, <4>2, <4>3
      <3>9. s + 2 = (a + 2) + 1
        BY <1>10
      <3> QED BY <3>6, <3>8, <3>9
    <2> QED BY <2>1, <2>2, <2>3
  <1>14. s + ArgLength(f, s) = End(c.tokens, k) + 1
    <2>1. Len(w) \in Nat
      BY <1>5
    <2>2. PICK l \in Nat : l = Len(w)
      BY <2>1
    <2>3. ArgLength(f, s) = l /\ End(c.tokens, k) = a + l
      BY <2>2, <1>8, <1>13
    <2>4. (a + 1) + l = (a + l) + 1
      BY <2>2
    <2> QED BY <2>3, <2>4, <1>10
  <1> QED BY <1>2, <1>6, <1>11, <1>12, <1>14

\* From behind the k-th token the search goes to the next conversion m,
LEMMA SearchFindsConversion ==
    ASSUME NEW c, Proper(c.tokens), NEW k \in 0 .. Len(c.tokens), NEW m \in (k + 1) .. Len(c.tokens),
           \A i \in (k + 1) .. (m - 1) : c.tokens[i].spec = "text", c.tokens[m].spec # "text"
    PROVE  arg_start(Format(c), End(c.tokens, k) + 1) = End(c.tokens, m - 1) + 1
  <1> DEFINE f == Format(c)
             from == End(c.tokens, k) + 1
             s == End(c.tokens, m - 1) + 1
             found == {x \in from .. Len(f) : is_formatter(f, x)}
  <1>1. PICK n \in Nat : n = Len(c.tokens) /\ k \in 0 .. n /\ m \in (k + 1) .. n /\ m \in 1 .. n
    BY SMTT(40), LenProperties DEF Proper
  <1>2. Len(f) \in Nat /\ End(c.tokens, k) \in Nat /\ End(c.tokens, m - 1) \in Nat
    <2>1. m - 1 \in 0 .. n
      BY <1>1
    <2>2. End(c.tokens, k) \in 0 .. Len(f) /\ End(c.tokens, m - 1) \in 0 .. Len(f) /\ Len(f) \in Nat
      BY <2>1, <1>1, FormatIs
    <2> QED BY <2>2
  <1>3. is_formatter(f, s) /\ s \in 1 .. Len(f)
    BY <1>1, FormatterOfConversion
  <1>4. ASSUME NEW x \in found PROVE x >= s
    <2>1. SUFFICES ASSUME ~ (x >= s) PROVE FALSE
      OBVIOUS
    <2>2. x \in from .. End(c.tokens, m - 1)
      BY <2>1, <1>2
    <2>3. m - 1 \in k .. Len(c.tokens)
      BY <1>1
    <2>4. PICK i \in (k + 1) .. (m - 1) : x \in (End(c.tokens, i - 1) + 1) .. End(c.tokens, i)
      BY <2>2, <2>3, PlaceInToken
    <2>5. i \in 1 .. Len(c.tokens) /\ c.tokens[i].spec = "text"
      BY <1>1
    <2>6. ~ is_formatter(f, x)
      BY <2>4, <2>5, NoFormatterInText
    <2> QED BY <2>6
  <1>5. s \in found
    <2>1. End(c.tokens, k) <= End(c.tokens, m - 1)
      BY <1>1, PrefixEnds
    <2>2. s \in from .. Len(f)
      BY <2>1, <1>2, <1>3
    <2> QED BY <2>2, <1>3
  <1>6. Min(found) = s
    <2>1. found \subseteq Int
      BY <1>2
    <2>2. \A x \in found : s <= x
      BY <1>2, <1>4
    <2> HIDE DEF found, s, f
    <2>3. Min(found) \in found /\ \A y \in found : Min(found) <= y
      BY <1>5, <2>2 DEF Min
    <2>4. Min(found) \in Int /\ s \in Int /\ Min(found) <= s /\ s <= Min(found)
      BY <2>1, <2>2, <2>3, <1>5
    <2> QED BY ONLY <2>4
  <1> QED BY <1>5, <1>6 DEF arg_start

\* and nowhere when there is none.
LEMMA SearchFindsNothing ==
    ASSUME NEW c, Proper(c.tokens), NEW k \in 0 .. Len(c.tokens),
           \A i \in (k + 1) .. Len(c.tokens) : c.tokens[i].spec = "text"
    PROVE  arg_start(Format(c), End(c.tokens, k) + 1) = NULL
  <1> DEFINE f == Format(c)
             from == End(c.tokens, k) + 1
             found == {x \in from .. Len(f) : is_formatter(f, x)}
  <1>1. PICK n \in Nat : n = Len(c.tokens) /\ k \in 0 .. n
    BY LenProperties DEF Proper
  <1>2. Len(f) = End(c.tokens, n)
    BY <1>1, FormatIs
  <1>3. ASSUME NEW x \in found PROVE FALSE
    <2>1. x \in from .. End(c.tokens, n) /\ n \in k .. Len(c.tokens)
      BY <1>1, <1>2
    <2>2. PICK i \in (k + 1) .. n : x \in (End(c.tokens, i - 1) + 1) .. End(c.tokens, i)
      BY <2>1, PlaceInToken
    <2>3. i \in 1 .. Len(c.tokens) /\ c.tokens[i].spec = "text"
      BY <1>1
    <2>4. ~ is_formatter(f, x)
      BY <2>2, <2>3, NoFormatterInText
    <2> QED BY <2>4
  <1>4. found = {}
    <2> HIDE DEF found
    <2> QED BY <1>3
  <1> QED BY <1>4 DEF arg_start

\* The first element of a sequence may as well end the one before it.
LEMMA HeadMoves ==
    ASSUME NEW S, NEW a \in Seq(S), NEW rest \in Seq(S), rest # <<>>, NEW x, x = Head(rest)
    PROVE  (a \o <<x>>) \o Tail(rest) = a \o rest
  <1>1. rest[1] = x /\ Len(rest) \in Nat /\ 1 \in 1 .. Len(rest)
    BY EmptySeq
  <1>2. <<x>> \in Seq(S) /\ Tail(rest) \in Seq(S)
    <2>1. x \in S /\ Tail(rest) \in Seq(S)
      BY HeadTailProperties
    <2> QED BY <2>1
  <1>3. <<x>> \o Tail(rest) = rest
    <2>1. PICK y \in Seq(S) : y = Tail(rest)
      BY <1>2
    <2>2. Len(y) = Len(rest) - 1 /\ \A i \in 1 .. Len(y) : y[i] = rest[i + 1]
      BY <2>1, HeadTailProperties
    <2>3. /\ <<x>> \o y \in Seq(S) /\ Len(<<x>> \o y) = 1 + Len(y)
          /\ \A i \in 1 .. (1 + Len(y)) : (<<x>> \o y)[i] = IF i <= 1 THEN <<x>>[i] ELSE y[i - 1]
      BY <1>2, ConcatProperties
    <2>4. ASSUME NEW i \in 1 .. Len(rest) PROVE (<<x>> \o y)[i] = rest[i]
      <3>1. i \in 1 .. (1 + Len(y))
        BY <2>2, <1>1
      <3>2. CASE i = 1
        BY <3>1, <3>2, <2>3, <1>1
      <3>3. CASE i # 1
        <4>1. i - 1 \in 1 .. Len(y) /\ ~ (i <= 1) /\ (i - 1) + 1 = i
          BY <3>3, <2>2, <1>1
        <4> QED BY <4>1, <3>1, <2>2, <2>3
      <3> QED BY <3>2, <3>3
    <2>5. Len(<<x>> \o y) = Len(rest)
      BY <2>2, <2>3, <1>1
    <2>6. <<x>> \o y = rest
      BY <2>3, <2>4, <2>5, SeqEqual
    <2> QED BY <2>1, <2>6
  <1>4. PICK y \in Seq(S) : y = <<x>>
    BY <1>2
  <1>5. PICK z \in Seq(S) : z = Tail(rest)
    BY <1>2
  <1>6. (a \o y) \o z = a \o (y \o z)
    BY SMTT(40), ConcatAssociative
  <1> QED BY <1>3, <1>4, <1>5, <1>6

\* The argument of the next conversion is the first that is left.
LEMMA NextArgument ==
    ASSUME NEW ss \in Seq(Seq(Token)), NEW k \in 0 .. Len(ss), NEW m \in (k + 1) .. Len(ss),
           Joined(ss, m - 1) = Joined(ss, k), ss[m] = <<ss[m][1]>>,
           NEW rest \in Seq(Token), Joined(ss, k) \o rest = Joined(ss, Len(ss))
    PROVE  /\ rest # <<>> /\ Head(rest) = ss[m][1] /\ Tail(rest) \in Seq(Token)
           /\ Joined(ss, m) \o Tail(rest) = Joined(ss, Len(ss))
  <1>1. PICK x : x = ss[m][1] /\ ss[m] = <<x>>
    OBVIOUS
  <1>2. PICK n \in Nat : n = Len(ss) /\ k \in 0 .. n /\ m \in 1 .. n /\ m - 1 \in 0 .. n
    BY LenProperties
  <1>3. PICK a \in Seq(Token) : a = Joined(ss, k) /\ Len(a) \in Nat
    BY JoinedType
  <1>4. PICK f : f = Joined(ss, n) /\ a \o rest = f
    BY <1>2, <1>3
  <1>5. Len(rest) \in Nat /\ Len(f) = Len(a) + Len(rest) /\ <<x>> \in Seq(Token)
    <2>1. <<x>> \in Seq(Token)
      BY <1>1, <1>2, ElementOfSeq
    <2> QED BY <2>1, <1>4, ConcatProperties, LenProperties
  <1>6. Len(a) + 1 <= Len(f) /\ f[Len(a) + 1] = x
    <2>1. /\ Len(Joined(ss, m - 1)) + Len(ss[m]) <= Len(Joined(ss, Len(ss)))
          /\ \A j \in 1 .. Len(ss[m]) : Joined(ss, Len(ss))[Len(Joined(ss, m - 1)) + j] = ss[m][j]
      BY <1>2, JoinedPart
    <2>2. Len(<<x>>) = 1 /\ <<x>>[1] = x /\ 1 \in 1 .. 1
      OBVIOUS
    <2> QED BY <2>1, <2>2, <1>1, <1>2, <1>3, <1>4
  <1>7. 1 \in 1 .. Len(rest)
    BY <1>3, <1>5, <1>6
  <1>8. rest # <<>>
    BY <1>7
  <1>9. rest[1] = x
    <2>1. f[Len(a) + 1] = rest[1]
      <3>1. Len(a) + 1 \in 1 .. (Len(a) + Len(rest)) /\ ~ (Len(a) + 1 <= Len(a)) /\ (Len(a) + 1) - Len(a) = 1
        BY <1>3, <1>5, <1>7
      <3>2. (a \o rest)[Len(a) + 1] = rest[(Len(a) + 1) - Len(a)]
        BY <3>1, ConcatProperties
      <3> QED BY <3>1, <3>2, <1>4
    <2> QED BY <2>1, <1>6
  <1>10. Head(rest) = x /\ Tail(rest) \in Seq(Token)
    BY <1>8, <1>9, HeadTailProperties
  <1>11. Joined(ss, m) = a \o <<x>>
    BY <1>1, <1>2, <1>3, JoinedStep
  <1>12. (a \o <<x>>) \o Tail(rest) = a \o rest
    BY <1>8, <1>10, HeadMoves
  <1> QED BY <1>1, <1>2, <1>4, <1>8, <1>10, <1>11, <1>12

-----------------------------------------------------------------------------
(* A turn of the loop.                                                     *)

\* The last turn, which prints the rest of the format.
LEMMA LastTurn ==
    ASSUME NEW c, Proper(c.tokens),
           NEW k \in 0 .. Len(c.tokens), \A i \in (k + 1) .. Len(c.tokens) : c.tokens[i].spec = "text"
    PROVE  /\ arg_start(Format(c), End(c.tokens, k) + 1) = NULL
           /\ Joined(Outs(c.tokens), Len(c.tokens)) =
                Joined(Outs(c.tokens), k) \o SubSeq(Format(c), End(c.tokens, k) + 1, Len(Format(c)))
           /\ SubSeq(Format(c), End(c.tokens, k) + 1, Len(Format(c))) \in Seq(Chars)
           /\ Joined(Args(c.tokens), Len(c.tokens)) = Joined(Args(c.tokens), k)
  <1> DEFINE n == Len(c.tokens)
  <1>1. PICK ss \in Seq(Seq(Chars)) : ss = Flats(c.tokens) /\ Len(ss) = n
    BY PartsTyped
  <1>2. PICK tt \in Seq(Seq(Chars)) : tt = Outs(c.tokens) /\ Len(tt) = n
    BY PartsTyped
  <1>3. PICK uu \in Seq(Seq(Token)) : uu = Args(c.tokens) /\ Len(uu) = n
    BY PartsTyped
  <1>4. n \in Nat /\ DOMAIN c.tokens = 1 .. n /\ k \in Nat /\ n \in k .. n /\ k <= n
    BY PartsTyped
  <1>5. \A i \in (k + 1) .. n : tt[i] = ss[i] /\ uu[i] = <<>>
    <2> SUFFICES ASSUME NEW i \in (k + 1) .. n PROVE tt[i] = ss[i] /\ uu[i] = <<>>
      OBVIOUS
    <2>1. i \in DOMAIN c.tokens /\ c.tokens[i].spec = "text"
      BY <1>4
    <2> QED BY <2>1, <1>1, <1>2, <1>3 DEF Outs, Flats, Args, Flat, MeaningOf, Words
  <1>6. arg_start(Format(c), End(c.tokens, k) + 1) = NULL
    BY SearchFindsNothing
  <1>7. Joined(tt, n) = Joined(tt, k) \o SubSeq(Joined(ss, Len(ss)), Len(Joined(ss, k)) + 1, Len(Joined(ss, n)))
    <2>1. Len(tt) = Len(ss) /\ k \in 0 .. Len(ss) /\ n \in k .. Len(ss)
      BY <1>1, <1>2, <1>4
    <2>2. \A i \in (k + 1) .. n : tt[i] = ss[i]
      BY <1>5
    <2> QED BY <2>1, <2>2, JoinedSpan, Zenon
  <1>8. Joined(uu, n) = Joined(uu, k)
    BY <1>3, <1>4, <1>5, JoinedEmpty
  <1>9. /\ Format(c) = Joined(ss, Len(ss)) /\ Len(Format(c)) = Len(Joined(ss, n))
        /\ End(c.tokens, k) = Len(Joined(ss, k))
    BY <1>1, FormatIs DEF End
  <1>10. SubSeq(Format(c), End(c.tokens, k) + 1, Len(Format(c))) \in Seq(Chars)
    <2>1. Format(c) \in Seq(Chars) /\ Len(Format(c)) \in Nat /\ End(c.tokens, k) \in 0 .. Len(Format(c))
      BY FormatIs
    <2>2. PICK a \in Nat : a = End(c.tokens, k)
      BY <2>1
    <2>3. \A i \in (a + 1) .. Len(Format(c)) : Format(c)[i] \in Chars
      BY <2>1, ElementOfSeq
    <2> QED BY <2>1, <2>2, <2>3, SubSeqProperties
  <1> QED BY <1>2, <1>3, <1>6, <1>7, <1>8, <1>9, <1>10

\* A turn that comes to the conversion m: where it is,
LEMMA ConversionFound ==
    ASSUME NEW c, Proper(c.tokens),
           NEW k \in 0 .. Len(c.tokens), NEW m \in (k + 1) .. Len(c.tokens),
           \A i \in (k + 1) .. (m - 1) : c.tokens[i].spec = "text", c.tokens[m].spec # "text"
    PROVE  /\ arg_start(Format(c), End(c.tokens, k) + 1) = End(c.tokens, m - 1) + 1
           /\ End(c.tokens, m - 1) + 1 # NULL
           /\ (End(c.tokens, m - 1) + 1) + ArgLength(Format(c), End(c.tokens, m - 1) + 1)
                 = End(c.tokens, m) + 1
           /\ Format(c)[(End(c.tokens, m - 1) + 1) + 1] =
                 IF c.tokens[m].spec = "du" THEN "d" ELSE c.tokens[m].spec
  <1> DEFINE s == End(c.tokens, m - 1) + 1
  <1>1. m \in 1 .. Len(c.tokens)
    BY LenProperties DEF Proper
  <1>2. arg_start(Format(c), End(c.tokens, k) + 1) = s
    BY SearchFindsConversion
  <1>3. /\ s \in 1 .. Len(Format(c)) /\ s + ArgLength(Format(c), s) = End(c.tokens, m) + 1
        /\ Format(c)[s + 1] = IF c.tokens[m].spec = "du" THEN "d" ELSE c.tokens[m].spec
    BY <1>1, FormatterOfConversion
  <1>4. s # NULL
    BY <1>3 DEF NULL
  <1> QED BY <1>2, <1>3, <1>4

\* and what it should print.
Prints(c, k, m) ==
    /\ Joined(Outs(c.tokens), m) =
         (Joined(Outs(c.tokens), k)
            \o SubSeq(Format(c), End(c.tokens, k) + 1, (End(c.tokens, m - 1) + 1) - 1))
         \o MeaningOf(c.tokens[m])
    /\ SubSeq(Format(c), End(c.tokens, k) + 1, (End(c.tokens, m - 1) + 1) - 1) \in Seq(Chars)
    /\ Joined(Args(c.tokens), m - 1) = Joined(Args(c.tokens), k)

LEMMA ConversionPrints ==
    ASSUME NEW c, Proper(c.tokens),
           NEW k \in 0 .. Len(c.tokens), NEW m \in (k + 1) .. Len(c.tokens),
           \A i \in (k + 1) .. (m - 1) : c.tokens[i].spec = "text", c.tokens[m].spec # "text"
    PROVE  Prints(c, k, m)
  <1> DEFINE n == Len(c.tokens)
             s == End(c.tokens, m - 1) + 1
  <1>1. PICK ss \in Seq(Seq(Chars)) : ss = Flats(c.tokens) /\ Len(ss) = n
    BY PartsTyped
  <1>2. PICK tt \in Seq(Seq(Chars)) : tt = Outs(c.tokens) /\ Len(tt) = n
    BY PartsTyped
  <1>3. PICK uu \in Seq(Seq(Token)) : uu = Args(c.tokens) /\ Len(uu) = n
    BY PartsTyped
  <1>4. n \in Nat /\ DOMAIN c.tokens = 1 .. n
    BY PartsTyped
  <1>5. /\ k \in Nat /\ m - 1 \in k .. n /\ m \in 1 .. n /\ m - 1 \in Nat /\ k <= m - 1
        /\ m - 1 \in 0 .. n
    BY <1>4
  <1>6. \A i \in (k + 1) .. (m - 1) : tt[i] = ss[i] /\ uu[i] = <<>>
    <2> SUFFICES ASSUME NEW i \in (k + 1) .. (m - 1) PROVE tt[i] = ss[i] /\ uu[i] = <<>>
      OBVIOUS
    <2>1. i \in DOMAIN c.tokens /\ c.tokens[i].spec = "text"
      BY <1>4, <1>5
    <2> QED BY <2>1, <1>1, <1>2, <1>3 DEF Outs, Flats, Args, Flat, MeaningOf, Words
  <1>7. Joined(tt, m - 1) =
        Joined(tt, k) \o SubSeq(Joined(ss, Len(ss)), Len(Joined(ss, k)) + 1, Len(Joined(ss, m - 1)))
    <2>1. Len(tt) = Len(ss) /\ k \in 0 .. Len(ss) /\ m - 1 \in k .. Len(ss)
      BY <1>1, <1>2, <1>5
    <2>2. \A i \in (k + 1) .. (m - 1) : tt[i] = ss[i]
      BY <1>6
    <2> QED BY <2>1, <2>2, JoinedSpan, Zenon
  <1>8. tt[m] = MeaningOf(c.tokens[m])
    BY <1>2, <1>4, <1>5 DEF Outs
  <1>9. Joined(tt, m) = Joined(tt, m - 1) \o tt[m]
    BY <1>2, <1>5, JoinedStep
  <1>10. Joined(uu, m - 1) = Joined(uu, k)
    BY <1>3, <1>5, <1>6, JoinedEmpty
  <1>11. /\ Format(c) = Joined(ss, Len(ss)) /\ Format(c) \in Seq(Chars) /\ Len(Format(c)) \in Nat
         /\ End(c.tokens, k) = Len(Joined(ss, k)) /\ End(c.tokens, m - 1) = Len(Joined(ss, m - 1))
         /\ End(c.tokens, k) \in 0 .. Len(Format(c)) /\ End(c.tokens, m - 1) \in 0 .. Len(Format(c))
    BY <1>1, <1>5, FormatIs DEF End
  <1>12. s - 1 = End(c.tokens, m - 1)
    BY <1>11
  <1>13. SubSeq(Format(c), End(c.tokens, k) + 1, s - 1) \in Seq(Chars)
    <2>1. PICK a \in Nat : a = End(c.tokens, k)
      BY <1>11
    <2>2. PICK b \in Nat : b = s - 1 /\ b <= Len(Format(c))
      BY <1>11, <1>12
    <2>3. \A i \in (a + 1) .. b : Format(c)[i] \in Chars
      <3>1. \A i \in (a + 1) .. b : i \in 1 .. Len(Format(c))
        BY <2>2, <1>11
      <3> QED BY <3>1, <1>11, ElementOfSeq
    <2>4. a + 1 \in Int /\ b \in Int
      OBVIOUS
    <2>5. SubSeq(Format(c), a + 1, b) \in Seq(Chars)
      BY <2>3, <2>4, SubSeqProperties, Zenon
    <2> QED BY <2>1, <2>2, <2>5
  <1>14. Joined(tt, m) = (Joined(tt, k) \o SubSeq(Format(c), End(c.tokens, k) + 1, s - 1))
                         \o MeaningOf(c.tokens[m])
    BY <1>7, <1>8, <1>9, <1>11, <1>12, Zenon
  <1> QED BY <1>2, <1>3, <1>10, <1>13, <1>14, Zenon DEF Prints

-----------------------------------------------------------------------------
(* The state of a call: k tokens are converted, and what they print is      *)
(* printed or due.                                                          *)

Level(c) == IF c.level THEN LevelText ELSE <<>>
Shown(c, k) == Level(c) \o Joined(Outs(c.tokens), k)

Due(ps) ==
    CASE ps = <<>>    -> <<>>
      [] Len(ps) = 1  -> ps[1]
      [] OTHER              -> ps[1] \o ps[2]

\* No double among the first k tokens has left its words to the others.
Aligned(c, k) == \A i \in 1 .. k : c.tokens[i].spec # "f"

\* from, rest, buffer, due, num and out are the locals of the call.
Got(c, k, from, rest, buffer, due, num, out) ==
    /\ from = End(c.tokens, k) + 1 \/ (from = NULL /\ k = Len(c.tokens))
    /\ rest \in Seq(Given(c.tokens)) /\ Len(rest) >= Len(Arguments(c)) - Used(c.tokens, k)
    /\ Aligned(c, k) => Joined(Args(c.tokens), k) \o rest = Arguments(c)
    /\ buffer \in Seq(Chars)
    /\ Len(buffer) >= CONTAINER => MayOverrun(c) \/ (buffer = Junk /\ ~ c.level)
    /\ due \in Seq(Seq(Chars)) /\ Len(due) <= 2
    /\ out \in Seq(Chars) /\ num = Len(out)
    /\ Supported(c) => out \o Due(due) = Shown(c, k)

\* What the text of the next argument is made of.
ArgText(f, s, buffer, rest) ==
    CASE f[s + 1] = "f" -> buffer
      [] f[s + 1] = "c" -> FirstOf(Head(rest).str)
      [] f[s + 1] = "s" -> Head(rest).str
      [] OTHER          -> itoa[Head(rest).num]

LEMMA CallFacts ==
    ASSUME NEW t \in Threads, NEW c \in Calls[t]
    PROVE  /\ Proper(c.tokens) /\ Len(c.tokens) \in Nat /\ DOMAIN c.tokens = 1 .. Len(c.tokens)
           /\ c.level \in BOOLEAN /\ Level(c) \in Seq(Chars)
           /\ \A k \in 0 .. Len(c.tokens) : Joined(Outs(c.tokens), k) \in Seq(Chars)
           /\ \A k \in 0 .. Len(c.tokens) : Shown(c, k) \in Seq(Chars)
           /\ \A k \in 0 .. Len(c.tokens) : Supported(c) => Aligned(c, k)
  <1>1. Proper(c.tokens) /\ c.level \in BOOLEAN
    BY ProperCalls
  <1>2. Len(c.tokens) \in Nat /\ DOMAIN c.tokens = 1 .. Len(c.tokens)
    BY <1>1, LenProperties DEF Proper
  <1>3. Level(c) \in Seq(Chars)
    <2>1. <<>> \in Seq(Chars) /\ LevelText \in Seq(Chars)
      BY KprintfAssumption
    <2> QED BY <2>1, Zenon DEF Level
  <1>4. ASSUME NEW k \in 0 .. Len(c.tokens) PROVE Joined(Outs(c.tokens), k) \in Seq(Chars)
    <2>1. PICK tt \in Seq(Seq(Chars)) : tt = Outs(c.tokens) /\ Len(tt) = Len(c.tokens)
      BY <1>1, PartsTyped
    <2>2. k \in 0 .. Len(tt)
      BY <2>1
    <2>3. Joined(tt, k) \in Seq(Chars)
      BY <2>2, JoinedType
    <2> QED BY <2>1, <2>3
  <1>5. ASSUME NEW k \in 0 .. Len(c.tokens) PROVE Shown(c, k) \in Seq(Chars)
    BY <1>3, <1>4, ConcatProperties DEF Shown
  <1>6. ASSUME NEW k \in 0 .. Len(c.tokens), Supported(c) PROVE Aligned(c, k)
    <2>1. ASSUME NEW i \in 1 .. k PROVE c.tokens[i].spec # "f"
      <3>1. i \in DOMAIN c.tokens
        BY <1>2
      <3>2. \/ c.tokens[i].spec \in {"text", "c", "s"}
            \/ c.tokens[i].spec \in {"du", "p"} /\ c.tokens[i].num > 0
            \/ c.tokens[i].spec = "d" /\ c.tokens[i].num \in 1 .. INT_MAX
        BY <3>1, <1>6, Zenon DEF Supported
      <3> QED BY <3>2
    <2> QED BY <2>1 DEF Aligned
  <1> QED BY <1>1, <1>2, <1>3, <1>4, <1>5, <1>6

\* The text of one and of two pieces.
LEMMA DueFacts ==
    /\ Due(<<>>) = <<>>
    /\ \A x : Due(<<x>>) = x
    /\ \A x, y : Due(<<x, y>>) = x \o y
  <1>1. Due(<<>>) = <<>>
    BY DEF Due
  <1>2. ASSUME NEW x PROVE Due(<<x>>) = x
    <2>1. <<x>> # <<>> /\ Len(<<x>>) = 1 /\ <<x>>[1] = x
      OBVIOUS
    <2> QED BY <2>1, Zenon DEF Due
  <1>3. ASSUME NEW x, NEW y PROVE Due(<<x, y>>) = x \o y
    <2>1. <<x, y>> # <<>> /\ Len(<<x, y>>) # 1 /\ <<x, y>>[1] = x /\ <<x, y>>[2] = y
      OBVIOUS
    <2> QED BY <2>1, Zenon DEF Due
  <1> QED BY <1>1, <1>2, <1>3

\* A call begins,
LEMMA CallBegins ==
    ASSUME NEW t \in Threads, NEW c \in Calls[t]
    PROVE  Got(c, 0, 1, Arguments(c), IF c.level THEN <<>> ELSE Junk,
               IF c.level THEN <<LevelText>> ELSE <<>>, 0, <<>>)
  <1>1. Proper(c.tokens) /\ Level(c) \in Seq(Chars) /\ c.level \in BOOLEAN
    BY CallFacts
  <1>2. /\ 1 = End(c.tokens, 0) + 1 /\ Arguments(c) \in Seq(Token) /\ Arguments(c) \in Seq(Given(c.tokens))
        /\ Len(Arguments(c)) >= Len(Arguments(c)) - Used(c.tokens, 0)
    BY <1>1, FormatIs
  <1>3. Joined(Args(c.tokens), 0) \o Arguments(c) = Arguments(c)
    <2>1. Joined(Args(c.tokens), 0) = <<>>
      BY DEF Joined
    <2> QED BY <2>1, <1>2, ConcatEmptySeq
  <1> DEFINE buffer == IF c.level THEN <<>> ELSE Junk
  <1>4. /\ buffer \in Seq(Chars)
        /\ Len(buffer) >= CONTAINER => buffer = Junk /\ ~ c.level
    <2>1. CONTAINER \in Nat /\ CONTAINER > 10 /\ Junk \in Seq(Chars)
      BY KprintfAssumption
    <2>2. CASE c.level
      <3>1. buffer = <<>>
        BY <2>2
      <3>2. <<>> \in Seq(Chars) /\ ~ (Len(<<>>) >= CONTAINER)
        BY <2>1
      <3> QED BY <3>1, <3>2
    <2>3. CASE ~ c.level
      BY <2>1, <2>3
    <2> QED BY <2>2, <2>3
  <1> DEFINE due == IF c.level THEN <<LevelText>> ELSE <<>>
  <1>5. due \in Seq(Seq(Chars)) /\ Len(due) <= 2 /\ Due(due) = Level(c)
    <2>1. CASE c.level
      <3>1. due = <<LevelText>> /\ Level(c) = LevelText /\ LevelText \in Seq(Chars)
        BY <2>1, KprintfAssumption DEF Level
      <3>2. Due(<<LevelText>>) = LevelText
        BY DueFacts, Zenon
      <3>3. <<LevelText>> \in Seq(Seq(Chars)) /\ Len(<<LevelText>>) <= 2
        BY <3>1
      <3> QED BY <3>1, <3>2, <3>3
    <2>2. CASE ~ c.level
      <3>1. due = <<>> /\ Level(c) = <<>>
        BY <2>2 DEF Level
      <3>2. <<>> \in Seq(Seq(Chars)) /\ Len(<<>>) <= 2
        OBVIOUS
      <3> QED BY <3>1, <3>2, DueFacts, Zenon
    <2> QED BY <2>1, <2>2
  <1>6. <<>> \in Seq(Chars) /\ <<>> \o Due(due) = Shown(c, 0) /\ 0 = Len(<<>>)
    <2>1. Joined(Outs(c.tokens), 0) = <<>>
      BY DEF Joined
    <2>2. Level(c) \o <<>> = Level(c) /\ <<>> \o Level(c) = Level(c) /\ <<>> \in Seq(Chars)
      BY <1>1, ConcatEmptySeq
    <2>3. 0 = Len(<<>>)
      OBVIOUS
    <2> HIDE DEF due
    <2> QED BY <2>1, <2>2, <2>3, <1>5, Zenon DEF Shown
  <1> HIDE DEF buffer, due
  <1>7. Got(c, 0, 1, Arguments(c), buffer, due, 0, <<>>)
    BY <1>2, <1>3, <1>4, <1>5, <1>6, Zenon DEF Got
  <1> QED BY <1>7 DEF buffer, due

\* writes a piece,
LEMMA PieceWritten ==
    ASSUME NEW t \in Threads, NEW c \in Calls[t], NEW k \in 0 .. Len(c.tokens),
           NEW from, NEW rest, NEW buffer, NEW due, NEW num, NEW out,
           Got(c, k, from, rest, buffer, due, num, out), due # <<>>
    PROVE  Got(c, k, from, rest, buffer, Tail(due), num + Len(Head(due)), out \o Head(due))
  <1>1. due \in Seq(Seq(Chars)) /\ Len(due) <= 2 /\ out \in Seq(Chars) /\ num = Len(out)
        /\ (Supported(c) => out \o Due(due) = Shown(c, k))
    BY DEF Got
  <1>2. Len(due) = 1 \/ Len(due) = 2
    <2>1. Len(due) \in Nat /\ Len(due) # 0
      BY <1>1, EmptySeq
    <2>2. \A n \in Nat : n # 0 /\ n <= 2 => n = 1 \/ n = 2
      OBVIOUS
    <2> QED BY <2>1, <2>2, <1>1, Zenon
  <1>3. CASE Len(due) = 1
    <2>1. PICK x \in Seq(Chars) : due = <<x>>
      BY <1>1, <1>3
    <2>2. Head(due) = x /\ Tail(due) = <<>>
      BY <2>1
    <2>3. Due(due) = x /\ Due(Tail(due)) = <<>>
      BY <2>1, <2>2, DueFacts, Zenon
    <2>4. out \o x \in Seq(Chars) /\ Len(out \o x) = Len(out) + Len(x)
      BY <1>1, ConcatProperties
    <2>5. (out \o x) \o <<>> = out \o x
      BY <2>4, ConcatEmptySeq
    <2>6. <<>> \in Seq(Seq(Chars)) /\ Len(<<>>) <= 2
      OBVIOUS
    <2> QED BY <2>2, <2>3, <2>4, <2>5, <2>6, <1>1, Zenon DEF Got
  <1>4. CASE Len(due) = 2
    <2>1. PICK x \in Seq(Chars), y \in Seq(Chars) : due = <<x, y>>
      <3>1. due[1] \in Seq(Chars) /\ due[2] \in Seq(Chars)
        <4>1. 1 \in 1 .. Len(due) /\ 2 \in 1 .. Len(due)
          BY <1>4
        <4> QED BY <4>1, <1>1, ElementOfSeq, Zenon
      <3>2. due = <<due[1], due[2]>>
        <4>1. <<due[1], due[2]>> \in Seq(Seq(Chars)) /\ Len(<<due[1], due[2]>>) = 2
          BY <3>1
        <4>2. \A i \in 1 .. 2 : <<due[1], due[2]>>[i] = due[i]
          OBVIOUS
        <4> QED BY <4>1, <4>2, <1>1, <1>4, SeqEqual
      <3> QED BY <3>1, <3>2
    <2>2. Head(due) = x /\ Tail(due) = <<y>>
      BY <2>1
    <2>3. Due(due) = x \o y /\ Due(Tail(due)) = y
      BY <2>1, <2>2, DueFacts, Zenon
    <2>4. out \o x \in Seq(Chars) /\ Len(out \o x) = Len(out) + Len(x)
      BY <1>1, ConcatProperties
    <2>5. (out \o x) \o y = out \o (x \o y)
      <3>1. PICK o \in Seq(Chars) : o = out
        BY <1>1, Zenon
      <3>2. (o \o x) \o y = o \o (x \o y)
        BY ONLY o \in Seq(Chars), x \in Seq(Chars), y \in Seq(Chars), ConcatAssociative
      <3> QED BY <3>1, <3>2
    <2>6. <<y>> \in Seq(Seq(Chars)) /\ Len(<<y>>) <= 2
      OBVIOUS
    <2> QED BY <2>2, <2>3, <2>4, <2>5, <2>6, <1>1, Zenon DEF Got
  <1> QED BY <1>2, <1>3, <1>4

\* and has printed everything when it returns.
LEMMA CallEnds ==
    ASSUME NEW t \in Threads, NEW c \in Calls[t], NEW k \in 0 .. Len(c.tokens),
           NEW rest, NEW buffer, NEW num, NEW out,
           Got(c, k, NULL, rest, buffer, <<>>, num, out)
    PROVE  /\ num = Len(out)
           /\ Supported(c) => out = Level(c) \o Meaning(c.tokens) /\ rest = <<>>
  <1>1. Proper(c.tokens) /\ Len(c.tokens) \in Nat
    BY CallFacts
  <1>2. k = Len(c.tokens)
    <2>1. End(c.tokens, k) + 1 # NULL
      <3>1. End(c.tokens, k) \in 0 .. Len(Format(c)) /\ Len(Format(c)) \in Nat
        BY <1>1, FormatIs
      <3> QED BY <3>1 DEF NULL
    <2> QED BY <2>1 DEF Got
  <1>3. out \in Seq(Chars) /\ num = Len(out) /\ rest \in Seq(Given(c.tokens))
    BY DEF Got
  <1>4. ASSUME Supported(c) PROVE out = Level(c) \o Meaning(c.tokens) /\ rest = <<>>
    <2>1. out \o <<>> = Level(c) \o Joined(Outs(c.tokens), Len(c.tokens))
      BY <1>2, <1>4, DueFacts DEF Got, Shown
    <2>2. Meaning(c.tokens) = Joined(Outs(c.tokens), Len(c.tokens))
      <3>1. PICK tt \in Seq(Seq(Chars)) : tt = Outs(c.tokens) /\ Len(tt) = Len(c.tokens)
        BY <1>1, PartsTyped
      <3>2. Meaning(c.tokens) = FlattenSeq(tt)
        BY <3>1, Zenon DEF Meaning, Outs
      <3>3. FlattenSeq(tt) = Joined(tt, Len(tt))
        BY FlattenIsJoined
      <3> QED BY <3>1, <3>2, <3>3
    <2>3. out \o <<>> = out
      BY <1>3, ConcatEmptySeq
    <2>4. rest = <<>>
      <3>1. PICK a \in Seq(Token) : a = Arguments(c) /\ a = Joined(Args(c.tokens), Len(c.tokens))
        BY <1>1, FormatIs
      <3>2. a \o rest = a
        BY <3>1, <1>2, <1>4, CallFacts DEF Got
      <3>3. rest \in Seq(Token)
        BY <1>1, <1>3, GivenFacts
      <3> QED BY <3>2, <3>3, ConcatEqualIffEmpty
    <2> QED BY <2>1, <2>2, <2>3, <2>4
  <1> QED BY <1>3, <1>4

\* A turn in which the search finds nothing prints the rest of the format,
LEMMA SearchEnds ==
    ASSUME NEW t \in Threads, NEW c \in Calls[t], NEW k \in 0 .. Len(c.tokens),
           NEW from, NEW rest, NEW buffer, NEW num, NEW out,
           Got(c, k, from, rest, buffer, <<>>, num, out), from = End(c.tokens, k) + 1,
           \A i \in (k + 1) .. Len(c.tokens) : c.tokens[i].spec = "text"
    PROVE  /\ arg_start(Format(c), from) = NULL
           /\ Got(c, Len(c.tokens), NULL, rest, buffer,
                  <<SubSeq(Format(c), from, Len(Format(c)))>>, num, out)
  <1>1. Proper(c.tokens) /\ Len(c.tokens) \in Nat
        /\ Level(c) \in Seq(Chars) /\ Joined(Outs(c.tokens), k) \in Seq(Chars)
    BY CallFacts
  <1>2. PICK n \in Nat : n = Len(c.tokens)
    BY <1>1
  <1>3. PICK piece : piece = SubSeq(Format(c), from, Len(Format(c)))
    OBVIOUS
  <1>4. PICK o : o = Joined(Outs(c.tokens), k)
    OBVIOUS
  <1>5. /\ arg_start(Format(c), from) = NULL
        /\ Joined(Outs(c.tokens), n) = o \o piece
        /\ piece \in Seq(Chars)
        /\ Joined(Args(c.tokens), n) = Joined(Args(c.tokens), k)
    BY <1>1, <1>2, <1>3, <1>4, LastTurn, Zenon
  <1>6. /\ rest \in Seq(Given(c.tokens)) /\ Len(rest) >= Len(Arguments(c)) - Used(c.tokens, k)
        /\ Aligned(c, k) => Joined(Args(c.tokens), k) \o rest = Arguments(c)
        /\ buffer \in Seq(Chars)
        /\ Len(buffer) >= CONTAINER => MayOverrun(c) \/ (buffer = Junk /\ ~ c.level)
        /\ out \in Seq(Chars) /\ num = Len(out)
        /\ Supported(c) => out \o <<>> = Level(c) \o o
    BY <1>4, DueFacts, Zenon DEF Got, Shown
  <1>7. Aligned(c, n) => Aligned(c, k)
    BY <1>2 DEF Aligned
  <1>8. ASSUME Supported(c) PROVE out \o Due(<<piece>>) = Shown(c, n)
    <2>1. Due(<<piece>>) = piece
      BY DueFacts, Zenon
    <2>2. PICK u \in Seq(Chars), v \in Seq(Chars), w \in Seq(Chars) : u = Level(c) /\ v = o /\ w = piece
      BY <1>1, <1>4, <1>5, Zenon
    <2>3. (u \o v) \o w = u \o (v \o w)
      BY ONLY u \in Seq(Chars), v \in Seq(Chars), w \in Seq(Chars), ConcatAssociative
    <2>4. out \o <<>> = out
      BY <1>6, ConcatEmptySeq
    <2> QED BY <2>1, <2>2, <2>3, <2>4, <1>5, <1>6, <1>8, Zenon DEF Shown
  <1>9. <<piece>> \in Seq(Seq(Chars)) /\ Len(<<piece>>) <= 2
    BY <1>5
  <1>10. Len(rest) >= Len(Arguments(c)) - Used(c.tokens, n)
    BY <1>5, <1>6 DEF Used
  <1>11. Got(c, n, NULL, rest, buffer, <<piece>>, num, out)
    BY <1>2, <1>5, <1>6, <1>7, <1>8, <1>9, <1>10, Zenon DEF Got
  <1> QED BY <1>2, <1>3, <1>5, <1>11, Zenon

\* The first character of a string.
LEMMA FirstOfFacts ==
    ASSUME NEW str \in Seq(Chars)
    PROVE  /\ FirstOf(str) \in Seq(Chars) /\ Len(FirstOf(str)) \in 0 .. 10
           /\ Len(str) = 1 => FirstOf(str) = str
  <1>1. CASE str = <<>>
    BY <1>1 DEF FirstOf
  <1>2. CASE str # <<>>
    <2>1. PICK x \in Chars : x = Head(str) /\ x = str[1]
      BY <1>2, HeadTailProperties
    <2>2. FirstOf(str) = <<x>>
      BY <1>2, <2>1 DEF FirstOf
    <2>3. <<x>> \in Seq(Chars) /\ Len(<<x>>) = 1 /\ <<x>>[1] = x
      OBVIOUS
    <2>4. ASSUME Len(str) = 1 PROVE <<x>> = str
      <3>1. \A i \in 1 .. 1 : <<x>>[i] = str[i]
        BY <2>1
      <3> QED BY <3>1, <2>3, <2>4, SeqEqual
    <2> QED BY <2>2, <2>3, <2>4
  <1> QED BY <1>1, <1>2

\* The text of an argument: what the token means, if it is the token's and one that
\* is supported, and no longer than the buffer, if it is not a string.
LEMMA ArgumentText ==
    ASSUME NEW c, Proper(c.tokens), NEW m \in 1 .. Len(c.tokens), NEW f, NEW s, NEW buffer, NEW rest,
           f[s + 1] = (IF c.tokens[m].spec = "du" THEN "d" ELSE c.tokens[m].spec),
           c.tokens[m].spec # "f", c.tokens[m].spec # "text", Head(rest) \in Given(c.tokens)
    PROVE  /\ ArgText(f, s, buffer, rest) \in Seq(Chars)
           /\ Len(ArgText(f, s, buffer, rest)) >= CONTAINER =>
                c.tokens[m].spec = "s" /\ Len(Head(rest).str) >= CONTAINER
           /\ Supported(c) /\ Head(rest) = c.tokens[m] =>
                ArgText(f, s, buffer, rest) = MeaningOf(c.tokens[m])
  <1>1. PICK spec : spec = c.tokens[m].spec
    OBVIOUS
  <1>2. PICK h : h = Head(rest)
    OBVIOUS
  <1>3. PICK got : got = ArgText(f, s, buffer, rest)
    OBVIOUS
  <1>4. h \in Token /\ h.num \div 10 < PowersOfTen[10]
    BY <1>2, GivenFacts
  <1>5. /\ h.num \in Nat /\ h.str \in Seq(Chars)
        /\ Numeral(h.num) \in Seq(Chars) /\ Len(Numeral(h.num)) \in 0 .. 10
    <2>1. h.num \in Nat /\ h.str \in Seq(Chars)
      BY <1>4, TokenFacts
    <2> QED BY <2>1, NumeralFacts
  <1>6. itoa[h.num] = Numeral(h.num)
    BY <1>4, <1>5, ItoaIsNumeral
  <1>7. \A y \in 0 .. 10 : ~ (y >= CONTAINER)
    BY KprintfAssumption
  <1>8. spec # "f" /\ spec # "text"
    BY <1>1
  <1>9. m \in DOMAIN c.tokens
    BY LenProperties DEF Proper
  <1>10. CASE spec = "c"
    <2>1. f[s + 1] = "c"
      BY <1>1, <1>10
    <2>2. got = FirstOf(h.str)
      BY <2>1, <1>2, <1>3 DEF ArgText
    <2>3. got \in Seq(Chars) /\ Len(got) \in 0 .. 10
      BY <2>2, <1>5, FirstOfFacts
    <2>4. ASSUME h = c.tokens[m] PROVE got = MeaningOf(c.tokens[m])
      <3>1. Len(h.str) = 1
        BY <2>4, <1>1, <1>10, Zenon DEF Proper
      <3>2. got = h.str
        BY <3>1, <2>2, <1>5, FirstOfFacts
      <3>3. MeaningOf(h) = h.str
        BY <2>4, <1>1, <1>10 DEF MeaningOf
      <3> QED BY <3>2, <3>3, <2>4
    <2> QED BY <2>3, <2>4, <1>2, <1>3, <1>7
  <1>11. CASE spec = "s"
    <2>1. f[s + 1] = "s"
      BY <1>1, <1>11
    <2>2. got = h.str
      BY <2>1, <1>2, <1>3 DEF ArgText
    <2>3. h = c.tokens[m] => MeaningOf(c.tokens[m]) = h.str
      BY <1>1, <1>11 DEF MeaningOf
    <2> QED BY <2>2, <2>3, <1>1, <1>2, <1>3, <1>5, <1>11
  <1>12. CASE spec # "c" /\ spec # "s"
    <2>1. f[s + 1] # "c" /\ f[s + 1] # "s" /\ f[s + 1] # "f"
      BY <1>1, <1>8, <1>12
    <2>2. got = Numeral(h.num)
      BY <2>1, <1>2, <1>3, <1>6, Zenon DEF ArgText
    <2>3. ASSUME Supported(c), h = c.tokens[m] PROVE got = MeaningOf(c.tokens[m])
      <3>1. h.num # 0
        <4>1. \/ spec \in {"text", "c", "s"}
              \/ spec \in {"du", "p"} /\ h.num > 0
              \/ spec = "d" /\ h.num \in 1 .. INT_MAX
          BY <2>3, <1>1, <1>9, Zenon DEF Supported
        <4> QED BY <4>1, <1>5, <1>8, <1>12
      <3>2. MeaningOf(h) = Numeral(h.num)
        BY <3>1, <2>3, <1>1, <1>8, <1>12 DEF MeaningOf
      <3> QED BY <3>2, <2>2, <2>3
    <2>4. got \in Seq(Chars) /\ Len(got) \in 0 .. 10
      BY <2>2, <1>5
    <2> QED BY <2>3, <2>4, <1>2, <1>3, <1>7
  <1> QED BY <1>10, <1>11, <1>12

\* A turn that comes to the conversion m.
GoesOn(c, m, from, rest, buffer, num, out) ==
    LET f == Format(c)
        s == arg_start(f, from)
        got == ArgText(f, s, buffer, rest)
        next == IF TakesArg(f, s) THEN Tail(rest) ELSE rest
    IN  /\ s # NULL
        /\ Len(got) >= CONTAINER => MayOverrun(c)
        /\ Got(c, m, s + ArgLength(f, s), next, got, <<SubSeq(f, from, s - 1), got>>, num, out)

\* It prints the text before the conversion and what its argument makes.
LEMMA SearchGoesOn ==
    ASSUME NEW t \in Threads, NEW c \in Calls[t], NEW k \in 0 .. Len(c.tokens),
           NEW from, NEW rest, NEW buffer, NEW num, NEW out,
           Got(c, k, from, rest, buffer, <<>>, num, out), from = End(c.tokens, k) + 1,
           NEW m \in (k + 1) .. Len(c.tokens), c.tokens[m].spec # "text",
           \A i \in (k + 1) .. (m - 1) : c.tokens[i].spec = "text"
    PROVE  GoesOn(c, m, from, rest, buffer, num, out)
  <1>0. PICK f, s, got, next : /\ f = Format(c) /\ s = arg_start(f, from)
                              /\ got = ArgText(f, s, buffer, rest)
                              /\ next = IF TakesArg(f, s) THEN Tail(rest) ELSE rest
    OBVIOUS
  <1>1. Proper(c.tokens) /\ Len(c.tokens) \in Nat /\ DOMAIN c.tokens = 1 .. Len(c.tokens)
        /\ Level(c) \in Seq(Chars) /\ Joined(Outs(c.tokens), k) \in Seq(Chars)
    BY CallFacts
  <1>2. PICK n \in Nat : n = Len(c.tokens)
    BY <1>1
  <1>3. PICK spec : spec = c.tokens[m].spec
    OBVIOUS
  <1>4. PICK o : o = Joined(Outs(c.tokens), k)
    OBVIOUS
  <1>5. PICK piece : piece = SubSeq(f, from, s - 1)
    OBVIOUS
  <1>6. PICK conv : conv = MeaningOf(c.tokens[m])
    OBVIOUS
  <1>7. /\ s # NULL /\ s + ArgLength(f, s) = End(c.tokens, m) + 1
        /\ f[s + 1] = IF spec = "du" THEN "d" ELSE spec
        /\ Joined(Outs(c.tokens), m) = (o \o piece) \o conv
        /\ piece \in Seq(Chars)
        /\ Joined(Args(c.tokens), m - 1) = Joined(Args(c.tokens), k)
    <2>1. /\ arg_start(Format(c), End(c.tokens, k) + 1) = End(c.tokens, m - 1) + 1
          /\ End(c.tokens, m - 1) + 1 # NULL
          /\ (End(c.tokens, m - 1) + 1) + ArgLength(Format(c), End(c.tokens, m - 1) + 1)
                = End(c.tokens, m) + 1
          /\ Format(c)[(End(c.tokens, m - 1) + 1) + 1] =
                IF c.tokens[m].spec = "du" THEN "d" ELSE c.tokens[m].spec
      BY <1>1, ConversionFound, Zenon
    <2>2. Prints(c, k, m)
      BY <1>1, ConversionPrints, Zenon
    <2>3. s = End(c.tokens, m - 1) + 1 /\ f = Format(c)
      BY <2>1, <1>0
    <2> QED BY <2>1, <2>2, <2>3, <1>3, <1>4, <1>5, <1>6, Zenon DEF Prints
  <1>8. /\ rest \in Seq(Given(c.tokens)) /\ Len(rest) >= Len(Arguments(c)) - Used(c.tokens, k)
        /\ Aligned(c, k) => Joined(Args(c.tokens), k) \o rest = Arguments(c)
        /\ buffer \in Seq(Chars)
        /\ Len(buffer) >= CONTAINER => MayOverrun(c) \/ (buffer = Junk /\ ~ c.level)
        /\ out \in Seq(Chars) /\ num = Len(out)
        /\ Supported(c) => out \o <<>> = Level(c) \o o
    BY <1>4, DueFacts, Zenon DEF Got, Shown
  <1>9. m \in 1 .. n /\ m \in 0 .. n /\ m \in Nat /\ m - 1 \in Nat /\ k \in 0 .. n /\ k <= m - 1
        /\ m \in DOMAIN c.tokens
    BY <1>1, <1>2
  <1>10. PICK uu \in Seq(Seq(Token)) : uu = Args(c.tokens) /\ Len(uu) = n
    BY <1>1, <1>2, PartsTyped
  <1>11. Arguments(c) = Joined(uu, Len(uu))
    BY <1>1, <1>2, <1>10, FormatIs
  <1>12. /\ Used(c.tokens, m) = Used(c.tokens, k) + Len(Words(c.tokens[m]))
         /\ Used(c.tokens, m) \in 0 .. Len(Arguments(c)) /\ Used(c.tokens, k) \in Nat
         /\ Len(Arguments(c)) \in Nat /\ Len(rest) \in Nat
    <2>1. Used(c.tokens, m) = Used(c.tokens, m - 1) + Len(Words(c.tokens[m]))
      BY <1>1, <1>2, <1>9, FormatIs
    <2>2. Used(c.tokens, m - 1) = Used(c.tokens, k)
      BY <1>7 DEF Used
    <2>3. /\ Used(c.tokens, m) \in 0 .. Len(Arguments(c)) /\ Used(c.tokens, k) \in 0 .. Len(Arguments(c))
          /\ Len(Arguments(c)) \in Nat
      BY <1>1, <1>2, <1>9, FormatIs
    <2>4. Len(rest) \in Nat
      BY <1>8, LenProperties
    <2> QED BY <2>1, <2>2, <2>3, <2>4
  <1>13. /\ got \in Seq(Chars)
         /\ Len(got) >= CONTAINER => MayOverrun(c)
         /\ Supported(c) => got = conv
         /\ next \in Seq(Given(c.tokens)) /\ Len(next) >= Len(Arguments(c)) - Used(c.tokens, m)
         /\ Aligned(c, m) => Joined(uu, m) \o next = Arguments(c)
    <2>1. CASE spec = "f"
      <3>1. f[s + 1] = "f"
        BY <2>1, <1>7
      <3>2. got = buffer /\ next = rest
        BY <3>1, <1>0, Zenon DEF ArgText, TakesArg
      <3>3. ~ Aligned(c, m)
        BY <2>1, <1>3, <1>9 DEF Aligned
      <3>4. ~ Supported(c)
        BY <3>3, <1>2, <1>9, CallFacts
      <3>5. Len(next) >= Len(Arguments(c)) - Used(c.tokens, m)
        <4>1. Words(c.tokens[m]) = <<c.tokens[m], c.tokens[m]>>
          BY <2>1, <1>3 DEF Words
        <4>2. Len(Words(c.tokens[m])) = 2
          BY <4>1
        <4> QED BY <4>2, <3>2, <1>8, <1>12
      <3>6. Len(got) >= CONTAINER => MayOverrun(c)
        <4>1. buffer = Junk /\ ~ c.level /\ Len(Junk) >= CONTAINER => MayOverrun(c)
          BY <2>1, <1>3, <1>9, Zenon DEF MayOverrun
        <4> QED BY <4>1, <3>2, <1>8
      <3> QED BY <3>2, <3>3, <3>4, <3>5, <3>6, <1>8
    <2>2. CASE spec # "f"
      <3>1. f[s + 1] # "f" /\ next = Tail(rest)
        BY <2>2, <1>0, <1>7 DEF TakesArg
      <3>2. Words(c.tokens[m]) = <<c.tokens[m]>>
        BY <2>2, <1>3 DEF Words
      <3>3. Used(c.tokens, m) = Used(c.tokens, k) + 1 /\ Len(rest) >= 1
        <4>1. Len(Words(c.tokens[m])) = 1
          BY <3>2
        <4> QED BY <4>1, <1>8, <1>12
      <3>4. rest # <<>>
        BY <3>3
      <3>5. /\ Head(rest) \in Given(c.tokens) /\ Tail(rest) \in Seq(Given(c.tokens))
            /\ Len(Tail(rest)) = Len(rest) - 1
        BY <3>4, <1>8, HeadTailProperties
      <3>6. Len(next) >= Len(Arguments(c)) - Used(c.tokens, m)
        BY <3>1, <3>3, <3>5, <1>8, <1>12
      <3>7. ASSUME Aligned(c, k)
            PROVE  Head(rest) = c.tokens[m] /\ Joined(uu, m) \o Tail(rest) = Arguments(c)
        <4>1. Joined(uu, m - 1) = Joined(uu, k) /\ Joined(uu, k) \o rest = Joined(uu, Len(uu))
          BY <3>7, <1>7, <1>8, <1>10, <1>11
        <4>2. k \in 0 .. Len(uu) /\ m \in (k + 1) .. Len(uu)
          BY <1>2, <1>9, <1>10
        <4>3. uu \in Seq(Seq(Token)) /\ rest \in Seq(Token)
          BY <1>1, <1>8, GivenFacts
        <4>4. uu[m] = <<uu[m][1]>> /\ uu[m][1] = c.tokens[m]
          <5>1. uu[m] = <<c.tokens[m]>>
            BY <3>2, <1>9, <1>10 DEF Args
          <5> QED BY <5>1
        <4>5. Head(rest) = uu[m][1] /\ Joined(uu, m) \o Tail(rest) = Joined(uu, Len(uu))
          BY ONLY <4>1, <4>2, <4>3, <4>4, NextArgument
        <4> QED BY <4>4, <4>5, <1>11
      <3>8. /\ got \in Seq(Chars)
            /\ Len(got) >= CONTAINER => spec = "s" /\ Len(Head(rest).str) >= CONTAINER
            /\ Supported(c) /\ Head(rest) = c.tokens[m] => got = conv
        <4>1. m \in 1 .. Len(c.tokens) /\ f[s + 1] = (IF c.tokens[m].spec = "du" THEN "d" ELSE c.tokens[m].spec)
              /\ c.tokens[m].spec # "f"
          BY <2>2, <1>2, <1>3, <1>7, <1>9
        <4>2. c.tokens[m].spec # "text" /\ Proper(c.tokens) /\ Head(rest) \in Given(c.tokens)
          BY <3>5, <1>1
        <4>3. /\ ArgText(f, s, buffer, rest) \in Seq(Chars)
              /\ Len(ArgText(f, s, buffer, rest)) >= CONTAINER =>
                   c.tokens[m].spec = "s" /\ Len(Head(rest).str) >= CONTAINER
              /\ Supported(c) /\ Head(rest) = c.tokens[m] =>
                   ArgText(f, s, buffer, rest) = MeaningOf(c.tokens[m])
          BY ONLY <4>1, <4>2, ArgumentText
        <4> QED BY <4>3, <1>0, <1>3, <1>6, Zenon
      <3>9. Aligned(c, m) => Aligned(c, k)
        BY <1>9 DEF Aligned
      <3>10. Supported(c) => Aligned(c, k)
        BY CallFacts
      <3>11. ASSUME Len(got) >= CONTAINER PROVE MayOverrun(c)
        <4>1. spec = "s" /\ Len(Head(rest).str) >= CONTAINER
          BY <3>8, <3>11
        <4>2. CASE Aligned(c, k)
          BY <4>1, <4>2, <3>7, <1>3, <1>9, Zenon DEF MayOverrun
        <4>3. CASE ~ Aligned(c, k)
          <5>1. PICK j \in 1 .. k : c.tokens[j].spec = "f"
            BY <4>3 DEF Aligned
          <5>2. j \in 1 .. (m - 1)
            BY <1>9
          <5> QED BY <5>1, <5>2, <4>1, <1>3, <1>9, Zenon DEF MayOverrun
        <4> QED BY <4>2, <4>3
      <3> QED BY <3>1, <3>5, <3>6, <3>7, <3>8, <3>9, <3>10, <3>11
    <2> QED BY <2>1, <2>2
  <1>14. ASSUME Supported(c) PROVE out \o Due(<<piece, got>>) = Shown(c, m)
    <2>1. Due(<<piece, got>>) = piece \o conv
      BY <1>13, <1>14, DueFacts, Zenon
    <2>2. PICK u \in Seq(Chars), v \in Seq(Chars), w \in Seq(Chars), x \in Seq(Chars) :
             u = Level(c) /\ v = o /\ w = piece /\ x = conv
      BY <1>1, <1>4, <1>7, <1>13, <1>14, Zenon
    <2>3. (u \o v) \o (w \o x) = u \o ((v \o w) \o x)
      <3>1. w \o x \in Seq(Chars)
        BY ConcatProperties
      <3>2. (v \o w) \o x = v \o (w \o x)
        BY ONLY <3>1, TextAssociative, ZenonT(60)
      <3>3. (u \o v) \o (w \o x) = u \o (v \o (w \o x))
        BY ONLY <3>1, TextAssociative, ZenonT(60)
      <3> QED BY <3>2, <3>3
    <2>4. out \o <<>> = out
      BY <1>8, ConcatEmptySeq
    <2> QED BY <2>1, <2>2, <2>3, <2>4, <1>7, <1>8, <1>14, Zenon DEF Shown
  <1>15. <<piece, got>> \in Seq(Seq(Chars)) /\ Len(<<piece, got>>) <= 2
    BY <1>7, <1>13
  <1>16. Got(c, m, s + ArgLength(f, s), next, got, <<piece, got>>, num, out)
    BY <1>7, <1>8, <1>10, <1>13, <1>14, <1>15, Zenon DEF Got
  <1> QED BY <1>0, <1>5, <1>7, <1>13, <1>16, Zenon DEF GoesOn

\* The next conversion, if there is one.
LEMMA NextConversion ==
    ASSUME NEW tokens, NEW n \in Nat, NEW k \in 0 .. n
    PROVE  \/ \A i \in (k + 1) .. n : tokens[i].spec = "text"
           \/ \E m \in (k + 1) .. n : /\ tokens[m].spec # "text"
                                      /\ \A i \in (k + 1) .. (m - 1) : tokens[i].spec = "text"
  <1> DEFINE C == {i \in (k + 1) .. n : tokens[i].spec # "text"}
  <1>1. CASE C = {}
    BY <1>1
  <1>2. CASE C # {}
    <2>1. PICK m \in C : \A i \in C : m <= i
      <3>1. C \subseteq Nat
        OBVIOUS
      <3> HIDE DEF C
      <3> QED BY <3>1, <1>2, LeastElement
    <2>2. ASSUME NEW i \in (k + 1) .. (m - 1) PROVE tokens[i].spec = "text"
      <3>1. i \in (k + 1) .. n /\ ~ (m <= i)
        OBVIOUS
      <3> QED BY <3>1, <2>1
    <2> QED BY <2>2
  <1> QED BY <1>1, <1>2

-----------------------------------------------------------------------------
(* The inductive invariant of kprintf_level().                             *)

Waiting(t) ==
    /\ call[t] = NoCall /\ search_from[t] = NULL
    /\ pieces[t] = <<>> /\ written[t] = 0 /\ ~ overrun[t]

Running(t) ==
    /\ call[t] \in Calls[t]
    /\ overrun[t] => MayOverrun(call[t])
    /\ \E k \in 0 .. Len(call[t].tokens) :
          Got(call[t], k, search_from[t], args[t], container[t], pieces[t], written[t], printed[t])

LocalsTyped ==
    /\ DOMAIN call = Threads /\ DOMAIN search_from = Threads /\ DOMAIN args = Threads
    /\ DOMAIN container = Threads /\ DOMAIN pieces = Threads /\ DOMAIN written = Threads
    /\ DOMAIN printed = Threads
    /\ overrun \in [Threads -> BOOLEAN]

CallInv ==
    /\ LocalsTyped
    /\ \A t \in Threads : Waiting(t) \/ Running(t)

LEMMA InitCallInv == KprintfInit => CallInv
  <1> SUFFICES ASSUME KprintfInit PROVE CallInv
    OBVIOUS
  <1>1. LocalsTyped
    BY DEF KprintfInit, LocalsTyped
  <1>2. \A t \in Threads : Waiting(t)
    BY DEF KprintfInit, Waiting
  <1> QED BY <1>1, <1>2 DEF CallInv

\* The locals of the threads but t stay.
OthersSame(t) ==
    \A u \in Threads : u # t =>
        /\ call'[u] = call[u] /\ search_from'[u] = search_from[u] /\ args'[u] = args[u]
        /\ container'[u] = container[u] /\ pieces'[u] = pieces[u] /\ written'[u] = written[u]
        /\ printed'[u] = printed[u] /\ overrun'[u] = overrun[u]

\* A step of a thread.
LEMMA OneRuns ==
    ASSUME CallInv, NEW t \in Threads, LocalsTyped', OthersSame(t), Running(t)'
    PROVE  CallInv'
  <1>1. ASSUME NEW u \in Threads, u # t PROVE Waiting(u)' \/ Running(u)'
    <2>1. /\ call'[u] = call[u] /\ search_from'[u] = search_from[u] /\ args'[u] = args[u]
          /\ container'[u] = container[u] /\ pieces'[u] = pieces[u] /\ written'[u] = written[u]
          /\ printed'[u] = printed[u] /\ overrun'[u] = overrun[u]
      BY <1>1, Zenon DEF OthersSame
    <2>2. CASE Waiting(u)
      BY <2>1, <2>2, Zenon DEF Waiting
    <2>3. CASE Running(u)
      BY <2>1, <2>3, Zenon DEF Running
    <2> QED BY <2>2, <2>3 DEF CallInv
  <1> QED BY <1>1, Zenon DEF CallInv

LEMMA CallStep ==
    ASSUME CallInv, NEW t \in Threads, NEW c \in Calls[t], Call(t, c)
    PROVE  CallInv'
  <1>1. LocalsTyped
    BY DEF CallInv
  <1>2. LocalsTyped'
    BY <1>1 DEF LocalsTyped, Call
  <1>3. /\ call'[t] = c /\ search_from'[t] = 1 /\ args'[t] = Arguments(c)
        /\ container'[t] = (IF c.level THEN <<>> ELSE Junk)
        /\ pieces'[t] = (IF c.level THEN <<LevelText>> ELSE <<>>)
        /\ written'[t] = 0 /\ printed'[t] = <<>> /\ ~ overrun'[t]
    BY <1>1 DEF LocalsTyped, Call
  <1>4. OthersSame(t)
    BY <1>1 DEF LocalsTyped, Call, OthersSame
  <1>5. Running(t)'
    <2>1. 0 \in 0 .. Len(c.tokens)
      BY CallFacts
    <2>2. Got(c, 0, 1, Arguments(c), IF c.level THEN <<>> ELSE Junk,
              IF c.level THEN <<LevelText>> ELSE <<>>, 0, <<>>)
      BY CallBegins
    <2>3. Got(call'[t], 0, search_from'[t], args'[t], container'[t], pieces'[t], written'[t], printed'[t])
      BY <2>2, <1>3, Zenon
    <2> QED BY <2>1, <2>3, <1>3, Zenon DEF Running
  <1> QED BY <1>2, <1>4, <1>5, OneRuns

LEMMA TurnStep ==
    ASSUME CallInv, NEW t \in Threads, Turn(t)
    PROVE  CallInv'
  <1>1. LocalsTyped /\ (Waiting(t) \/ Running(t))
    BY DEF CallInv
  <1>2. pieces[t] = <<>> /\ search_from[t] # NULL
    BY Zenon DEF Turn, Ready
  <1>3. Running(t)
    BY <1>1, <1>2 DEF Waiting
  <1>4. PICK c \in Calls[t] : c = call[t]
    BY <1>3 DEF Running
  <1>5. PICK k \in 0 .. Len(c.tokens) :
           Got(c, k, search_from[t], args[t], container[t], <<>>, written[t], printed[t])
    BY <1>2, <1>3, <1>4, Zenon DEF Running
  <1>6. PICK f, from : f = Format(c) /\ from = search_from[t]
    OBVIOUS
  <1>7. PICK s : s = arg_start(f, from)
    OBVIOUS
  <1>8. from = End(c.tokens, k) + 1
    BY <1>2, <1>5, <1>6, Zenon DEF Got
  <1>9. PICK got : got = ArgText(f, s, container[t], args[t])
    OBVIOUS
  <1>10. got = Text(f, s, t)
    BY <1>9, Zenon DEF ArgText, Text
  <1>11. Len(c.tokens) \in Nat
    BY CallFacts
  <1>12. /\ call' = call /\ written' = written /\ printed' = printed
         /\ IF s = NULL
            THEN /\ search_from' = [search_from EXCEPT ![t] = NULL]
                 /\ pieces' = [pieces EXCEPT ![t] = <<SubSeq(f, from, Len(f))>>]
                 /\ args' = args /\ container' = container /\ overrun' = overrun
            ELSE /\ search_from' = [search_from EXCEPT ![t] = s + ArgLength(f, s)]
                 /\ pieces' = [pieces EXCEPT ![t] = <<SubSeq(f, from, s - 1), got>>]
                 /\ container' = [container EXCEPT ![t] = got]
                 /\ args' = [args EXCEPT ![t] = IF TakesArg(f, s) THEN Tail(args[t]) ELSE args[t]]
                 /\ overrun' = [overrun EXCEPT ![t] = overrun[t] \/ Len(got) >= CONTAINER]
    <2>1. Format(call[t]) = f /\ search_from[t] = from
      BY <1>4, <1>6
    <2>2. CASE s = NULL
      BY <2>1, <2>2, <1>7 DEF Turn
    <2>3. CASE s # NULL
      BY <2>1, <2>3, <1>7, <1>10 DEF Turn
    <2> QED BY <2>2, <2>3
  <1>13. LocalsTyped' /\ OthersSame(t)
    <2>1. CASE s = NULL
      BY <2>1, <1>1, <1>12 DEF LocalsTyped, OthersSame
    <2>2. CASE s # NULL
      BY <2>2, <1>1, <1>12 DEF LocalsTyped, OthersSame
    <2> QED BY <2>1, <2>2
  <1>14. call'[t] = c /\ written'[t] = written[t] /\ printed'[t] = printed[t]
    BY <1>4, <1>12
  <1>15. Got(c, k, from, args[t], container[t], <<>>, written[t], printed[t])
    BY <1>5, <1>6, Zenon
  <1>16. CASE \A i \in (k + 1) .. Len(c.tokens) : c.tokens[i].spec = "text"
    <2>1. /\ arg_start(Format(c), from) = NULL
          /\ Got(c, Len(c.tokens), NULL, args[t], container[t],
                 <<SubSeq(Format(c), from, Len(Format(c)))>>, written[t], printed[t])
      BY <1>8, <1>15, <1>16, SearchEnds, Zenon
    <2>2. s = NULL
      BY <2>1, <1>6, <1>7
    <2>3. /\ search_from'[t] = NULL /\ pieces'[t] = <<SubSeq(f, from, Len(f))>>
          /\ args'[t] = args[t] /\ container'[t] = container[t] /\ overrun'[t] = overrun[t]
      BY <2>2, <1>1, <1>12 DEF LocalsTyped
    <2>4. Got(call'[t], Len(c.tokens), search_from'[t], args'[t], container'[t], pieces'[t], written'[t], printed'[t])
      BY <2>1, <2>3, <1>6, <1>14, Zenon
    <2>5. Len(c.tokens) \in 0 .. Len(c.tokens)
      BY <1>11
    <2>6. overrun'[t] => MayOverrun(call'[t])
      BY <2>3, <1>3, <1>4, <1>14, Zenon DEF Running
    <2>7. Running(t)'
      BY <2>4, <2>5, <2>6, <1>14, Zenon DEF Running
    <2> QED BY <2>7, <1>13, OneRuns
  <1>17. ASSUME NEW m \in (k + 1) .. Len(c.tokens), c.tokens[m].spec # "text",
                \A i \in (k + 1) .. (m - 1) : c.tokens[i].spec = "text"
         PROVE  CallInv'
    <2> DEFINE next == IF TakesArg(f, s) THEN Tail(args[t]) ELSE args[t]
    <2>1. /\ s # NULL
          /\ Len(got) >= CONTAINER => MayOverrun(c)
          /\ Got(c, m, s + ArgLength(f, s), next, got, <<SubSeq(f, from, s - 1), got>>, written[t], printed[t])
      <3>1. GoesOn(c, m, from, args[t], container[t], written[t], printed[t])
        BY <1>8, <1>15, <1>17, SearchGoesOn, Zenon
      <3> QED BY <3>1, <1>6, <1>7, <1>9, Zenon DEF GoesOn
    <2>2. /\ search_from'[t] = s + ArgLength(f, s)
          /\ pieces'[t] = <<SubSeq(f, from, s - 1), got>> /\ container'[t] = got
          /\ args'[t] = IF TakesArg(f, s) THEN Tail(args[t]) ELSE args[t]
      BY <2>1, <1>1, <1>12 DEF LocalsTyped
    <2>3. overrun'[t] => overrun[t] \/ Len(got) >= CONTAINER
      BY <2>1, <1>1, <1>12, Zenon DEF LocalsTyped
    <2>4. Got(call'[t], m, search_from'[t], args'[t], container'[t], pieces'[t], written'[t], printed'[t])
      BY <2>1, <2>2, <1>14, Zenon
    <2>5. m \in 0 .. Len(c.tokens)
      BY <1>11
    <2>6. overrun'[t] => MayOverrun(call'[t])
      BY <2>1, <2>3, <1>3, <1>4, <1>14, Zenon DEF Running
    <2>7. Running(t)'
      BY <2>4, <2>5, <2>6, <1>14, Zenon DEF Running
    <2> QED BY <2>7, <1>13, OneRuns
  <1> QED BY <1>11, <1>16, <1>17, NextConversion

LEMMA WriteGenStep ==
    ASSUME CallInv, NEW t \in Threads, WriteGen(t)
    PROVE  CallInv'
  <1>1. LocalsTyped /\ (Waiting(t) \/ Running(t))
    BY DEF CallInv
  <1>2. /\ pieces[t] # <<>> /\ pieces' = [pieces EXCEPT ![t] = Tail(pieces[t])]
        /\ printed' = [printed EXCEPT ![t] = printed[t] \o Head(pieces[t])]
        /\ written' = [written EXCEPT ![t] = written[t] + Len(Head(pieces[t]))]
        /\ call' = call /\ search_from' = search_from /\ args' = args
        /\ container' = container /\ overrun' = overrun
    BY Zenon DEF WriteGen
  <1>3. Running(t)
    BY <1>1, <1>2 DEF Waiting
  <1>4. PICK c \in Calls[t] : c = call[t]
    BY <1>3 DEF Running
  <1>5. PICK k \in 0 .. Len(c.tokens) :
           Got(c, k, search_from[t], args[t], container[t], pieces[t], written[t], printed[t])
    BY <1>3, <1>4, Zenon DEF Running
  <1>6. Got(c, k, search_from[t], args[t], container[t], Tail(pieces[t]),
            written[t] + Len(Head(pieces[t])), printed[t] \o Head(pieces[t]))
    BY <1>2, <1>5, PieceWritten, Zenon
  <1>7. LocalsTyped' /\ OthersSame(t)
    BY <1>1, <1>2 DEF LocalsTyped, OthersSame
  <1>8. Running(t)'
    <2>1. /\ call'[t] = c /\ pieces'[t] = Tail(pieces[t]) /\ printed'[t] = printed[t] \o Head(pieces[t])
          /\ written'[t] = written[t] + Len(Head(pieces[t])) /\ overrun'[t] = overrun[t]
          /\ search_from'[t] = search_from[t] /\ args'[t] = args[t] /\ container'[t] = container[t]
      BY <1>1, <1>2, <1>4 DEF LocalsTyped
    <2>2. Got(call'[t], k, search_from'[t], args'[t], container'[t], pieces'[t], written'[t], printed'[t])
      BY <2>1, <1>6, Zenon
    <2>3. overrun'[t] => MayOverrun(call'[t])
      BY <2>1, <1>3, <1>4, Zenon DEF Running
    <2> QED BY <2>1, <2>2, <2>3, Zenon DEF Running
  <1> QED BY <1>7, <1>8, OneRuns

LEMMA NextCallInv == CallInv /\ [KprintfNext]_kprintfVars => CallInv'
  <1> SUFFICES ASSUME CallInv, [KprintfNext]_kprintfVars PROVE CallInv'
    OBVIOUS
  <1>1. ASSUME UNCHANGED locals PROVE CallInv'
    BY <1>1 DEF CallInv, LocalsTyped, Waiting, Running, locals
  <1>2. ASSUME NEW t \in Threads, NEW c \in Calls[t], Call(t, c) PROVE CallInv'
    BY <1>2, CallStep
  <1>3. ASSUME NEW t \in Threads, Turn(t) PROVE CallInv'
    BY <1>3, TurnStep
  <1>4. ASSUME NEW t \in Threads, WriteGen(t) PROVE CallInv'
    BY <1>4, WriteGenStep
  <1>5. ASSUME NEW t \in Threads, Serial(t) PROVE CallInv'
    BY <1>1, <1>5 DEF Serial
  <1>6. ASSUME PortSends PROVE CallInv'
    BY <1>1, <1>6 DEF PortSends
  <1>7. ASSUME UNCHANGED kprintfVars PROVE CallInv'
    BY <1>1, <1>7 DEF kprintfVars
  <1> QED BY <1>2, <1>3, <1>4, <1>5, <1>6, <1>7, Zenon DEF KprintfNext, KprintfStep

\* What the invariant says of a call that has returned, and of the search.
LEMMA ReturnedPrints == CallInv => PrintsTheFormat
  <1> SUFFICES ASSUME CallInv, NEW t \in Threads, Returned(t), NEW c, c = call[t]
               PROVE  /\ written[t] = Len(printed[t])
                      /\ Supported(c) =>
                            /\ printed[t] = (IF c.level THEN LevelText ELSE <<>>) \o Meaning(c.tokens)
                            /\ args[t] = <<>>
    BY Zenon DEF PrintsTheFormat
  <1>1. call[t] # NoCall /\ pieces[t] = <<>> /\ search_from[t] = NULL
    BY DEF Returned, Ready
  <1>2. Running(t)
    BY <1>1 DEF CallInv, Waiting
  <1>3. c \in Calls[t]
    BY <1>2 DEF Running
  <1>4. PICK k \in 0 .. Len(c.tokens) :
           Got(c, k, search_from[t], args[t], container[t], <<>>, written[t], printed[t])
    BY <1>1, <1>2, Zenon DEF Running
  <1>5. /\ written[t] = Len(printed[t])
        /\ Supported(c) => printed[t] = Level(c) \o Meaning(c.tokens) /\ args[t] = <<>>
    <2>1. PICK rest, buffer, num, out :
             rest = args[t] /\ buffer = container[t] /\ num = written[t] /\ out = printed[t]
      OBVIOUS
    <2>2. Got(c, k, NULL, rest, buffer, <<>>, num, out)
      BY <2>1, <1>1, <1>4, Zenon
    <2>3. k \in 0 .. Len(c.tokens)
      OBVIOUS
    <2>4. num = Len(out) /\ (Supported(c) => out = Level(c) \o Meaning(c.tokens) /\ rest = <<>>)
      BY ONLY t \in Threads, <1>3, <2>2, <2>3, CallEnds
    <2> QED BY <2>1, <2>4
  <1> QED BY <1>5, Zenon DEF Level

LEMMA SearchInFormat ==
    ASSUME CallInv, NEW t \in Threads
    PROVE  written[t] \in Nat /\ search_from[t] \in 0 .. (Len(Format(call[t])) + 1)
  <1>1. CASE Waiting(t)
    <2>1. Proper(NoCall.tokens)
      <3>1. NoCall.tokens = <<>> /\ <<>> \in Seq(Token) /\ Len(<<>>) = 0
        BY DEF NoCall
      <3>2. \A i \in 1 .. 0 : FALSE
        OBVIOUS
      <3> QED BY <3>1, <3>2, Zenon DEF Proper
    <2>2. Len(Format(NoCall)) \in Nat
      BY <2>1, FormatIs
    <2> QED BY <2>2, <1>1 DEF Waiting, NULL
  <1>2. CASE Running(t)
    <2>1. PICK c \in Calls[t] : c = call[t]
      BY <1>2 DEF Running
    <2>2. PICK k \in 0 .. Len(c.tokens) :
             Got(c, k, search_from[t], args[t], container[t], pieces[t], written[t], printed[t])
      BY <2>1, <1>2, Zenon DEF Running
    <2>3. End(c.tokens, k) \in 0 .. Len(Format(c)) /\ Len(Format(c)) \in Nat
      BY CallFacts, FormatIs
    <2>4. search_from[t] = End(c.tokens, k) + 1 \/ search_from[t] = NULL
      BY <2>2, Zenon DEF Got
    <2>5. written[t] \in Nat
      <3>1. written[t] = Len(printed[t]) /\ printed[t] \in Seq(Chars)
        BY <2>2, Zenon DEF Got
      <3> QED BY <3>1, LenProperties
    <2> QED BY <2>1, <2>3, <2>4, <2>5 DEF NULL
  <1> QED BY <1>1, <1>2 DEF CallInv

-----------------------------------------------------------------------------
(* Theorems about kprintf_level().                                         *)

\* Every call has printed, or is about to print, what the tokens before its place
\* in the format mean, and holds the arguments of the others; behind a "%f" it
\* still has one for every conversion.
THEOREM CallInvariant == KprintfSpec => []CallInv
  <1>1. KprintfInit => CallInv
    BY InitCallInv
  <1>2. CallInv /\ [KprintfNext]_kprintfVars => CallInv'
    BY NextCallInv
  <1> QED BY <1>1, <1>2, PTL DEF KprintfSpec

\* However often threads call kprintf_level(), it writes what their tokens mean,
\* with every number in decimal, and takes all its arguments, if its
\* conversions are supported: not "%f", an unknown letter, a 0 or a negative
\* "%d". Every call returns the number of characters it wrote.
THEOREM FormatIsPrinted == KprintfSpec => []PrintsTheFormat
  <1>1. CallInv => PrintsTheFormat
    BY ReturnedPrints
  <1> QED BY <1>1, CallInvariant, PTL

-----------------------------------------------------------------------------
(* The serial port.  What is in it, while one call is under way at a time:  *)
(* th waits, ts is shifted out, se was given and has not left, and l bytes   *)
(* of the piece come behind them.                                           *)

IsEntry(a) == a = Entry(a.byte, a.rest) /\ a.rest \in Nat

\* The byte a as it is shifted out.
OnItsWay(x, a) == x = a \/ (x = Spoiled(a) /\ a.rest <= 1)

Flight(th, ts, se, l) ==
    \/ th = <<>> /\ ts = <<>> /\ se = <<>>
    \/ \E a, x : /\ IsEntry(a) /\ OnItsWay(x, a) /\ a.rest <= l
                 /\ th = <<>> /\ ts = <<x>> /\ se = <<a>>
    \/ \E b : IsEntry(b) /\ b.rest <= l /\ th = <<b>> /\ ts = <<>> /\ se = <<b>>
    \/ \E a, b, x : /\ IsEntry(a) /\ IsEntry(b) /\ OnItsWay(x, a)
                    /\ a.rest <= l + 1 /\ b.rest <= l
                    /\ th = <<b>> /\ ts = <<x>> /\ se = <<a, b>>

\* An entry that is spoiled.
LEMMA SpoiledFacts ==
    \A a : /\ Spoiled(a).rest = a.rest
           /\ Spoiled(Spoiled(a)) = Spoiled(a)
  BY DEF Spoiled, Entry

\* More bytes may follow,
LEMMA FlightMore ==
    ASSUME NEW th, NEW ts, NEW se, NEW l \in Nat, NEW m \in Nat, l <= m, Flight(th, ts, se, l)
    PROVE  Flight(th, ts, se, m)
  <1>1. \A r \in Nat : (r <= l => r <= m) /\ (r <= l + 1 => r <= m + 1)
    OBVIOUS
  <1>2. \A a : IsEntry(a) => a.rest \in Nat
    BY DEF IsEntry
  <1> QED BY <1>1, <1>2, Zenon DEF Flight

\* the byte that waits begins to leave, unspoiled if others of its piece follow,
LEMMA FlightShift ==
    ASSUME NEW th, NEW ts, NEW se, NEW l \in Nat, Flight(th, ts, se, l), th # <<>>, ts = <<>>,
           NEW y, y = th[1] \/ (l <= 1 /\ y = Spoiled(th[1]))
    PROVE  Flight(<<>>, <<y>>, se, l)
  <1>1. \A x : ts # <<x>>
    OBVIOUS
  <1>2. PICK b : IsEntry(b) /\ b.rest <= l /\ th = <<b>> /\ se = <<b>>
    BY <1>1, Zenon DEF Flight
  <1>3. th[1] = b
    BY <1>2
  <1>4. OnItsWay(y, b)
    BY <1>2, <1>3 DEF OnItsWay, IsEntry
  <1> QED BY <1>2, <1>4, Zenon DEF Flight

\* has left,
LEMMA FlightLeave ==
    ASSUME NEW th, NEW ts, NEW se, NEW l \in Nat, Flight(th, ts, se, l), ts # <<>>
    PROVE  Flight(th, <<>>, Tail(se), l)
  <1>1. CASE \E a : th = <<>> /\ se = <<a>>
    <2>1. Tail(se) = <<>>
      BY <1>1
    <2> QED BY <2>1, <1>1 DEF Flight
  <1>2. CASE \E a, b : IsEntry(b) /\ b.rest <= l /\ th = <<b>> /\ se = <<a, b>>
    <2>1. PICK a, b : IsEntry(b) /\ b.rest <= l /\ th = <<b>> /\ se = <<a, b>>
      BY <1>2
    <2>2. Tail(se) = <<b>>
      BY <2>1
    <2> QED BY <2>1, <2>2, Zenon DEF Flight
  <1> QED BY <1>1, <1>2, Zenon DEF Flight

\* is spoiled when only the end of a piece is in the port,
LEMMA FlightSpoil ==
    ASSUME NEW th, NEW ts, NEW se, Flight(th, ts, se, 0)
    PROVE  Flight(th, IF ts = <<>> THEN <<>> ELSE <<Spoiled(ts[1])>>, se, 0)
  <1>1. CASE ts = <<>>
    BY <1>1
  <1>2. CASE ts # <<>>
    <2>1. ASSUME NEW a, NEW x, IsEntry(a), OnItsWay(x, a), a.rest <= 1
          PROVE  OnItsWay(Spoiled(x), a)
      BY <2>1, SpoiledFacts DEF OnItsWay
    <2>2. CASE \E a, x : /\ IsEntry(a) /\ OnItsWay(x, a) /\ a.rest <= 0
                         /\ th = <<>> /\ ts = <<x>> /\ se = <<a>>
      <3>1. PICK a, x : /\ IsEntry(a) /\ OnItsWay(x, a) /\ a.rest <= 0
                        /\ th = <<>> /\ ts = <<x>> /\ se = <<a>>
        BY <2>2
      <3>2. ts[1] = x /\ a.rest <= 1
        BY <3>1 DEF IsEntry
      <3> QED BY <3>1, <3>2, <2>1, <1>2, Zenon DEF Flight
    <2>3. CASE \E a, b, x : /\ IsEntry(a) /\ IsEntry(b) /\ OnItsWay(x, a)
                            /\ a.rest <= 0 + 1 /\ b.rest <= 0
                            /\ th = <<b>> /\ ts = <<x>> /\ se = <<a, b>>
      <3>1. PICK a, b, x : /\ IsEntry(a) /\ IsEntry(b) /\ OnItsWay(x, a)
                           /\ a.rest <= 0 + 1 /\ b.rest <= 0
                           /\ th = <<b>> /\ ts = <<x>> /\ se = <<a, b>>
        BY <2>3
      <3>2. ts[1] = x /\ a.rest <= 1
        BY <3>1 DEF IsEntry
      <3> QED BY <3>1, <3>2, <2>1, <1>2, Zenon DEF Flight
    <2> QED BY <2>2, <2>3, <1>2, Zenon DEF Flight
  <1> QED BY <1>1, <1>2

\* One and two things.
LEMMA Pairs ==
    ASSUME NEW x, NEW b
    PROVE  /\ <<x>> \o <<>> = <<x>> /\ <<>> \o <<x>> = <<x>>
           /\ <<x>> \o <<b>> = <<x, b>> /\ Append(<<x>>, b) = <<x, b>>
  <1>1. <<x>> \in Seq({x, b}) /\ <<b>> \in Seq({x, b}) /\ <<x, b>> \in Seq({x, b}) /\ b \in {x, b}
    OBVIOUS
  <1>2. <<x>> \o <<>> = <<x>> /\ <<>> \o <<x>> = <<x>>
    BY <1>1, ConcatEmptySeq
  <1>3. /\ Len(<<x>>) = 1 /\ Len(<<b>>) = 1 /\ Len(<<x, b>>) = 2
        /\ <<x>>[1] = x /\ <<b>>[1] = b /\ <<x, b>>[1] = x /\ <<x, b>>[2] = b
    OBVIOUS
  <1>4. <<x>> \o <<b>> = <<x, b>>
    <2> DEFINE j == <<x>> \o <<b>>
    <2>1. j \in Seq({x, b}) /\ Len(j) = 2 /\ j[1] = x /\ j[2] = b
      BY <1>1, <1>3, ConcatProperties
    <2> HIDE DEF j
    <2>2. \A i \in 1 .. Len(j) : j[i] = <<x, b>>[i]
      <3>1. 1 .. 2 = {1, 2}
        OBVIOUS
      <3> QED BY <3>1, <2>1, <1>3
    <2>3. j = <<x, b>>
      BY <2>1, <2>2, <1>1, <1>3, SeqEqual
    <2> QED BY <2>3 DEF j
  <1>5. Append(<<x>>, b) = <<x, b>>
    <2>1. Append(<<x>>, b) = <<x>> \o <<b>>
      BY <1>1, AppendIsConcat
    <2> QED BY <2>1, <1>4
  <1> QED BY <1>2, <1>4, <1>5

\* A byte that has a place gets a successor.
LEMMA FlightSend ==
    ASSUME NEW ts, NEW se, NEW l \in Nat, l # 0, Flight(<<>>, ts, se, l),
           NEW e, IsEntry(e), e.rest = l - 1
    PROVE  Flight(<<e>>, ts, Append(se, e), l - 1)
  <1>1. e.rest <= l - 1 /\ (l - 1) + 1 = l
    OBVIOUS
  <1>2. CASE ts = <<>> /\ se = <<>>
    <2>1. Append(se, e) = <<e>>
      BY <1>2
    <2> QED BY <2>1, <1>1, <1>2, Zenon DEF Flight
  <1>3. CASE \E a, x : IsEntry(a) /\ OnItsWay(x, a) /\ a.rest <= l /\ ts = <<x>> /\ se = <<a>>
    <2>1. PICK a, x : IsEntry(a) /\ OnItsWay(x, a) /\ a.rest <= l /\ ts = <<x>> /\ se = <<a>>
      BY <1>3
    <2>2. Append(se, e) = <<a, e>>
      BY <2>1, Pairs
    <2>3. a.rest <= (l - 1) + 1
      BY <2>1, <1>1
    <2> QED BY <2>1, <2>2, <2>3, <1>1, Zenon DEF Flight
  <1>4. \A b : <<>> # <<b>>
    OBVIOUS
  <1> QED BY <1>2, <1>3, <1>4, Zenon DEF Flight

\* What is in the port is what was given to it, but for the last two of a piece.
LEMMA FlightArrives ==
    ASSUME NEW th, NEW ts, NEW se, NEW l, Flight(th, ts, se, l)
    PROVE  /\ Len(ts \o th) = Len(se)
           /\ \A i \in DOMAIN (ts \o th) :
                 \/ (ts \o th)[i] = se[i]
                 \/ (ts \o th)[i] = Spoiled(se[i]) /\ se[i].rest <= 1
  <1>1. CASE th = <<>> /\ ts = <<>> /\ se = <<>>
    <2>1. ts \o th = <<>>
      BY <1>1
    <2> QED BY <2>1, <1>1
  <1>2. CASE \E a, x : OnItsWay(x, a) /\ ts \o th = <<x>> /\ se = <<a>>
    <2>1. PICK a, x : OnItsWay(x, a) /\ ts \o th = <<x>> /\ se = <<a>>
      BY <1>2
    <2>2. Len(<<x>>) = 1 /\ Len(<<a>>) = 1 /\ DOMAIN <<x>> = {1} /\ <<x>>[1] = x /\ <<a>>[1] = a
      OBVIOUS
    <2> QED BY <2>1, <2>2 DEF OnItsWay
  <1>3. CASE \E a, b, x : OnItsWay(x, a) /\ ts \o th = <<x, b>> /\ se = <<a, b>>
    <2>1. PICK a, b, x : OnItsWay(x, a) /\ ts \o th = <<x, b>> /\ se = <<a, b>>
      BY <1>3
    <2>2. /\ Len(<<x, b>>) = 2 /\ Len(<<a, b>>) = 2 /\ DOMAIN <<x, b>> = {1, 2}
          /\ <<x, b>>[1] = x /\ <<a, b>>[1] = a /\ <<x, b>>[2] = b /\ <<a, b>>[2] = b
      OBVIOUS
    <2> QED BY <2>1, <2>2 DEF OnItsWay
  <1>4. \A x, b : <<x>> \o <<>> = <<x>> /\ <<>> \o <<x>> = <<x>> /\ <<x>> \o <<b>> = <<x, b>>
    BY Pairs
  <1>5. \A b : OnItsWay(b, b)
    BY DEF OnItsWay
  <1> QED BY <1>1, <1>2, <1>3, <1>4, <1>5, Zenon DEF Flight

-----------------------------------------------------------------------------
(* The inductive invariant of the serial port.                             *)

\* The thread is in the loop of serial_write().
Sends(t) == at[t] \in {"wait", "send"}

PortTyped ==
    /\ at \in [Threads -> Places] /\ data \in [Threads -> Seq(Chars)]
    /\ overlapped \in BOOLEAN /\ dlab \in BOOLEAN
    /\ \A t \in Threads : Sends(t) => data[t] # <<>>

\* One call of serial_write() at a time.
Alone == \A t, u \in Threads : at[t] # "out" /\ at[u] # "out" => t = u

\* Before the loop the divisor goes to the latch, and in it the port is configured.
Latch ==
    \A t \in Threads :
        /\ at[t] \in {"divisor_high", "divisor_low", "line"} => dlab
        /\ at[t] = "line" => divisor = Divisor
        /\ Sends(t) => Configured

\* What is in the port, with what its thread has still to send.
Holding ==
    /\ \A t \in Threads : Sends(t) => Len(data[t]) # 0 /\ Flight(thr, tsr, sent, Len(data[t]))
    /\ \A t \in Threads : at[t] = "send" => thr = <<>>
    /\ (\A t \in Threads : ~ Sends(t)) => Flight(thr, tsr, sent, 0)

PortInv ==
    /\ PortTyped
    /\ IF overlapped THEN sent = <<>> ELSE Alone /\ Latch /\ Holding

-----------------------------------------------------------------------------
(* It holds initially and is preserved by every action.                    *)

\* The port is empty and nobody uses it.
LEMMA InitPortInv == KprintfInit => PortInv
  <1> SUFFICES ASSUME KprintfInit PROVE PortInv
    OBVIOUS
  <1> USE DEF KprintfInit, SerialInit
  <1>1. PortTyped
    <2>1. <<>> \in Seq(Chars)
      OBVIOUS
    <2> QED BY <2>1 DEF PortTyped, Places, Sends
  <1>2. Alone /\ Latch
    BY DEF Alone, Latch, Sends
  <1>3. Holding
    <2>1. Flight(<<>>, <<>>, <<>>, 0)
      BY DEF Flight
    <2> QED BY <2>1 DEF Holding, Sends
  <1> QED BY <1>1, <1>2, <1>3 DEF PortInv

\* A step away from the port: the search of the format, or text for the frame
\* buffer.
LEMMA ElsewhereStep ==
    ASSUME PortInv, UNCHANGED <<port, at, data>>
    PROVE  PortInv'
  BY DEF port, PortInv, PortTyped, Alone, Latch, Holding, Sends, Configured

\* The places of the threads but t stay "out".
LEMMA OneInside ==
    ASSUME PortTyped, Alone, NEW t \in Threads, at[t] # "out"
    PROVE  \A u \in Threads : u # t => at[u] = "out"
  BY DEF Alone

\* A call of serial_write() begins: another one was under way, or only the end
\* of a piece is in the port.
LEMMA EnterStep ==
    ASSUME PortInv, NEW t \in Threads, NEW bytes \in Seq(Chars), at[t] = "out", Enter(t, bytes)
    PROVE  PortInv'
  <1>1. /\ at' = [at EXCEPT ![t] = "dlab"] /\ data' = [data EXCEPT ![t] = bytes]
        /\ sent' = (IF overlapped' THEN <<>> ELSE sent)
        /\ UNCHANGED <<dlab, divisor, thr, tsr>>
    BY DEF Enter
  <1>2. overlapped' \in BOOLEAN
    BY Zenon DEF Enter
  <1>3. PortTyped'
    BY <1>1, <1>2 DEF PortInv, PortTyped, Places, Sends
  <1>4. CASE overlapped'
    BY <1>1, <1>3, <1>4 DEF PortInv
  <1>5. CASE ~ overlapped'
    <2>1. \A u \in Threads : at[u] = "out"
      <3>1. ~ \E u \in Threads \ {t} : at[u] # "out"
        BY <1>5, Zenon DEF Enter
      <3> QED BY <3>1
    <2>2. \A u \in Threads : at'[u] = (IF u = t THEN "dlab" ELSE "out")
      BY <2>1, <1>1 DEF PortInv, PortTyped
    <2>3. Alone' /\ Latch'
      BY <2>2 DEF Alone, Latch, Sends
    <2>4. sent' = sent
      BY <1>1, <1>5
    <2>5. Flight(thr, tsr, sent, 0)
      <3>1. CASE overlapped
        <4>1. thr = <<>> /\ tsr = <<>>
          BY <3>1, <1>5, Zenon DEF Enter
        <4>2. sent = <<>>
          BY <3>1 DEF PortInv
        <4> QED BY <4>1, <4>2 DEF Flight
      <3>2. CASE ~ overlapped
        <4>1. Holding /\ \A u \in Threads : ~ Sends(u)
          BY <3>2, <2>1 DEF PortInv, Sends
        <4> QED BY <4>1 DEF Holding
      <3> QED BY <3>1, <3>2 DEF PortInv, PortTyped
    <2>6. Holding'
      <3>1. \A u \in Threads : ~ Sends(u)' /\ at'[u] # "send"
        BY <2>2 DEF Sends
      <3>2. thr' = thr /\ tsr' = tsr
        BY <1>1
      <3> QED BY <3>1, <3>2, <2>4, <2>5, Zenon DEF Holding
    <2> QED BY <1>3, <1>5, <2>3, <2>6 DEF PortInv
  <1> QED BY <1>2, <1>4, <1>5

\* serial_configure_baud_rate() and serial_configure_line().
LEMMA ConfigureStep ==
    ASSUME PortInv, NEW t \in Threads, ConfigureBaudRate(t) \/ ConfigureLine(t)
    PROVE  PortInv'
  <1>1. PortTyped /\ at[t] \in {"dlab", "divisor_high", "divisor_low", "line"}
    BY DEF PortInv, ConfigureBaudRate, ConfigureLine
  <1>2. overlapped' = overlapped /\ data' = data
    BY DEF ConfigureBaudRate, ConfigureLine
  <1>3. at' = [at EXCEPT ![t] = at'[t]] /\ at'[t] \in Places \ {"send", "dlab"}
    BY <1>1 DEF ConfigureBaudRate, ConfigureLine, Goto, Places, PortTyped
  <1>4. dlab' \in BOOLEAN
    BY <1>1 DEF ConfigureBaudRate, ConfigureLine, PortTyped
  <1>5. PortTyped'
    <2>1. Sends(t)' => data[t] # <<>>
      BY <1>1 DEF ConfigureBaudRate, ConfigureLine, Goto, PortTyped, Sends
    <2>2. \A u \in Threads : u # t => (Sends(u)' <=> Sends(u))
      BY <1>1, <1>3 DEF PortTyped, Sends
    <2> QED BY <2>1, <2>2, <1>1, <1>2, <1>3, <1>4 DEF PortTyped
  <1>6. CASE overlapped
    <2>1. sent' = sent
      BY <1>6 DEF ConfigureBaudRate, ConfigureLine, DataPort
    <2> QED BY <2>1, <1>2, <1>5, <1>6 DEF PortInv
  <1>7. CASE ~ overlapped
    <2>1. Alone /\ Latch /\ Holding
      BY <1>7 DEF PortInv
    <2>2. \A u \in Threads : u # t => at[u] = "out" /\ at'[u] = "out"
      BY <2>1, <1>1, <1>3, OneInside DEF PortTyped
    <2>3. Flight(thr, tsr, sent, 0)
      <3>1. \A u \in Threads : ~ Sends(u)
        BY <2>2, <1>1 DEF Sends
      <3> QED BY <3>1, <2>1 DEF Holding
    <2>4. at[t] \in {"divisor_high", "divisor_low", "line"} => dlab
      BY <2>1 DEF Latch
    <2>5. /\ at[t] = "dlab" => at'[t] = "divisor_high" /\ dlab' = TRUE
          /\ at[t] = "divisor_high" => at'[t] = "divisor_low" /\ dlab' = dlab
          /\ at[t] = "divisor_low" => at'[t] = "line" /\ dlab' = dlab /\ divisor' = Divisor
          /\ at[t] = "line" => /\ at'[t] = (IF data[t] = <<>> THEN "out" ELSE "wait")
                               /\ dlab' = FALSE /\ divisor' = divisor
      BY <2>4, <1>1 DEF ConfigureBaudRate, ConfigureLine, DataPort, Goto, PortTyped
    <2>6. thr' = thr /\ sent' = sent
      BY <2>4 DEF ConfigureBaudRate, ConfigureLine, DataPort
    <2>7. Flight(thr', tsr', sent', 0)
      <3>1. tsr' = tsr \/ tsr' = IF tsr = <<>> THEN <<>> ELSE <<Spoiled(tsr[1])>>
        BY DEF ConfigureBaudRate, ConfigureLine
      <3> QED BY <3>1, <2>3, <2>6, FlightSpoil
    <2>8. Alone'
      BY <2>2 DEF Alone
    <2>9. Latch'
      <3>1. at[t] = "line" => divisor = Divisor
        BY <2>1 DEF Latch
      <3>2. /\ at'[t] \in {"divisor_high", "divisor_low", "line"} => dlab'
            /\ at'[t] = "line" => divisor' = Divisor
            /\ at'[t] \in {"wait", "send"} => ~ dlab' /\ divisor' = Divisor
        BY <3>1, <2>4, <2>5, <1>1
      <3> QED BY <3>2, <2>2 DEF Latch, Sends, Configured
    <2>10. Holding'
      <3>1. Sends(t)' => at[t] = "line" /\ data[t] # <<>>
        BY <2>5, <1>1 DEF Sends
      <3>2. ASSUME Sends(t)' PROVE Len(data'[t]) # 0 /\ Flight(thr', tsr', sent', Len(data'[t]))
        <4>1. data'[t] \in Seq(Chars) /\ data'[t] # <<>>
          BY <3>1, <3>2, <1>1, <1>2 DEF PortTyped
        <4>2. Len(data'[t]) \in Nat /\ Len(data'[t]) # 0
          BY <4>1, EmptySeq
        <4>3. 0 \in Nat /\ 0 <= Len(data'[t])
          BY <4>2
        <4> QED BY <4>2, <4>3, <2>7, FlightMore
      <3>3. \A u \in Threads : u # t => ~ Sends(u)'
        BY <2>2 DEF Sends
      <3>4. \A u \in Threads : at'[u] # "send"
        BY <2>2, <1>3
      <3> QED BY <3>2, <3>3, <3>4, <2>7, Zenon DEF Holding
    <2> QED BY <1>2, <1>5, <1>7, <2>8, <2>9, <2>10 DEF PortInv
  <1> QED BY <1>1, <1>6, <1>7 DEF PortTyped

\* A turn of the waiting loop.
LEMMA WaitStep ==
    ASSUME PortInv, NEW t \in Threads, Wait(t)
    PROVE  PortInv'
  <1>1. CASE at' = at
    BY <1>1, ElsewhereStep DEF Wait
  <1>2. CASE at' # at
    <2>1. at[t] = "wait" /\ thr = <<>> /\ at' = [at EXCEPT ![t] = "send"]
          /\ UNCHANGED <<dlab, divisor, thr, tsr, sent, overlapped, data>>
      BY <1>2 DEF Wait, Goto, port
    <2>2. PortTyped'
      BY <2>1 DEF PortInv, PortTyped, Places, Sends
    <2>3. \A u \in Threads : /\ at'[u] = (IF u = t THEN "send" ELSE at[u])
                             /\ Sends(u)' <=> Sends(u)
      BY <2>1 DEF PortInv, PortTyped, Sends
    <2>4. CASE ~ overlapped
      <3>1. Alone /\ Latch /\ Holding
        BY <2>4 DEF PortInv
      <3>2. Alone'
        BY <3>1, <2>1, <2>3 DEF Alone
      <3>3. Latch'
        BY <3>1, <2>1, <2>3 DEF Latch, Configured
      <3>4. Holding'
        BY <3>1, <2>1, <2>3 DEF Holding
      <3> QED BY <2>1, <2>2, <2>4, <3>2, <3>3, <3>4 DEF PortInv
    <2> QED BY <2>1, <2>2, <2>4 DEF PortInv
  <1> QED BY <1>1, <1>2

\* A byte is given to the port, which can take it and leads to the line unless
\* another call interferes.
LEMMA SendStep ==
    ASSUME PortInv, NEW t \in Threads, SendByte(t)
    PROVE  PortInv'
  <1>1. PortTyped /\ at[t] = "send"
    BY DEF PortInv, SendByte
  <1>2. PICK l \in Nat : l = Len(data[t])
    BY <1>1, LenProperties DEF PortTyped
  <1>3. /\ DataPort(Head(data[t]), l - 1)
        /\ data' = [data EXCEPT ![t] = Tail(data[t])]
        /\ at' = [at EXCEPT ![t] = IF l = 1 THEN "out" ELSE "wait"]
        /\ UNCHANGED <<dlab, tsr, overlapped>>
    BY <1>2, Zenon DEF SendByte, Goto
  <1>4. data[t] \in Seq(Chars) /\ data[t] # <<>>
    BY <1>1 DEF PortTyped, Sends
  <1>5. Tail(data[t]) \in Seq(Chars) /\ Len(Tail(data[t])) = l - 1
    BY <1>2, <1>4, HeadTailProperties
  <1>6. PortTyped'
    <2>1. l # 1 => Tail(data[t]) # <<>>
      <3>1. Len(<<>>) = 0 /\ (l # 1 => l - 1 # 0)
        OBVIOUS
      <3> QED BY <3>1, <1>5, Zenon
    <2>2. \A u \in Threads : Sends(u)' => data'[u] # <<>>
      BY <2>1, <1>1, <1>3 DEF PortTyped, Sends
    <2> QED BY <2>2, <1>1, <1>3, <1>5 DEF PortTyped, Places
  <1>7. CASE overlapped
    <2>1. sent' = sent
      BY <1>3, <1>7 DEF DataPort
    <2> QED BY <2>1, <1>3, <1>7, <1>6 DEF PortInv
  <1>8. CASE ~ overlapped
    <2>1. Alone /\ Latch /\ Holding
      BY <1>8 DEF PortInv
    <2>2. l # 0 /\ Flight(thr, tsr, sent, l) /\ thr = <<>> /\ Configured
      BY <2>1, <1>1, <1>2 DEF Holding, Latch, Sends
    <2>6. PICK e : e = Entry(Head(data[t]), l - 1)
      OBVIOUS
    <2>7. IsEntry(e) /\ e.rest = l - 1
      BY <2>2, <2>6 DEF IsEntry, Entry
    <2>8. thr' = <<e>> /\ sent' = Append(sent, e) /\ divisor' = divisor
      BY <2>2, <2>6, <1>3, <1>8 DEF DataPort, Configured
    <2>9. Flight(thr', tsr', sent', l - 1)
      <3>1. Flight(<<>>, tsr, sent, l)
        BY <2>2
      <3> QED BY <3>1, <2>2, <2>7, <2>8, <1>3, FlightSend
    <2>10. \A u \in Threads : u # t => at[u] = "out"
      BY <2>1, <1>1, OneInside
    <2>11. \A u \in Threads : at'[u] = (IF u = t THEN IF l = 1 THEN "out" ELSE "wait" ELSE "out")
      BY <2>10, <1>1, <1>3 DEF PortTyped
    <2>12. Alone'
      BY <2>11 DEF Alone
    <2>13. Latch'
      BY <2>2, <2>8, <2>11, <1>3 DEF Latch, Sends, Configured
    <2>14. Holding'
      <3>1. data'[t] = Tail(data[t])
        BY <1>1, <1>3 DEF PortTyped
      <3>2. Len(data'[t]) = l - 1
        BY <3>1, <1>5
      <3>3. \A u \in Threads : at'[u] # "send"
        BY <2>11
      <3>4. CASE l = 1
        <4>1. \A u \in Threads : ~ Sends(u)'
          BY <3>4, <2>11 DEF Sends
        <4>2. l - 1 = 0
          BY <3>4
        <4> QED BY <4>1, <4>2, <3>3, <2>9, Zenon DEF Holding
      <3>5. CASE l # 1
        <4>1. Sends(t)' /\ \A u \in Threads : u # t => ~ Sends(u)'
          BY <3>5, <2>11 DEF Sends
        <4>2. l - 1 # 0
          BY <3>5
        <4>3. Flight(thr', tsr', sent', Len(data'[t])) /\ Len(data'[t]) # 0
          BY <4>2, <3>2, <2>9, Zenon
        <4> QED BY <4>1, <4>3, <3>3, Zenon DEF Holding
      <3> QED BY <3>4, <3>5
    <2> QED BY <1>3, <1>8, <1>6, <2>12, <2>13, <2>14 DEF PortInv
  <1> QED BY <1>1, <1>7, <1>8 DEF PortTyped

\* The port works on while the thread in serial_write() is where it is.
LEMMA PortWorks ==
    ASSUME PortInv, ~ overlapped,
           UNCHANGED <<dlab, divisor, overlapped, at, data>>, thr = <<>> => thr' = <<>>,
           \A l \in Nat : /\ Flight(thr, tsr, sent, l)
                          /\ l <= 1 \/ Configured
                          => Flight(thr', tsr', sent', l)
    PROVE  PortInv'
  <1>1. PortTyped /\ Alone /\ Latch /\ Holding
    BY DEF PortInv
  <1>2. PortTyped' /\ Alone' /\ Latch'
    BY <1>1 DEF PortTyped, Alone, Latch, Sends, Configured
  <1>3. \A t \in Threads : Sends(t)' <=> Sends(t)
    BY DEF Sends
  <1>4. ASSUME NEW t \in Threads, Sends(t)
        PROVE  Len(data'[t]) # 0 /\ Flight(thr', tsr', sent', Len(data'[t]))
    <2>1. Len(data[t]) \in Nat /\ data' = data
      BY <1>1, LenProperties DEF PortTyped
    <2>2. Flight(thr, tsr, sent, Len(data[t])) /\ Configured /\ Len(data[t]) # 0
      BY <1>1, <1>4 DEF Holding, Latch
    <2> QED BY <2>1, <2>2
  <1>5. (\A t \in Threads : ~ Sends(t)) => Flight(thr', tsr', sent', 0)
    <2>1. 0 \in Nat /\ 0 <= 1
      OBVIOUS
    <2> QED BY <2>1, <1>1 DEF Holding
  <1>6. \A t \in Threads : at'[t] = "send" => thr' = <<>>
    BY <1>1 DEF Holding
  <1>7. Holding'
    BY <1>3, <1>4, <1>5, <1>6, Zenon DEF Holding
  <1> QED BY <1>2, <1>7 DEF PortInv

\* A byte begins to leave, or has left.
LEMMA TransmitStep ==
    ASSUME PortInv, Transmit
    PROVE  PortInv'
  <1>1. UNCHANGED <<dlab, divisor, overlapped, at, data>>
    BY DEF Transmit, Shift, Leave
  <1>2. CASE overlapped
    <2>1. sent' = sent
      BY <1>2 DEF Transmit, Shift, Leave
    <2> QED BY <2>1, <1>1, <1>2 DEF PortInv, PortTyped, Sends
  <1>3. CASE ~ overlapped
    <2>1. CASE Shift
      <3>1. PICK y : y = IF Configured THEN thr[1] ELSE Spoiled(thr[1])
        OBVIOUS
      <3>2. thr # <<>> /\ tsr = <<>> /\ thr' = <<>> /\ tsr' = <<y>> /\ sent' = sent
        BY <3>1, <2>1 DEF Shift
      <3>3. ASSUME NEW l \in Nat, Flight(thr, tsr, sent, l), l <= 1 \/ Configured
            PROVE  Flight(thr', tsr', sent', l)
        <4>1. y = thr[1] \/ (l <= 1 /\ y = Spoiled(thr[1]))
          BY <3>1, <3>3
        <4>2. Flight(<<>>, <<y>>, sent, l)
          BY <4>1, <3>2, <3>3, FlightShift
        <4> QED BY <4>2, <3>2
      <3> QED BY <3>2, <3>3, <1>1, <1>3, PortWorks
    <2>2. CASE Leave
      <3>1. tsr # <<>> /\ thr' = thr /\ tsr' = <<>> /\ sent' = Tail(sent)
        BY <2>2, <1>3 DEF Leave
      <3>2. ASSUME NEW l \in Nat, Flight(thr, tsr, sent, l) PROVE Flight(thr', tsr', sent', l)
        <4>1. Flight(thr, <<>>, Tail(sent), l)
          BY <3>1, <3>2, FlightLeave
        <4> QED BY <4>1, <3>1
      <3> QED BY <3>1, <3>2, <1>1, <1>3, PortWorks
    <2> QED BY <2>1, <2>2 DEF Transmit
  <1> QED BY <1>2, <1>3 DEF PortInv, PortTyped

\* Every step.
LEMMA NextPortInv == PortInv /\ CallInv /\ [KprintfNext]_kprintfVars => PortInv'
  <1> SUFFICES ASSUME PortInv, CallInv, [KprintfNext]_kprintfVars PROVE PortInv'
    OBVIOUS
  <1>1. ASSUME NEW t \in Threads, NEW c \in Calls[t], Call(t, c) PROVE PortInv'
    BY <1>1, ElsewhereStep DEF Call
  <1>2. ASSUME NEW t \in Threads, Turn(t) PROVE PortInv'
    BY <1>2, ElsewhereStep, Zenon DEF Turn
  <1>3. ASSUME NEW t \in Threads, WriteGen(t) PROVE PortInv'
    <2>1. CASE Enter(t, Head(pieces[t]))
      <3>1. at[t] = "out" /\ pieces[t] # <<>>
        BY <1>3 DEF WriteGen
      <3>2. Running(t)
        BY <3>1 DEF CallInv, Waiting
      <3>3. pieces[t] \in Seq(Seq(Chars))
        BY <3>2, Zenon DEF Running, Got
      <3>4. Head(pieces[t]) \in Seq(Chars)
        BY <3>1, <3>3, HeadTailProperties
      <3> QED BY <3>1, <3>4, <2>1, EnterStep
    <2>2. CASE UNCHANGED <<port, at, data>>
      BY <2>2, ElsewhereStep
    <2> QED BY <1>3, <2>1, <2>2 DEF WriteGen
  <1>4. ASSUME NEW t \in Threads, Serial(t) PROVE PortInv'
    BY <1>4, ConfigureStep, WaitStep, SendStep DEF Serial, SerialStep
  <1>5. CASE PortSends
    BY <1>5, TransmitStep DEF PortSends
  <1>6. CASE UNCHANGED kprintfVars
    BY <1>6, ElsewhereStep DEF kprintfVars
  <1> QED BY <1>1, <1>2, <1>3, <1>4, <1>5, <1>6 DEF KprintfNext, KprintfStep

-----------------------------------------------------------------------------
(* Theorems about the serial port and the buffer.                          *)

\* The inductive invariant of the serial port.
THEOREM PortInvariant == KprintfSpec => []PortInv
  <1>1. KprintfInit => PortInv
    BY InitPortInv
  <1>2. PortInv /\ CallInv /\ [KprintfNext]_kprintfVars => PortInv'
    BY NextPortInv
  <1> QED BY <1>1, <1>2, CallInvariant, PTL DEF KprintfSpec

\* Unless two threads were in serial_write() at the same time since the port was
\* idle, what it holds and shifts out is what it was given and has not left,
\* once and in order, and only the last two bytes of a write_gen() can be
\* spoiled by the next call, for any threads and any calls.
THEOREM NoByteIsLost == KprintfSpec => []BytesArrive
  <1>1. PortInv => BytesArrive
    <2> SUFFICES ASSUME PortInv, ~ overlapped
                 PROVE  /\ Len(tsr \o thr) = Len(sent)
                        /\ \A i \in DOMAIN (tsr \o thr) :
                              \/ (tsr \o thr)[i] = sent[i]
                              \/ (tsr \o thr)[i] = Spoiled(sent[i]) /\ sent[i].rest <= 1
      BY Zenon DEF BytesArrive
    <2>1. \E l : Flight(thr, tsr, sent, l)
      BY DEF PortInv, Holding
    <2> QED BY <2>1, FlightArrives
  <1> QED BY <1>1, PortInvariant, PTL

\* The search for conversions stays in the format, and only the calls of MayOverrun
\* leave the buffer of kprintf_level(), for any buffer that holds ten digits.
THEOREM ArgumentFits == KprintfSpec => []ArgumentStaysInBuffer
  <1>1. PortInv /\ CallInv => ArgumentStaysInBuffer
    <2> SUFFICES ASSUME PortInv, CallInv PROVE ArgumentStaysInBuffer
      OBVIOUS
    <2>1. dlab \in BOOLEAN /\ overlapped \in BOOLEAN /\ at \in [Threads -> Places]
      BY DEF PortInv, PortTyped
    <2>2. overrun \in [Threads -> BOOLEAN]
      BY DEF CallInv, LocalsTyped
    <2>3. OnlyStringsOverrun
      <3>1. \A t \in Threads : (Waiting(t) \/ Running(t)) /\ overrun[t] => MayOverrun(call[t])
        BY Zenon DEF Waiting, Running
      <3> QED BY <3>1, Zenon DEF OnlyStringsOverrun, CallInv
    <2>4. \A t \in Threads : written[t] \in Nat /\ search_from[t] \in 0 .. (Len(Format(call[t])) + 1)
      BY SearchInFormat
    <2> QED BY <2>1, <2>2, <2>3, <2>4 DEF ArgumentStaysInBuffer, KprintfTypeOK
  <1> QED BY <1>1, PortInvariant, CallInvariant, PTL

=============================================================================
