------------------------------ MODULE Terminal ------------------------------
(***************************************************************************)
(* The text terminal (tty.c), its cursor (cursor.c) and the echo of the    *)
(* keyboard handler (keyboard.c).  Threads write strings statement by      *)
(* statement; an increment that is compared is a load and a store, and     *)
(* row and column are loaded one after the other for the cursor.  The      *)
(* keyboard interrupt runs to its end with interrupts off and may fall     *)
(* between any two of these steps, as may a switch to another thread: row, *)
(* column, screen and the registers of the cursor are shared without a     *)
(* lock.  Colours are left out.                                            *)
(***************************************************************************)
EXTENDS Integers, Sequences, FiniteSetsExt

CONSTANTS
    Writers,     \* the threads that write to the terminal
    VGA_WIDTH, VGA_HEIGHT,
    WORD,        \* the values of a size_t: 2^32
    BYTE,        \* the values of a byte: 256
    Strings,     \* what the threads write, in calls of terminal_write()
    kbdus,       \* the character of every scan code of a pressed key
    Released,    \* scan codes with the top bit set
    Newline, Blank,
    MaxChars     \* bound of the model: the characters shown

ASSUME TerminalAssumption ==
    /\ VGA_WIDTH \in Nat \ {0} /\ VGA_HEIGHT \in Nat \ {0, 1}
    /\ WORD \in Nat /\ WORD > VGA_WIDTH * VGA_HEIGHT + VGA_WIDTH
    /\ BYTE \in Nat \ {0}
    /\ MaxChars \in Nat
    /\ Newline # Blank
    /\ Released \cap DOMAIN kbdus = {}

Cells == 0 .. (VGA_WIDTH * VGA_HEIGHT - 1)
HIGH == 14
LOW == 15

VARIABLES
    row, column,    \* terminal_row, terminal_column
    screen,         \* terminal_buffer
    crtc, command,  \* the cursor registers of the controller, and the one selected
    pc, todo,       \* where every thread is, and what it has still to write
    reg,            \* the value it has loaded or the argument of move_cursor()
    text,           \* history: the characters shown
    stray,          \* history: a cell outside the screen was written
    torn,           \* history: a terminal_putchar() began within another one
    stale           \* history: a key or another move fell within the last move_cursor()

cursor == <<crtc, command>>
thread == <<pc, todo, reg>>
history == <<text, stray, torn, stale>>
vars == <<row, column, screen, cursor, thread, history>>

\* In terminal_putchar(), on the way to move_cursor() and in it.
Inside == {"scrolled", "put", "newline", "newline_store", "newline_back",
           "next_column", "store_column", "wrap"}
Moving == {"add_column", "add_row", "high", "high_data", "low", "low_data"}
Labels == {"idle", "char", "move"} \cup Inside \cup Moving

\* A size_t wraps around.
Word(n) == n % WORD

\* Slip: the lines move down instead of up.
ScrolledDown(s) == [i \in Cells |-> IF i >= VGA_WIDTH THEN s[i - VGA_WIDTH] ELSE Blank]

\* terminal_scroll()
Scrolled(s) == [i \in Cells |-> IF i + VGA_WIDTH \in Cells THEN s[i + VGA_WIDTH] ELSE Blank]

Index(x, y) == Word(y * VGA_WIDTH + x)

\* terminal_putentryat(): a cell outside the buffer is somebody else's memory.
PutEntry(s, c, x, y) == IF Index(x, y) \in Cells THEN [s EXCEPT ![Index(x, y)] = c] ELSE s

\* terminal_putchar() at one go, on what the terminal is in state t.
PutChar(t, c) ==
    LET u == IF t.row = VGA_HEIGHT
             THEN [row |-> VGA_HEIGHT - 1, column |-> 0, screen |-> Scrolled(t.screen)] ELSE t
    IN  CASE c = Newline /\ Word(u.row + 1) = VGA_HEIGHT ->
               [u EXCEPT !.column = 0, !.screen = Scrolled(u.screen)]
          [] c = Newline /\ Word(u.row + 1) # VGA_HEIGHT ->
               [u EXCEPT !.column = 0, !.row = Word(@ + 1)]
          [] c # Newline ->
               LET wraps == Word(u.column + 1) = VGA_WIDTH IN
               [row |-> IF wraps THEN Word(u.row + 1) ELSE u.row,
                column |-> IF wraps THEN 0 ELSE Word(u.column + 1),
                screen |-> PutEntry(u.screen, c, u.column, u.row)]

Init ==
    /\ row = 0 /\ column = 0
    /\ screen = [i \in Cells |-> Blank]
    /\ crtc = [r \in {HIGH, LOW} |-> 0] /\ command = LOW
    /\ pc = [t \in Writers |-> "idle"] /\ todo = [t \in Writers |-> <<>>]
    /\ reg = [t \in Writers |-> 0]
    /\ text = <<>>
    /\ stray = FALSE /\ torn = FALSE /\ stale = FALSE

-----------------------------------------------------------------------------
(* terminal_write(), by a thread t.                                        *)

Jump(t, label) == pc' = [pc EXCEPT ![t] = label]
Load(t, value) == reg' = [reg EXCEPT ![t] = value]

\* What the threads have still to show.
Pending == MapThenSumSet(LAMBDA t : Len(todo[t]), Writers)

Write(t, data) ==
    /\ pc[t] = "idle"
    /\ Len(text) + Pending + Len(data) <= MaxChars
    /\ todo' = [todo EXCEPT ![t] = data]
    /\ Jump(t, IF data = <<>> THEN "move" ELSE "char")
    /\ UNCHANGED <<row, column, screen, cursor, reg, history>>

\* The loop of terminal_write() after a character.
NextChar(t) ==
    /\ text' = Append(text, Head(todo[t]))
    /\ todo' = [todo EXCEPT ![t] = Tail(todo[t])]
    /\ Jump(t, IF Tail(todo[t]) = <<>> THEN "move" ELSE "char")

\* Whether somebody but t is in terminal_putchar(), or in move_cursor().
Others(t, labels) == \E u \in Writers \ {t} : pc[u] \in labels

\* Slip: the screen is not scrolled before it is full.
FullForgotten(t) ==
    /\ pc[t] = "char"
    /\ Jump(t, "put")
    /\ torn' = (torn \/ Others(t, Inside))
    /\ UNCHANGED <<row, column, screen, cursor, todo, reg, text, stray, stale>>

\* terminal_putchar(): a row behind the last one is made room for first.
Full(t) ==
    /\ pc[t] = "char"
    /\ IF row = VGA_HEIGHT THEN screen' = Scrolled(screen) /\ Jump(t, "scrolled")
       ELSE UNCHANGED screen /\ Jump(t, "put")
    /\ torn' = (torn \/ Others(t, Inside))
    /\ UNCHANGED <<row, column, cursor, todo, reg, text, stray, stale>>

FullDone(t) ==
    /\ pc[t] = "scrolled"
    /\ row' = VGA_HEIGHT - 1 /\ column' = 0
    /\ Jump(t, "put")
    /\ UNCHANGED <<screen, cursor, todo, reg, history>>

Put(t) ==
    /\ pc[t] = "put"
    /\ IF Head(todo[t]) = Newline
       THEN column' = 0 /\ Jump(t, "newline") /\ UNCHANGED <<screen, stray>>
       ELSE /\ screen' = PutEntry(screen, Head(todo[t]), column, row)
            /\ stray' = (stray \/ Index(column, row) \notin Cells)
            /\ Jump(t, "next_column")
            /\ UNCHANGED column
    /\ UNCHANGED <<row, cursor, todo, reg, text, torn, stale>>

\* ++terminal_row == VGA_HEIGHT
NewlineLoad(t) ==
    /\ pc[t] = "newline"
    /\ Load(t, Word(row + 1))
    /\ Jump(t, "newline_store")
    /\ UNCHANGED <<row, column, screen, cursor, todo, history>>

NewlineStore(t) ==
    /\ pc[t] = "newline_store"
    /\ row' = reg[t]
    /\ IF reg[t] = VGA_HEIGHT
       THEN screen' = Scrolled(screen) /\ Jump(t, "newline_back") /\ UNCHANGED <<todo, text>>
       ELSE NextChar(t) /\ UNCHANGED screen
    /\ UNCHANGED <<column, cursor, reg, stray, torn, stale>>

NewlineBack(t) ==
    /\ pc[t] = "newline_back"
    /\ row' = Word(row - 1)
    /\ NextChar(t)
    /\ UNCHANGED <<column, screen, cursor, reg, stray, torn, stale>>

\* ++terminal_column == VGA_WIDTH
ColumnLoad(t) ==
    /\ pc[t] = "next_column"
    /\ Load(t, Word(column + 1))
    /\ Jump(t, "store_column")
    /\ UNCHANGED <<row, column, screen, cursor, todo, history>>

ColumnStore(t) ==
    /\ pc[t] = "store_column"
    /\ column' = reg[t]
    /\ IF reg[t] = VGA_WIDTH THEN Jump(t, "wrap") /\ UNCHANGED <<todo, text>> ELSE NextChar(t)
    /\ UNCHANGED <<row, screen, cursor, reg, stray, torn, stale>>

Wrap(t) ==
    /\ pc[t] = "wrap"
    /\ column' = 0 /\ row' = Word(row + 1)
    /\ NextChar(t)
    /\ UNCHANGED <<screen, cursor, reg, stray, torn, stale>>

-----------------------------------------------------------------------------
(* move_cursor(), by thread t.                                             *)

\* Row and column are loaded for its argument, in the order the compiler likes:
\* the first
MoveCursor(t) ==
    /\ pc[t] = "move"
    /\ \/ Load(t, Index(0, row)) /\ Jump(t, "add_column")
       \/ Load(t, column) /\ Jump(t, "add_row")
    /\ stale' = Others(t, Moving)
    /\ UNCHANGED <<row, column, screen, cursor, todo, text, stray, torn>>

\* and the second.
MoveCursorAdd(t) ==
    /\ \/ pc[t] = "add_column" /\ Load(t, Word(reg[t] + column))
       \/ pc[t] = "add_row" /\ Load(t, Index(reg[t], row))
    /\ Jump(t, "high")
    /\ UNCHANGED <<row, column, screen, cursor, todo, history>>

\* For each register its number, then a byte.
Select(t, from, register, to) ==
    /\ pc[t] = from
    /\ command' = register
    /\ Jump(t, to)
    /\ UNCHANGED <<row, column, screen, crtc, todo, reg, history>>

Send(t, from, byte, to) ==
    /\ pc[t] = from
    /\ crtc' = [crtc EXCEPT ![command] = byte]
    /\ Jump(t, to)
    /\ UNCHANGED <<row, column, screen, command, todo, reg, history>>

send_high(t) ==
    \/ Select(t, "high", HIGH, "high_data")
    \/ Send(t, "high_data", (reg[t] \div BYTE) % BYTE, "low")

\* Slip: the low byte is sent to the register selected before.
send_low_unselected(t) ==
    Select(t, "low", command, "low_data") \/ Send(t, "low_data", reg[t] % BYTE, "idle")

send_low(t) ==
    Select(t, "low", LOW, "low_data") \/ Send(t, "low_data", reg[t] % BYTE, "idle")

-----------------------------------------------------------------------------
\* keyboard_irq_handler(): a pressed key is shown with terminal_putc(), whatever
\* the threads are doing.
KeyPressed(scancode) ==
    LET c == kbdus[scancode]
        t == PutChar([row |-> row, column |-> column, screen |-> screen], c)
        at == Index(t.column, t.row)
        y == IF row = VGA_HEIGHT THEN VGA_HEIGHT - 1 ELSE row
        x == IF row = VGA_HEIGHT THEN 0 ELSE column
    IN  /\ Len(text) + Pending < MaxChars
        /\ row' = t.row /\ column' = t.column /\ screen' = t.screen
        /\ stray' = (stray \/ (c # Newline /\ Index(x, y) \notin Cells))
        /\ crtc' = [r \in {HIGH, LOW} |-> IF r = HIGH THEN (at \div BYTE) % BYTE ELSE at % BYTE]
        /\ command' = LOW
        /\ text' = Append(text, c)
        /\ torn' = (torn \/ \E u \in Writers : pc[u] \in Inside)
        /\ stale' = \E u \in Writers : pc[u] \in Moving
        /\ UNCHANGED thread

\* The release of a key shows nothing.
KeyReleased(scancode) == scancode >= 128 /\ UNCHANGED vars

\* What a thread goes on with.
Step(t) ==
    \/ Full(t) \/ FullDone(t) \/ Put(t) \/ NewlineLoad(t) \/ NewlineStore(t) \/ NewlineBack(t)
    \/ ColumnLoad(t) \/ ColumnStore(t) \/ Wrap(t)
    \/ MoveCursor(t) \/ MoveCursorAdd(t) \/ send_high(t) \/ send_low(t)

Next ==
    \/ \E t \in Writers : \E data \in Strings : Write(t, data)
    \/ \E t \in Writers : Step(t)
    \/ \E scancode \in DOMAIN kbdus : KeyPressed(scancode)
    \/ \E scancode \in Released : KeyReleased(scancode)

Spec == Init /\ [][Next]_vars

-----------------------------------------------------------------------------
(* Properties.                                                             *)

TypeOK ==
    /\ row \in 0 .. (WORD - 1) /\ column \in 0 .. (WORD - 1)
    /\ reg \in [Writers -> 0 .. (WORD - 1)]
    /\ DOMAIN screen = Cells
    /\ crtc \in [{HIGH, LOW} -> 0 .. (BYTE - 1)] /\ command \in {HIGH, LOW}
    /\ pc \in [Writers -> Labels] /\ DOMAIN todo = Writers

\* Where the terminal is between two characters.
Settled == \A t \in Writers : pc[t] \notin Inside

\* Where the characters belong on an endless sheet of VGA_WIDTH columns:
\* Place[i] is where the i-th one ends.
Place[i \in 0 .. Len(text)] ==
    IF i = 0 THEN 0
    ELSE IF text[i] = Newline THEN (Place[i - 1] \div VGA_WIDTH + 1) * VGA_WIDTH
    ELSE Place[i - 1] + 1

Sheet(place) ==
    LET here == {i \in 1 .. Len(text) : text[i] # Newline /\ Place[i - 1] = place}
    IN  IF here = {} THEN Blank ELSE text[Max(here)]

\* The line of the sheet at the top of the screen: a newline at the bottom
\* scrolls at once, a full last line only when there is a character to come.
TopLine ==
    LET end == Place[Len(text)]
        waits == text # <<>> /\ text[Len(text)] # Newline /\ end % VGA_WIDTH = 0
    IN  Max({0, (IF waits THEN end \div VGA_WIDTH - 1 ELSE end \div VGA_WIDTH) - (VGA_HEIGHT - 1)})

\* The screen shows the last lines of what was written and typed, in the order in
\* which it came, if no terminal_putchar() begins within another one, be it that
\* of a key or of another thread: scrolling, line ends, full lines and the
\* characters others put between two of a string lose and move nothing.
ScreenShowsText ==
    ~ torn /\ Settled =>
        /\ \A i \in Cells : screen[i] = Sheet(TopLine * VGA_WIDTH + i)
        /\ Index(column, row) = Place[Len(text)] - TopLine * VGA_WIDTH

\* Only a terminal_putchar() within another one takes the terminal out of its
\* buffer: row and column are compared for equality (tty.c:56, 67, 76), and
\* undisturbed they are never past the value they are compared with.
OnlyTornWritesStray ==
    ~ torn => /\ ~ stray
              /\ row <= VGA_HEIGHT /\ (Settled => column < VGA_WIDTH)

\* The cursor is behind the last character whenever nobody is writing, also after
\* an echo or another thread's character within terminal_putchar() and while
\* another thread moved it; only an echo, or a move of another thread, between the
\* first load of a move_cursor() (tty.c:91) and its last port write leaves it
\* elsewhere, until the next write.
CursorFollows ==
    (\A t \in Writers : pc[t] = "idle") /\ ~ stale /\ text # <<>> =>
        crtc[HIGH] * BYTE + crtc[LOW] = Index(column, row) % (BYTE * BYTE)

\* terminal_putchar() writes inside the screen, at every combination of full
\* lines, newlines, scrolling and threads, unless one began in the middle of
\* another; the bytes of move_cursor() fit the registers of the cursor.
StaysInBuffer == TypeOK /\ OnlyTornWritesStray

=============================================================================
