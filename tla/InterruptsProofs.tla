-------------------------- MODULE InterruptsProofs --------------------------
(***************************************************************************)
(* Proofs about Interrupts: the controllers, the boot order and the        *)
(* nesting of handlers, for any lines, any threads and any depth.          *)
(***************************************************************************)
EXTENDS Interrupts, SequenceTheorems, TLAPS

Frame == [irq : All \cup {CALL, SOFTWARE}, at : Places, mask : SUBSET All]

-----------------------------------------------------------------------------
(* The inductive invariant.                                                *)

Typed ==
    /\ stage \in 0 .. 10
    /\ irr \subseteq Lines /\ imr \subseteq All
    /\ master \subseteq 0 .. 7 /\ slave \subseteq 8 .. 15
    /\ current \in Threads
    /\ frames \in [Threads -> Seq(Frame)]
    /\ iflag \in BOOLEAN /\ tableReady \in BOOLEAN

\* What the boot sequence has done by now.
Booted ==
    /\ stage >= 2 => 128 \in idt
    /\ stage >= 3 => 32 .. 47 \subseteq idt
    /\ stage >= 9 => tableReady
    /\ observers # <<>> => stage = 10
    /\ iflag => stage >= 6

\* A frame that may be interrupted or left by a switch of threads.
Calm(f) == f.irq \in {TIMER, CALL} /\ f.at \in {"resched", "switch", "eoi", "iret"}

\* The line that the handler of f has still to acknowledge, on either controller.
Pending(f) ==
    f.irq \in All /\ (f.at = "gate" \/ (f.at \in {"handler", "eoi"} /\ f.irq # TIMER))

\* What the controllers are like while f runs with interrupts off.
Serves(f) ==
    /\ f.at # "switch"
    /\ f.at \in {"gate", "handler"} => f.irq \in All
    /\ f.at \in {"resched", "restore"} => f.irq \in {TIMER, CALL}
    /\ f.at = "eoi" => f.irq # SOFTWARE
    /\ master \subseteq (IF Pending(f) THEN {OnMaster(f.irq)} ELSE {})
    /\ slave \subseteq (IF Pending(f) /\ IsSlave(f.irq) THEN {f.irq} ELSE {})
    /\ IF f.at = "restore" THEN f.mask = All ELSE imr = {}

\* Frames below the top, frames of other threads, and all while interrupts are on.
AllCalm ==
    \A t \in Threads : \A i \in 1 .. Len(frames[t]) :
        (i < Len(frames[t]) \/ t # current \/ iflag) => Calm(frames[t][i])

\* Who gets to resched() finds a process table.
TableFound ==
    \A t \in Threads : \A i \in 1 .. Len(frames[t]) : frames[t][i].at = "resched" => tableReady

Quiet == master = {} /\ slave = {} /\ imr = {}

IInv ==
    /\ Typed
    /\ Booted
    /\ AllCalm
    /\ TableFound
    /\ stage < 6 => \A t \in Threads : frames[t] = <<>>
    /\ iflag \/ stage < 6 => Quiet
    /\ ~ iflag /\ stage >= 6 => Stack # <<>> /\ Serves(Top)
    /\ ~ crashed

-----------------------------------------------------------------------------
(* The lower part of a stack.                                              *)

\* A prefix of a sequence, as it is left when the top of a stack is popped.
LEMMA PrefixFacts ==
    ASSUME NEW S, NEW q \in Seq(S), NEW n \in 0 .. Len(q)
    PROVE  /\ SubSeq(q, 1, n) \in Seq(S)
           /\ Len(SubSeq(q, 1, n)) = n
           /\ \A i \in 1 .. n : SubSeq(q, 1, n)[i] = q[i]
  <1>1. n \in Int /\ \A i \in 1 .. n : q[i] \in S
    OBVIOUS
  <1>2. /\ SubSeq(q, 1, n) \in Seq(S)
        /\ Len(SubSeq(q, 1, n)) = IF 1 <= n THEN n - 1 + 1 ELSE 0
        /\ \A i \in 1 .. (n - 1 + 1) : SubSeq(q, 1, n)[i] = q[1 + i - 1]
    BY <1>1, SubSeqProperties
  <1>3. Len(SubSeq(q, 1, n)) = n
    BY <1>1, <1>2
  <1>4. ASSUME NEW i \in 1 .. n
        PROVE  SubSeq(q, 1, n)[i] = q[i]
    <2>1. 1 + i - 1 = i /\ i \in 1 .. (n - 1 + 1)
      BY <1>1
    <2> QED BY <1>2, <2>1
  <1> QED BY <1>2, <1>3, <1>4

-----------------------------------------------------------------------------
(* The three ways in which a step changes a stack.                         *)

\* The frame at the top of the running thread's stack is replaced by g.
Replaced(g) == frames' = [frames EXCEPT ![current] = [Stack EXCEPT ![Len(Stack)] = g]]

\* What a step that only rewrites the top frame owes: the new frame fits the registers.
LEMMA ReplacedFacts ==
    ASSUME IInv, Stack # <<>>, NEW g \in Frame, Replaced(g),
           current' \in Threads, UNCHANGED tableReady,
           g.at = "resched" => tableReady,
           iflag' \/ current' # current => Calm(g)
    PROVE  /\ frames' \in [Threads -> Seq(Frame)]
           /\ frames'[current] # <<>>
           /\ frames'[current][Len(frames'[current])] = g
           /\ AllCalm' /\ TableFound'
           /\ stage >= 6
  <1>1. /\ current \in Threads /\ frames \in [Threads -> Seq(Frame)]
        /\ Stack \in Seq(Frame) /\ Len(Stack) \in Nat \ {0}
    BY DEF IInv, Typed, Stack
  <1> DEFINE s == [Stack EXCEPT ![Len(Stack)] = g]
  <1>2. /\ s \in Seq(Frame) /\ Len(s) = Len(Stack) /\ s[Len(Stack)] = g
        /\ \A i \in 1 .. Len(Stack) : i # Len(Stack) => s[i] = Stack[i]
    BY <1>1
  <1> HIDE DEF s
  <1>3. /\ frames' \in [Threads -> Seq(Frame)] /\ frames'[current] = s
        /\ \A t \in Threads \ {current} : frames'[t] = frames[t]
    BY <1>1, <1>2 DEF Replaced, s
  <1>4. frames'[current] # <<>> /\ frames'[current][Len(frames'[current])] = g
    BY <1>1, <1>2, <1>3
  <1>5. AllCalm'
    <2> SUFFICES ASSUME NEW t \in Threads, NEW i \in 1 .. Len(frames'[t]),
                        i < Len(frames'[t]) \/ t # current' \/ iflag'
                 PROVE  Calm(frames'[t][i])
      BY DEF AllCalm, Calm
    <2>1. CASE t = current /\ i = Len(Stack)
      BY <1>1, <1>2, <1>3, <2>1
    <2>2. CASE t = current /\ i # Len(Stack)
      <3>1. i \in 1 .. Len(Stack) /\ i < Len(Stack) /\ frames'[t][i] = frames[t][i]
        BY <1>1, <1>2, <1>3, <2>2 DEF Stack
      <3> QED BY <3>1, <2>2, <1>1 DEF IInv, AllCalm, Stack
    <2>3. CASE t # current
      BY <1>3, <2>3 DEF IInv, AllCalm
    <2> QED BY <2>1, <2>2, <2>3
  <1>6. TableFound'
    <2> SUFFICES ASSUME NEW t \in Threads, NEW i \in 1 .. Len(frames'[t]),
                        frames'[t][i].at = "resched"
                 PROVE  tableReady
      BY DEF TableFound
    <2>1. CASE t = current /\ i = Len(Stack)
      BY <1>1, <1>2, <1>3, <2>1
    <2>2. CASE t = current /\ i # Len(Stack)
      <3>1. i \in 1 .. Len(Stack) /\ frames'[t][i] = frames[t][i]
        BY <1>1, <1>2, <1>3, <2>2 DEF Stack
      <3> QED BY <3>1, <2>2, <1>1 DEF IInv, TableFound, Stack
    <2>3. CASE t # current
      BY <1>3, <2>3 DEF IInv, TableFound
    <2> QED BY <2>1, <2>2, <2>3
  <1>7. stage >= 6
    BY <1>1 DEF IInv, Typed, Stack
  <1> QED BY <1>3, <1>4, <1>5, <1>6, <1>7

\* A frame g is pushed, which only code that may be interrupted allows.
LEMMA PushedFacts ==
    ASSUME IInv, iflag \/ Stack = <<>>, NEW irq, NEW place,
           [irq |-> irq, at |-> place, mask |-> {}] \in Frame, Pushed(irq, place),
           UNCHANGED <<current, tableReady>>,
           place = "resched" => tableReady,
           iflag' => Calm([irq |-> irq, at |-> place, mask |-> {}])
    PROVE  /\ frames' \in [Threads -> Seq(Frame)]
           /\ Stack' # <<>>
           /\ Top' = [irq |-> irq, at |-> place, mask |-> {}]
           /\ AllCalm' /\ TableFound'
  <1> DEFINE g == [irq |-> irq, at |-> place, mask |-> {}]
  <1>1. /\ current \in Threads /\ frames \in [Threads -> Seq(Frame)]
        /\ Stack \in Seq(Frame) /\ Len(Stack) \in Nat
    BY DEF IInv, Typed, Stack
  <1> DEFINE s == Append(Stack, g)
  <1>2. /\ s \in Seq(Frame) /\ Len(s) = Len(Stack) + 1 /\ s[Len(s)] = g
        /\ \A i \in 1 .. Len(Stack) : s[i] = Stack[i]
    BY <1>1
  <1>3. /\ frames' \in [Threads -> Seq(Frame)] /\ frames'[current] = s
        /\ \A t \in Threads \ {current} : frames'[t] = frames[t]
    BY <1>1, <1>2 DEF Pushed, Stack
  <1>0. g.at = place
    OBVIOUS
  <1>00. iflag' => Calm(g)
    OBVIOUS
  <1> HIDE DEF s, g
  <1>4. Stack' # <<>> /\ Top' = g
    BY <1>1, <1>2, <1>3 DEF Stack, Top
  <1>5. AllCalm'
    <2> SUFFICES ASSUME NEW t \in Threads, NEW i \in 1 .. Len(frames'[t]),
                        i < Len(frames'[t]) \/ t # current \/ iflag'
                 PROVE  Calm(frames'[t][i])
      BY DEF AllCalm, Calm
    <2>1. CASE t = current /\ i = Len(Stack) + 1
      BY <1>1, <1>2, <1>3, <1>00, <2>1
    <2>2. CASE t = current /\ i # Len(Stack) + 1
      <3>1. i \in 1 .. Len(Stack) /\ frames'[t][i] = frames[t][i]
        BY <1>1, <1>2, <1>3, <2>2 DEF Stack
      <3>2. iflag
        BY <3>1, <1>1
      <3> QED BY <3>1, <3>2, <2>2, <1>1 DEF IInv, AllCalm, Stack
    <2>3. CASE t # current
      BY <1>3, <2>3 DEF IInv, AllCalm
    <2> QED BY <2>1, <2>2, <2>3
  <1>6. TableFound'
    <2> SUFFICES ASSUME NEW t \in Threads, NEW i \in 1 .. Len(frames'[t]),
                        frames'[t][i].at = "resched"
                 PROVE  tableReady
      BY DEF TableFound
    <2>1. CASE t = current /\ i = Len(Stack) + 1
      BY <1>0, <1>1, <1>2, <1>3, <2>1
    <2>2. CASE t = current /\ i # Len(Stack) + 1
      <3>1. i \in 1 .. Len(Stack) /\ frames'[t][i] = frames[t][i]
        BY <1>1, <1>2, <1>3, <2>2 DEF Stack
      <3> QED BY <3>1, <2>2, <1>1 DEF IInv, TableFound, Stack
    <2>3. CASE t # current
      BY <1>3, <2>3 DEF IInv, TableFound
    <2> QED BY <2>1, <2>2, <2>3
  <1> QED BY <1>3, <1>4, <1>5, <1>6 DEF g

\* The frame at the top is popped; what was below may be interrupted.
LEMMA PoppedFacts ==
    ASSUME IInv, Stack # <<>>, Popped, UNCHANGED <<current, tableReady>>
    PROVE  /\ frames' \in [Threads -> Seq(Frame)]
           /\ AllCalm' /\ TableFound'
           /\ stage >= 6
  <1>1. /\ current \in Threads /\ frames \in [Threads -> Seq(Frame)]
        /\ Stack \in Seq(Frame) /\ Len(Stack) \in Nat \ {0}
    BY DEF IInv, Typed, Stack
  <1> DEFINE s == SubSeq(Stack, 1, Len(Stack) - 1)
  <1>2. /\ s \in Seq(Frame) /\ Len(s) = Len(Stack) - 1
        /\ \A i \in 1 .. (Len(Stack) - 1) : s[i] = Stack[i]
    <2>1. Len(Stack) - 1 \in 0 .. Len(Stack)
      BY <1>1
    <2> QED BY <1>1, <2>1, PrefixFacts
  <1>3. /\ frames' \in [Threads -> Seq(Frame)] /\ frames'[current] = s
        /\ \A t \in Threads \ {current} : frames'[t] = frames[t]
    BY <1>1, <1>2 DEF Popped, Stack
  <1> HIDE DEF s
  <1>4. \A t \in Threads : \A i \in 1 .. Len(frames'[t]) :
            /\ i \in 1 .. Len(frames[t]) /\ frames'[t][i] = frames[t][i]
            /\ i < Len(frames[t]) \/ t # current
    <2> TAKE t \in Threads
    <2>1. CASE t = current
      <3>1. frames[t] = Stack /\ frames'[t] = s
        BY <1>3, <2>1 DEF Stack
      <3> QED BY <1>1, <1>2, <3>1
    <2>2. CASE t # current
      BY <1>3, <2>2
    <2> QED BY <2>1, <2>2
  <1>5. AllCalm'
    BY <1>4 DEF IInv, AllCalm, Calm
  <1>6. TableFound'
    BY <1>4 DEF IInv, TableFound
  <1>7. stage >= 6
    BY <1>1 DEF IInv, Typed, Stack
  <1> QED BY <1>3, <1>5, <1>6, <1>7

-----------------------------------------------------------------------------
(* The steps preserve the invariant.                                       *)

\* The state before boot, with no gate installed and nothing in service.
LEMMA InitIInv == Init => IInv
  <1> SUFFICES ASSUME Init PROVE IInv
    OBVIOUS
  <1>1. Typed
    <2>1. BOOT \in Threads
      BY LinesAssumption
    <2>2. [t \in Threads |-> <<>>] \in [Threads -> Seq(Frame)]
      OBVIOUS
    <2>3. iflag \in BOOLEAN /\ tableReady \in BOOLEAN
      BY Zenon DEF Init
    <2>4. /\ stage \in 0 .. 10
          /\ irr \subseteq Lines /\ imr \subseteq All
          /\ master \subseteq 0 .. 7 /\ slave \subseteq 8 .. 15
      BY DEF Init
    <2>5. current \in Threads /\ frames \in [Threads -> Seq(Frame)]
      BY <2>1, <2>2 DEF Init
    <2> QED BY <2>3, <2>4, <2>5 DEF Typed
  <1>2. Booted
    BY DEF Init, Booted
  <1>3. AllCalm /\ TableFound
    BY DEF Init, AllCalm, TableFound
  <1> QED BY <1>1, <1>2, <1>3 DEF Init, IInv, Quiet, Typed

\* A non-specific end of interrupt ends the one line that can be in service.
LEMMA EndedFacts ==
    ASSUME NEW lines, NEW a \in Int, lines \subseteq {a}
    PROVE  Ended(lines) = {}
  <1>1. lines = {} \/ lines = {a}
    OBVIOUS
  <1>2. a <= a
    OBVIOUS
  <1> QED BY <1>1, <1>2 DEF Ended, First

\* The frame at the top, when there is one.
LEMMA TopFacts ==
    ASSUME IInv, Stack # <<>>
    PROVE  /\ current \in Threads /\ Stack \in Seq(Frame) /\ Len(Stack) \in Nat \ {0}
           /\ Top \in Frame /\ Top.irq \in All \cup {CALL, SOFTWARE} /\ Top.at \in Places
           /\ iflag => Calm(Top) /\ Quiet
           /\ ~ iflag => Serves(Top)
           /\ Top.at = "resched" => tableReady
           /\ stage >= 6
  <1>1. /\ current \in Threads /\ Stack \in Seq(Frame) /\ Len(Stack) \in Nat \ {0}
        /\ Len(Stack) \in 1 .. Len(Stack)
    BY DEF IInv, Typed, Stack
  <1>2. Top \in Frame
    BY <1>1 DEF Top
  <1>3. stage >= 6 /\ stage \in 0 .. 10 /\ iflag \in BOOLEAN
    BY <1>1 DEF IInv, Typed, Stack
  <1>4. iflag => Calm(Top) /\ Quiet
    BY <1>1 DEF IInv, AllCalm, Stack, Top
  <1>5. Top.at = "resched" => tableReady
    BY <1>1 DEF IInv, TableFound, Stack, Top
  <1>6. ~ iflag => Serves(Top)
    BY <1>3 DEF IInv
  <1> QED BY <1>1, <1>2, <1>3, <1>4, <1>5, <1>6 DEF Frame

\* On to another place of a handler is a replacement of the top frame.
LEMMA GotoFacts ==
    ASSUME IInv, Stack # <<>>, NEW place \in Places, Goto(place)
    PROVE  /\ [Top EXCEPT !.at = place] \in Frame
           /\ Replaced([Top EXCEPT !.at = place])
  BY TopFacts DEF Goto, Replaced, Stack, Top, Frame, IInv, Typed

\* An interrupt gate that exists: interrupts are off and the handler's frame is
\* on top.
LEMMA GateFacts ==
    ASSUME IInv, iflag, NEW vector \in idt, NEW irq \in All \cup {SOFTWARE},
           NEW place \in {"gate", "iret"}, Gate(vector, irq, place)
    PROVE  /\ frames' \in [Threads -> Seq(Frame)]
           /\ Stack' # <<>> /\ Top' = [irq |-> irq, at |-> place, mask |-> {}]
           /\ AllCalm' /\ TableFound'
           /\ ~ iflag' /\ ~ crashed' /\ iflag' \in BOOLEAN
           /\ stage >= 6 /\ Quiet
           /\ UNCHANGED <<boot, routines, imr, current>>
  <1>1. /\ ~ iflag' /\ iflag' \in BOOLEAN /\ ~ crashed' /\ Pushed(irq, place)
        /\ UNCHANGED <<boot, routines, imr, current>>
        /\ stage >= 6 /\ Quiet
    BY DEF Gate, IInv, Booted
  <1>2. UNCHANGED <<current, tableReady>>
    BY <1>1 DEF boot
  <1>3. [irq |-> irq, at |-> place, mask |-> {}] \in Frame
    BY DEF Frame, Places
  <1>4. place # "resched"
    OBVIOUS
  <1> QED BY <1>1, <1>2, <1>3, <1>4, PushedFacts

\* The invariant behind a step that leaves the boot sequence alone and ends with
\* interrupts off.
LEMMA OffStep ==
    ASSUME IInv, UNCHANGED <<boot, current>>, stage >= 6,
           irr' \subseteq Lines, imr' \subseteq All,
           master' \subseteq 0 .. 7, slave' \subseteq 8 .. 15,
           frames' \in [Threads -> Seq(Frame)], ~ iflag', iflag' \in BOOLEAN,
           AllCalm', TableFound', Stack' # <<>>, Serves(Top)', ~ crashed'
    PROVE  IInv'
  <1>1. Typed'
    BY DEF IInv, Typed, boot
  <1>2. Booted'
    BY DEF IInv, Booted, boot
  <1>3. stage' >= 6 /\ ~ (stage' < 6)
    BY DEF IInv, Typed, boot
  <1> QED BY <1>1, <1>2, <1>3 DEF IInv

\* The same for a step that ends with interrupts on.
LEMMA OnStep ==
    ASSUME IInv, UNCHANGED boot, stage >= 6,
           irr' \subseteq Lines, current' \in Threads,
           frames' \in [Threads -> Seq(Frame)], iflag',  iflag' \in BOOLEAN,
           AllCalm', TableFound', Quiet', ~ crashed'
    PROVE  IInv'
  <1>1. Typed'
    BY DEF IInv, Typed, boot, Quiet
  <1>2. Booted'
    BY DEF IInv, Booted, boot
  <1>3. stage' >= 6 /\ ~ (stage' < 6)
    BY DEF IInv, Typed, boot
  <1> QED BY <1>1, <1>2, <1>3 DEF IInv

\* A line that the controllers offer enters service together with the frame that will end it.
LEMMA AcceptStep ==
    ASSUME IInv, NEW line \in Lines, Accept(line) PROVE IInv'
  <1>1. line \in All /\ line # CASCADE /\ iflag /\ Gate(line + 32, line, "gate")
    BY LinesAssumption DEF Accept
  <1>2. line + 32 \in idt
    <2>1. 32 .. 47 \subseteq idt
      BY <1>1 DEF IInv, Booted, Typed
    <2> QED BY <1>1, <2>1 DEF All
  <1>3. /\ frames' \in [Threads -> Seq(Frame)]
        /\ Stack' # <<>> /\ Top' = [irq |-> line, at |-> "gate", mask |-> {}]
        /\ AllCalm' /\ TableFound'
        /\ ~ iflag' /\ ~ crashed' /\ iflag' \in BOOLEAN
        /\ stage >= 6 /\ Quiet
        /\ UNCHANGED <<boot, routines, imr, current>>
    BY <1>1, <1>2, GateFacts
  <1>4. /\ irr' \subseteq Lines /\ imr' = {}
        /\ master' = {OnMaster(line)} /\ OnMaster(line) \in 0 .. 7
        /\ slave' = (IF IsSlave(line) THEN {line} ELSE {})
    BY <1>1, <1>3 DEF Accept, Quiet, OnMaster, IsSlave, IInv, Typed, All, CASCADE
  <1>5. slave' \subseteq 8 .. 15
    BY <1>1, <1>4 DEF IsSlave, All
  <1>6. Serves(Top)'
    BY <1>1, <1>3, <1>4 DEF Serves, Pending
  <1> QED BY <1>3, <1>4, <1>5, <1>6, OffStep

\* A spurious interrupt pushes a frame although nothing entered service.
LEMMA SpuriousStep ==
    ASSUME IInv, NEW line \in {7, 15}, Spurious(line) PROVE IInv'
  <1>1. line \in All /\ iflag /\ Gate(line + 32, line, "gate")
    BY DEF Spurious, All
  <1>2. line + 32 \in idt
    <2>1. 32 .. 47 \subseteq idt
      BY <1>1 DEF IInv, Booted, Typed
    <2> QED BY <1>1, <2>1 DEF All
  <1>3. /\ frames' \in [Threads -> Seq(Frame)]
        /\ Stack' # <<>> /\ Top' = [irq |-> line, at |-> "gate", mask |-> {}]
        /\ AllCalm' /\ TableFound'
        /\ ~ iflag' /\ ~ crashed' /\ iflag' \in BOOLEAN
        /\ stage >= 6 /\ Quiet
        /\ UNCHANGED <<boot, routines, imr, current>>
    BY <1>1, <1>2, GateFacts
  <1>4. /\ irr' \subseteq Lines /\ imr' = {} /\ slave' = {}
        /\ master' \subseteq {OnMaster(line)} /\ OnMaster(line) \in 0 .. 7
    BY <1>1, <1>3 DEF Spurious, Quiet, OnMaster, IsSlave, IInv, Typed, CASCADE
  <1>5. Serves(Top)'
    BY <1>1, <1>3, <1>4 DEF Serves, Pending
  <1> QED BY <1>3, <1>4, <1>5, OffStep

\* int 0x80 has a frame and concerns no controller.
LEMMA SoftwareStep ==
    ASSUME IInv, SoftwareInterrupt PROVE IInv'
  <1>1. iflag /\ Gate(128, SOFTWARE, "iret")
    BY DEF SoftwareInterrupt
  <1>2. 128 \in idt
    BY <1>1 DEF IInv, Booted, Typed
  <1>3. /\ frames' \in [Threads -> Seq(Frame)]
        /\ Stack' # <<>> /\ Top' = [irq |-> SOFTWARE, at |-> "iret", mask |-> {}]
        /\ AllCalm' /\ TableFound'
        /\ ~ iflag' /\ ~ crashed' /\ iflag' \in BOOLEAN
        /\ stage >= 6 /\ Quiet
        /\ UNCHANGED <<boot, routines, imr, current>>
    BY <1>1, <1>2, GateFacts
  <1>4. irr' \subseteq Lines /\ imr' = {} /\ master' = {} /\ slave' = {}
    BY <1>3 DEF SoftwareInterrupt, Quiet, IInv, Typed
  <1>5. Serves(Top)'
    BY <1>3, <1>4 DEF Serves, Pending
  <1> QED BY <1>3, <1>4, <1>5, OffStep

\* A thread that calls resched() itself pushes a frame without an interrupt.
LEMMA CallStep ==
    ASSUME IInv, CallResched PROVE IInv'
  <1>1. /\ stage = 10 /\ Stack = <<>> /\ Pushed(CALL, "resched")
        /\ UNCHANGED <<boot, routines, pic, iflag, current, crashed>>
    BY DEF CallResched, Running, Order
  <1>2. iflag /\ iflag' /\ tableReady /\ Quiet /\ iflag' \in BOOLEAN
    BY <1>1 DEF IInv, Booted, Typed
  <1>3. UNCHANGED <<current, tableReady>>
    BY <1>1 DEF boot
  <1>4. [irq |-> CALL, at |-> "resched", mask |-> {}] \in Frame
    BY DEF Frame, Places
  <1>5. Calm([irq |-> CALL, at |-> "resched", mask |-> {}])
    BY DEF Calm
  <1>6. frames' \in [Threads -> Seq(Frame)] /\ AllCalm' /\ TableFound'
    BY <1>1, <1>2, <1>3, <1>4, <1>5, PushedFacts
  <1>7. irr' \subseteq Lines /\ Quiet' /\ current' \in Threads /\ ~ crashed' /\ stage >= 6
    BY <1>1, <1>2 DEF pic, Quiet, IInv, Typed
  <1> QED BY <1>1, <1>2, <1>6, <1>7, OnStep

\* A step from one place of a handler to the next one, on one thread.
LEMMA MoveFacts ==
    ASSUME IInv, NEW from, At(from), NEW place \in Places, Goto(place),
           UNCHANGED <<current, tableReady>>,
           place = "resched" => tableReady,
           iflag' => Calm([Top EXCEPT !.at = place])
    PROVE  /\ frames' \in [Threads -> Seq(Frame)]
           /\ Stack' # <<>> /\ Top' = [Top EXCEPT !.at = place]
           /\ AllCalm' /\ TableFound'
  <1> DEFINE g == [Top EXCEPT !.at = place]
  <1>1. Stack # <<>> /\ current \in Threads
    BY DEF At, IInv, Typed
  <1>2. Top \in Frame /\ g \in Frame /\ Replaced(g)
    BY <1>1, TopFacts, GotoFacts
  <1>3. g.at = place
    BY <1>2 DEF Frame
  <1>4. current' \in Threads /\ UNCHANGED tableReady
    BY <1>1
  <1>5. g.at = "resched" => tableReady
    BY <1>3
  <1>6. iflag' \/ current' # current => Calm(g)
    OBVIOUS
  <1> HIDE DEF g
  <1>7. /\ frames' \in [Threads -> Seq(Frame)] /\ AllCalm' /\ TableFound'
        /\ frames'[current] # <<>> /\ frames'[current][Len(frames'[current])] = g
    BY <1>1, <1>2, <1>4, <1>5, <1>6, ReplacedFacts
  <1> QED BY <1>7 DEF Stack, Top, g

\* The acknowledgement of the timer, before its handler, ends what is in service.
LEMMA EntryStep ==
    ASSUME IInv, IrqEntry PROVE IInv'
  <1>1. /\ At("gate") /\ Stack # <<>> /\ Top.at = "gate" /\ Goto("handler")
        /\ UNCHANGED <<boot, routines, irr, imr, slave, iflag, current, crashed>>
        /\ master' = IF Top.irq = TIMER THEN Ended(master) ELSE master
    BY DEF IrqEntry, At
  <1>2. /\ ~ iflag /\ Serves(Top) /\ stage >= 6 /\ Top \in Frame
        /\ Top.irq \in All /\ Pending(Top) /\ imr = {}
    <2>1. ~ Calm(Top)
      BY <1>1 DEF Calm
    <2>2. ~ iflag /\ Serves(Top) /\ stage >= 6 /\ Top \in Frame
      BY <1>1, <2>1, TopFacts
    <2> QED BY <1>1, <2>2 DEF Serves, Pending
  <1>3. /\ frames' \in [Threads -> Seq(Frame)]
        /\ Stack' # <<>> /\ Top' = [Top EXCEPT !.at = "handler"]
        /\ AllCalm' /\ TableFound'
    BY <1>1, <1>2, MoveFacts DEF boot, Places
  <1>4. Top'.irq = Top.irq /\ Top'.at = "handler"
    BY <1>2, <1>3 DEF Frame
  <1>5. Top.irq = TIMER => master' = {} /\ slave = {}
    BY <1>1, <1>2, EndedFacts DEF Serves, OnMaster, IsSlave, TIMER
  <1>6. Serves(Top)'
    BY <1>1, <1>2, <1>4, <1>5 DEF Serves, Pending
  <1>7. master' \subseteq 0 .. 7
    BY <1>1, <1>5 DEF IInv, Typed
  <1>8. /\ ~ iflag' /\ iflag' \in BOOLEAN /\ ~ crashed' /\ UNCHANGED <<boot, current>>
        /\ irr' \subseteq Lines /\ imr' \subseteq All /\ slave' \subseteq 8 .. 15
    BY <1>1, <1>2 DEF IInv, Typed
  <1> QED BY <1>2, <1>3, <1>6, <1>7, <1>8, OffStep

\* irq_handler finds the routine; the timer's observers lead to resched().
LEMMA HandlerStep ==
    ASSUME IInv, IrqHandler PROVE IInv'
  <1> DEFINE place == IF Top.irq = TIMER /\ TIMER \in routines /\ observers # <<>>
                      THEN "resched" ELSE "eoi"
  <1>1. /\ At("handler") /\ Stack # <<>> /\ Top.at = "handler" /\ Goto(place)
        /\ UNCHANGED <<boot, routines, pic, iflag, current, crashed>>
    BY DEF IrqHandler, At
  <1>2. /\ ~ iflag /\ Serves(Top) /\ stage >= 6 /\ Top \in Frame
        /\ Top.irq \in All /\ imr = {}
    <2>1. ~ Calm(Top)
      BY <1>1 DEF Calm
    <2>2. ~ iflag /\ Serves(Top) /\ stage >= 6 /\ Top \in Frame
      BY <1>1, <2>1, TopFacts
    <2> QED BY <1>1, <2>2 DEF Serves
  <1>3. place \in {"resched", "eoi"} /\ (place = "resched" => tableReady /\ Top.irq = TIMER)
    BY DEF IInv, Booted
  <1> HIDE DEF place
  <1>4. place \in Places /\ UNCHANGED <<current, tableReady>> /\ ~ iflag'
    BY <1>1, <1>2, <1>3 DEF boot, Places
  <1>5. /\ frames' \in [Threads -> Seq(Frame)]
        /\ Stack' # <<>> /\ Top' = [Top EXCEPT !.at = place]
        /\ AllCalm' /\ TableFound'
    BY <1>1, <1>3, <1>4, MoveFacts
  <1>6. Top'.irq = Top.irq /\ Top'.at = place
    BY <1>2, <1>5 DEF Frame
  <1>7. Serves(Top)'
    BY <1>1, <1>2, <1>3, <1>6 DEF Serves, Pending, pic, All, SOFTWARE
  <1>8. /\ ~ iflag' /\ iflag' \in BOOLEAN /\ ~ crashed' /\ UNCHANGED <<boot, current>>
        /\ irr' \subseteq Lines /\ imr' \subseteq All /\ slave' \subseteq 8 .. 15
        /\ master' \subseteq 0 .. 7
    BY <1>1, <1>2 DEF IInv, Typed, pic
  <1> QED BY <1>2, <1>5, <1>7, <1>8, OffStep

\* disable() in resched() masks every line and keeps the old masks in the frame.
LEMMA DisableStep ==
    ASSUME IInv, ReschedDisables PROVE IInv'
  <1> DEFINE g == [Top EXCEPT !.at = "restore", !.mask = disable(imr)]
  <1>1. /\ Stack # <<>> /\ Top.at = "resched"
        /\ crashed' = (crashed \/ ~ tableReady)
        /\ frames' = [frames EXCEPT ![current][Len(Stack)] =
                         [@ EXCEPT !.at = "restore", !.mask = disable(imr)]]
        /\ imr' = All /\ ~ iflag' /\ iflag' \in BOOLEAN
        /\ UNCHANGED <<boot, routines, irr, master, slave, current>>
    BY DEF ReschedDisables, At
  <1>2. /\ current \in Threads /\ stage >= 6 /\ Top \in Frame /\ tableReady
        /\ Top.irq \in {TIMER, CALL} /\ Quiet
    <2>1. /\ current \in Threads /\ stage >= 6 /\ Top \in Frame /\ tableReady
          /\ iflag => Calm(Top) /\ Quiet
          /\ ~ iflag => Serves(Top)
      BY <1>1, TopFacts
    <2>2. CASE iflag
      BY <2>1, <2>2 DEF Calm
    <2>3. CASE ~ iflag
      BY <1>1, <2>1, <2>3 DEF Serves, Pending, Quiet
    <2> QED BY <2>1, <2>2, <2>3
  <1>3. disable(imr) = All
    BY <1>2 DEF disable, Quiet
  <1>4. /\ g \in Frame /\ g.at = "restore" /\ g.irq = Top.irq /\ g.mask = All
    BY <1>2, <1>3 DEF Frame, Places
  <1>5. Replaced(g)
    BY <1>1, <1>2 DEF Replaced, Stack, Top, IInv, Typed
  <1>6. current' \in Threads /\ UNCHANGED tableReady /\ current' = current
    BY <1>1, <1>2 DEF boot
  <1> HIDE DEF g
  <1>7. /\ frames' \in [Threads -> Seq(Frame)] /\ AllCalm' /\ TableFound'
        /\ frames'[current] # <<>> /\ frames'[current][Len(frames'[current])] = g
    BY <1>1, <1>4, <1>5, <1>6, ReplacedFacts
  <1>8. Stack' # <<>> /\ Top' = g
    BY <1>6, <1>7 DEF Stack, Top
  <1>9. Serves(Top)'
    BY <1>1, <1>2, <1>4, <1>8 DEF Serves, Pending, Quiet
  <1>10. /\ irr' \subseteq Lines /\ imr' \subseteq All /\ slave' \subseteq 8 .. 15
         /\ master' \subseteq 0 .. 7 /\ ~ crashed' /\ UNCHANGED <<boot, current>>
    BY <1>1, <1>2 DEF IInv, Typed
  <1> QED BY <1>1, <1>2, <1>7, <1>8, <1>9, <1>10, OffStep

\* restore() puts the masks of the frame back and switches interrupts on.
LEMMA RestoreStep ==
    ASSUME IInv, ReschedRestores PROVE IInv'
  <1>1. /\ At("restore") /\ Stack # <<>> /\ Top.at = "restore" /\ Goto("switch")
        /\ imr' = restore(Top.mask) /\ iflag' /\ iflag' \in BOOLEAN
        /\ UNCHANGED <<boot, routines, irr, master, slave, current, crashed>>
    BY DEF ReschedRestores, At
  <1>2. /\ Serves(Top) /\ stage >= 6 /\ Top \in Frame
        /\ Top.irq \in {TIMER, CALL} /\ Top.mask = All /\ master = {} /\ slave = {}
    <2>1. ~ Calm(Top)
      BY <1>1 DEF Calm
    <2>2. Serves(Top) /\ stage >= 6 /\ Top \in Frame
      BY <1>1, <2>1, TopFacts
    <2> QED BY <1>1, <2>2 DEF Serves, Pending
  <1>3. Calm([Top EXCEPT !.at = "switch"])
    BY <1>2 DEF Calm, Frame
  <1>4. /\ frames' \in [Threads -> Seq(Frame)] /\ AllCalm' /\ TableFound'
    BY <1>1, <1>3, MoveFacts DEF boot, Places
  <1>5. Quiet'
    BY <1>1, <1>2 DEF Quiet, restore
  <1>6. irr' \subseteq Lines /\ current' \in Threads /\ ~ crashed'
    BY <1>1 DEF IInv, Typed
  <1> QED BY <1>1, <1>2, <1>4, <1>5, <1>6, OnStep

\* ctxswitch parks the stack of one thread and goes on with that of another.
LEMMA SwitchStep ==
    ASSUME IInv, ReschedSwitches PROVE IInv'
  <1> DEFINE g == [Top EXCEPT !.at = "eoi"]
  <1>1. /\ Stack # <<>> /\ Top.at = "switch" /\ Goto("eoi") /\ current' \in Threads
        /\ UNCHANGED <<boot, routines, pic, iflag, crashed>>
    BY DEF ReschedSwitches, At
  <1>2. iflag /\ Calm(Top) /\ Quiet /\ stage >= 6 /\ Top \in Frame
    <2>1. ~ Serves(Top)
      BY <1>1 DEF Serves
    <2> QED BY <1>1, <2>1, TopFacts
  <1>3. g \in Frame /\ Replaced(g)
    BY <1>1, GotoFacts DEF Places
  <1>4. Calm(g) /\ g.at = "eoi"
    BY <1>2 DEF Calm, Frame
  <1>5. UNCHANGED tableReady
    BY <1>1 DEF boot
  <1> HIDE DEF g
  <1>6. /\ frames' \in [Threads -> Seq(Frame)] /\ AllCalm' /\ TableFound'
    BY <1>1, <1>3, <1>4, <1>5, ReplacedFacts
  <1>7. irr' \subseteq Lines /\ ~ crashed' /\ Quiet' /\ iflag' /\ iflag' \in BOOLEAN
    BY <1>1, <1>2 DEF IInv, Typed, pic, Quiet
  <1> QED BY <1>1, <1>2, <1>6, <1>7, OnStep

\* The acknowledgement behind the handler ends the interrupt of this frame and no other.
LEMMA EndStep ==
    ASSUME IInv, IrqEnd PROVE IInv'
  <1>1. /\ At("eoi") /\ Stack # <<>> /\ Top.at = "eoi" /\ Goto("iret")
        /\ slave' = IF IsSlave(Top.irq) THEN Ended(slave) ELSE slave
        /\ master' = IF Top.irq \in All \ {TIMER} THEN Ended(master) ELSE master
        /\ UNCHANGED <<boot, routines, irr, imr, iflag, current, crashed>>
    BY DEF IrqEnd, At
  <1>2. /\ Top \in Frame /\ Top.irq \in All \cup {CALL, SOFTWARE} /\ stage >= 6
        /\ iflag => Calm(Top) /\ Quiet
        /\ ~ iflag => Serves(Top)
    BY <1>1, TopFacts
  <1>3. master' = {} /\ slave' = {} /\ imr = {}
    <2>1. CASE iflag
      <3>1. Top.irq \notin All \ {TIMER} /\ ~ IsSlave(Top.irq)
        BY <1>2, <2>1 DEF Calm, IsSlave, TIMER, CALL, All
      <3> QED BY <1>1, <1>2, <2>1, <3>1 DEF Quiet
    <2>2. CASE ~ iflag
      <3>1. Serves(Top) /\ imr = {}
        BY <1>1, <1>2, <2>2 DEF Serves
      <3>2. CASE Top.irq \in All \ {TIMER}
        <4>1. master \subseteq {OnMaster(Top.irq)} /\ OnMaster(Top.irq) \in Int /\ Top.irq \in Int
          BY <1>1, <3>1, <3>2 DEF Serves, Pending, OnMaster, All, CASCADE
        <4>2. IsSlave(Top.irq) => slave \subseteq {Top.irq}
          BY <1>1, <3>1, <3>2 DEF Serves
        <4>3. ~ IsSlave(Top.irq) => slave = {}
          BY <1>1, <3>1, <3>2 DEF Serves
        <4> QED BY <1>1, <3>1, <3>2, <4>1, <4>2, <4>3, EndedFacts
      <3>3. CASE Top.irq \notin All \ {TIMER}
        <4>1. ~ Pending(Top) /\ ~ IsSlave(Top.irq)
          BY <1>1, <1>2, <3>3 DEF Pending, IsSlave, TIMER, CALL, SOFTWARE, All
        <4> QED BY <1>1, <3>1, <3>3, <4>1 DEF Serves
      <3> QED BY <3>2, <3>3
    <2> QED BY <2>1, <2>2
  <1>4. iflag' => Calm([Top EXCEPT !.at = "iret"])
    BY <1>1, <1>2 DEF Calm, Frame
  <1>5. /\ frames' \in [Threads -> Seq(Frame)]
        /\ Stack' # <<>> /\ Top' = [Top EXCEPT !.at = "iret"]
        /\ AllCalm' /\ TableFound'
    BY <1>1, <1>4, MoveFacts DEF boot, Places
  <1>6. /\ irr' \subseteq Lines /\ ~ crashed' /\ current' \in Threads /\ iflag' \in BOOLEAN
    BY <1>1 DEF IInv, Typed
  <1>7. CASE iflag
    BY <1>1, <1>2, <1>3, <1>5, <1>6, <1>7, OnStep DEF Quiet
  <1>8. CASE ~ iflag
    <2>1. Serves(Top)'
      BY <1>1, <1>2, <1>3, <1>5 DEF Serves, Pending, Frame
    <2> QED BY <1>1, <1>2, <1>3, <1>5, <1>6, <1>8, <2>1, OffStep
  <1> QED BY <1>7, <1>8

\* The return from an interrupt pops a frame that owes no acknowledgement.
LEMMA IretStep ==
    ASSUME IInv, Iret PROVE IInv'
  <1>1. /\ Stack # <<>> /\ Top.at = "iret" /\ Popped /\ iflag' /\ iflag' \in BOOLEAN
        /\ UNCHANGED <<boot, routines, pic, current, crashed>>
    BY DEF Iret, At
  <1>2. Quiet
    <2>1. (iflag => Quiet) /\ (~ iflag => Serves(Top))
      BY <1>1, TopFacts
    <2> QED BY <1>1, <2>1 DEF Serves, Pending, Quiet
  <1>3. frames' \in [Threads -> Seq(Frame)] /\ AllCalm' /\ TableFound' /\ stage >= 6
    BY <1>1, PoppedFacts DEF boot
  <1>4. irr' \subseteq Lines /\ ~ crashed' /\ current' \in Threads /\ Quiet'
    BY <1>1, <1>2 DEF IInv, Typed, pic, Quiet
  <1> QED BY <1>1, <1>3, <1>4, OnStep

\* One initialiser of the boot sequence runs while no interrupt is being handled.
LEMMA BootStep ==
    ASSUME IInv, Boot PROVE IInv'
  <1> DEFINE step == BootSteps[stage']
  <1>1. /\ stage \in 0 .. 9 /\ Stack = <<>> /\ stage' = stage + 1
        /\ idt' = Gates(step) /\ imr' = Remapped(step)
        /\ iflag' = (iflag \/ step = "sti")
        /\ tableReady' = (tableReady \/ step = "processes")
        /\ observers' = Registered(step)
        /\ UNCHANGED <<irr, master, slave, current, frames, crashed>>
    BY DEF Boot, IInv, Typed, Running, Order
  <1>2. iflag \/ stage < 6
    BY DEF IInv, Typed, Boot
  <1>3. Quiet
    BY <1>2 DEF IInv
  <1>4. /\ stage' = 2 <=> step = "idt"
        /\ stage' = 3 <=> step = "irq"
        /\ stage' = 6 <=> step = "sti"
        /\ stage' = 9 <=> step = "processes"
        /\ stage' = 10 <=> step = "scheduler"
    BY <1>1 DEF BootSteps, Order
  <1> HIDE DEF step
  <1>0. /\ iflag' <=> iflag \/ stage' = 6
        /\ tableReady' <=> tableReady \/ stage' = 9
    BY <1>1, <1>4, Zenon
  <1>5. Quiet'
    BY <1>1, <1>3 DEF Quiet, Remapped
  <1>6. iflag' \in BOOLEAN /\ tableReady' \in BOOLEAN
    BY <1>1 DEF IInv, Typed
  <1>7. Typed'
    BY <1>1, <1>3, <1>5, <1>6 DEF IInv, Typed, Quiet
  <1>8. Booted'
    <2>1. stage' >= 2 => 128 \in idt'
      BY <1>1, <1>4 DEF IInv, Booted, Gates
    <2>2. stage' >= 3 => 32 .. 47 \subseteq idt'
      BY <1>1, <1>4 DEF IInv, Booted, Gates
    <2>3. stage' >= 9 => tableReady'
      BY <1>0, <1>1 DEF IInv, Booted
    <2>4. observers' # <<>> => stage' = 10
      BY <1>1, <1>4 DEF IInv, Booted, Registered
    <2>5. iflag' => stage' >= 6
      BY <1>0, <1>1 DEF IInv, Booted
    <2> QED BY <2>1, <2>2, <2>3, <2>4, <2>5 DEF Booted
  <1>9. AllCalm'
    <2>1. iflag' => iflag \/ stage < 6
      BY <1>2
    <2> QED BY <1>1, <2>1 DEF IInv, AllCalm, Calm
  <1>10. TableFound'
    BY <1>1 DEF IInv, TableFound
  <1>11. stage' < 6 => \A t \in Threads : frames'[t] = <<>>
    BY <1>1 DEF IInv
  <1>12. ~ iflag' => stage' < 6
    BY <1>0, <1>1, <1>2
  <1> QED BY <1>1, <1>5, <1>7, <1>8, <1>9, <1>10, <1>11, <1>12 DEF IInv

\* Every step of Next preserves the invariant.
LEMMA NextIInv == IInv /\ [Next]_vars => IInv'
  <1> SUFFICES ASSUME IInv, [Next]_vars PROVE IInv'
    OBVIOUS
  <1>1. ASSUME NEW line \in Lines, Raise(line) PROVE IInv'
    BY <1>1 DEF Raise, IInv, Typed, Booted, AllCalm, TableFound, Quiet, Serves, Stack, Top,
                boot
  <1>2. CASE InstallHandler(KEYBOARD)
    BY <1>2 DEF InstallHandler, IInv, Typed, Booted, AllCalm, TableFound, Quiet, Serves, Stack,
                Top, boot, pic
  <1>3. CASE UNCHANGED vars
    <2>1. Typed' /\ Booted'
      BY <1>3 DEF vars, boot, pic, IInv, Typed, Booted
    <2>2. AllCalm' /\ TableFound'
      BY <1>3 DEF vars, boot, pic, IInv, AllCalm, TableFound
    <2>3. Stack' = Stack /\ Quiet' = Quiet /\ (Serves(Top) => Serves(Top)')
      BY <1>3 DEF vars, boot, pic, Stack, Top, Quiet, Serves
    <2> QED BY <1>3, <2>1, <2>2, <2>3 DEF vars, boot, pic, IInv, Quiet
  <1> QED BY <1>1, <1>2, <1>3, AcceptStep, SpuriousStep, SoftwareStep, CallStep, EntryStep,
             HandlerStep, DisableStep, RestoreStep, SwitchStep, EndStep, IretStep, BootStep
          DEF Next, Step

-----------------------------------------------------------------------------
(* The theorems.                                                           *)

\* The invariant of boot, controllers and stacks of handlers.
THEOREM Invariant == Spec => []IInv
  BY InitIInv, NextIInv, PTL DEF Spec

\* For any devices, threads and depth of nesting: whenever the processor takes
\* interrupts, irq_handler() has acknowledged everything and restore() has opened
\* every line.
THEOREM NothingStaysInService == Spec => []ControllersConsistent
  <1>1. IInv => TypeOK
    <2> SUFFICES ASSUME IInv PROVE TypeOK
      OBVIOUS
    <2>1. Running = 10
      BY DEF Running, Order
    <2>2. \A t \in Threads : \A i \in DOMAIN frames[t] : frames[t][i] \in Frame
      BY DEF IInv, Typed
    <2> QED BY <2>1, <2>2 DEF IInv, Typed, TypeOK, Frame
  <1>2. IInv => NothingHeldBack
    BY DEF IInv, NothingHeldBack, Quiet
  <1>3. IInv => ControllersConsistent
    BY <1>1, <1>2 DEF ControllersConsistent
  <1> QED BY <1>3, Invariant, PTL

\* No interrupt of the boot sequence of init() comes before its gate or before
\* the process table that its handler needs.
THEOREM BootOrder == Spec => []BootOrderSafe
  <1>1. IInv => BootOrderSafe
    BY DEF IInv, BootOrderSafe
  <1> QED BY <1>1, Invariant, PTL

\* Nested and parked handlers are always behind a call of resched().
THEOREM NestingBehindResched == Spec => []OnlyReschedIsInterrupted
  <1>1. IInv => OnlyReschedIsInterrupted
    BY DEF IInv, Typed, AllCalm, Calm, OnlyReschedIsInterrupted
  <1> QED BY <1>1, Invariant, PTL
=============================================================================
