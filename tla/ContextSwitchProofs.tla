------------------------ MODULE ContextSwitchProofs ------------------------
(***************************************************************************)
(* Proofs about ContextSwitch: whose stack the processor is on, and that   *)
(* waiting threads can be resumed, for any number of threads and any depth *)
(* of nesting.                                                             *)
(***************************************************************************)
EXTENDS ContextSwitch, SequenceTheorems, TLAPS

-----------------------------------------------------------------------------
(* The inductive invariant, up to a decision on the stack of another       *)
(* thread.                                                                 *)

ThreadLabels == {"run", "suspend", "dead", "release", "killed"}
InSwitch == {"window", "load"}

\* Nothing lies above the stack pointer.
AtTop == Len(stack[esp.own]) = esp.depth

\* The ready list holds the PR_RUNNABLE threads, and PR_CURR is currpid.
Listed ==
    /\ \A p \in Pid : p \in readyList <=> status[p] = "RUNNABLE"
    /\ \A p \in Pid : status[p] = "CURR" => p = currpid
    /\ currpid \notin readyList

\* A thread's own context is at the bottom of its stack, those of resched() above,
\* and no frame switches interrupts off when it is popped.
Levels ==
    /\ pc \in ThreadLabels <=> esp.depth = 0
    /\ \A p \in Pid : \A i \in 1 .. Len(stack[p]) :
          /\ stack[p][i].ret \in (IF i = 1 THEN ThreadLabels ELSE {"return", "window", "load"})
          /\ stack[p][i].flags # "off"

\* No stack but the one in use is in the middle of a switch.
OthersSettled ==
    \A p \in Pid \ {esp.own} : \A i \in 1 .. Len(stack[p]) : stack[p][i].ret \notin InSwitch

\* None of the frames of the stack in use is one of a switch, but possibly the k-th.
SettledBut(k) ==
    \A i \in 1 .. Len(stack[esp.own]) : i # k => stack[esp.own][i].ret \notin InSwitch

\* ctxswitch has saved the stack in use at depth d.
SavedAt(d) ==
    /\ sp[esp.own] = [own |-> esp.own, depth |-> d]
    /\ d >= 1 /\ stack[esp.own][d].ret = "return"

\* The switch from the stack in use to currpid is what the processor is at, or
\* what it was at when it was interrupted, in the k-th frame.
Switching ==
    \/ /\ pc \in InSwitch /\ old = esp.own /\ new = currpid
       /\ SettledBut(0)
       /\ pc = "load" => SavedAt(esp.depth)
    \/ /\ pc \in {"decide", "return"}
       /\ \E k \in 2 .. esp.depth :
             LET f == stack[esp.own][k] IN
             /\ f.ret \in InSwitch /\ f.old = esp.own /\ f.new = currpid
             /\ SettledBut(k)
             /\ f.ret = "load" => SavedAt(k - 1)

WhoseStack ==
    IF esp.own = currpid THEN pc \notin InSwitch /\ SettledBut(0)
    ELSE status[currpid] = "CURR" /\ Switching

\* Who waits, or is being switched to, can be loaded.
Resumable(p) ==
    /\ sp[p].own = p
    /\ sp[p].depth = Len(stack[p]) /\ sp[p].depth >= 1
    /\ stack[p][sp[p].depth].ret \in {"run", "return"}

AllResumable == \A p \in (readyList \cup {currpid}) \ {esp.own} : Resumable(p)

\* The context of the thread itself, below all calls of resched().
Own(p) == IF p = esp.own /\ esp.depth = 0 THEN Context(pc, "kept") ELSE stack[p][1]

\* How far kill() is agrees with the status.
KillProgress ==
    \A p \in Pid :
        /\ Own(p).ret \in ThreadLabels \ {"run"} => Own(p).id = p
        /\ Own(p).ret \in {"run", "suspend"} => status[p] \in {"CURR", "RUNNABLE"}
        /\ Own(p).ret = "dead" => status[p] = "SUSPENDED"
        /\ Own(p).ret \in {"release", "killed"} => status[p] = "DEAD"

\* Every stack but the one in use holds at least the context of its thread.
NonEmpty == \A p \in Pid \ {esp.own} : Len(stack[p]) >= 1

\* kill() frees the stack of a thread only after it has marked it dead.
FreedAreDead == \A p \in released : status[p] = "DEAD"

Good ==
    /\ iflag <=> pc # "decide"
    /\ AtTop /\ Listed /\ Levels /\ OthersSettled /\ NonEmpty
    /\ WhoseStack
    /\ AllResumable
    /\ KillProgress
    /\ FreedAreDead

IInv == TypeOK /\ (raced \/ Good)

-----------------------------------------------------------------------------
(* Frames are pushed on top of a stack and popped from it.                 *)

\* What SubSeq leaves of a stack when the frames above a depth are dropped.
LEMMA PrefixFacts ==
    ASSUME NEW S, NEW q \in Seq(S), NEW n \in 0 .. Len(q)
    PROVE  /\ SubSeq(q, 1, n) \in Seq(S)
           /\ Len(SubSeq(q, 1, n)) = n
           /\ \A i \in 1 .. n : SubSeq(q, 1, n)[i] = q[i]
  <1>1. n \in Int /\ \A i \in 1 .. n : q[i] \in S
    OBVIOUS
  <1>2. /\ SubSeq(q, 1, n) \in Seq(S)
        /\ Len(SubSeq(q, 1, n)) = IF 1 <= n THEN n - 1 + 1 ELSE 0
        /\ \A i \in 1 .. (n - 1 + 1) : SubSeq(q, 1, n)[i] = q[1 + i - 1]
    BY <1>1, SubSeqProperties
  <1>3. Len(SubSeq(q, 1, n)) = n
    BY <1>1, <1>2
  <1>4. ASSUME NEW i \in 1 .. n
        PROVE  SubSeq(q, 1, n)[i] = q[i]
    <2>1. 1 + i - 1 = i /\ i \in 1 .. (n - 1 + 1)
      BY <1>1
    <2> QED BY <1>2, <2>1
  <1> QED BY <1>2, <1>3, <1>4

\* A push adds one frame on top of the stack in use and touches nothing else.
LEMMA PushFacts ==
    ASSUME TypeOK, AtTop, NEW f \in Frame, Push(f)
    PROVE  /\ stack' \in [Pid -> Seq(Frame)]
           /\ esp' \in Pointer /\ esp'.own = esp.own /\ esp'.depth = esp.depth + 1
           /\ AtTop'
           /\ stack'[esp.own][esp.depth + 1] = f
           /\ \A i \in 1 .. esp.depth : stack'[esp.own][i] = stack[esp.own][i]
           /\ \A p \in Pid \ {esp.own} : stack'[p] = stack[p]
  <1>1. /\ esp.own \in Pid /\ esp.depth \in Nat
        /\ stack \in [Pid -> Seq(Frame)] /\ stack[esp.own] \in Seq(Frame)
        /\ esp.depth \in 0 .. Len(stack[esp.own])
    BY DEF TypeOK, Pointer, AtTop
  <1>2. /\ esp' \in Pointer /\ esp'.own = esp.own /\ esp'.depth = esp.depth + 1
    <2>1. esp' = [esp EXCEPT !.depth = esp.depth + 1]
      BY DEF Push
    <2>2. esp \in [own : Pid, depth : Nat] /\ esp.depth + 1 \in Nat
      BY <1>1 DEF TypeOK, Pointer
    <2> QED BY <2>1, <2>2, <1>1 DEF Pointer
  <1> DEFINE q == SubSeq(stack[esp.own], 1, esp.depth)
  <1>3. /\ q \in Seq(Frame) /\ Len(q) = esp.depth
        /\ \A i \in 1 .. esp.depth : q[i] = stack[esp.own][i]
    BY <1>1, PrefixFacts
  <1>4. stack' = [stack EXCEPT ![esp.own] = Append(q, f)]
    BY DEF Push
  <1> HIDE DEF q
  <1>5. /\ Append(q, f) \in Seq(Frame) /\ Len(Append(q, f)) = esp.depth + 1
        /\ Append(q, f)[esp.depth + 1] = f
        /\ \A i \in 1 .. esp.depth : Append(q, f)[i] = stack[esp.own][i]
    BY <1>1, <1>3
  <1>6. /\ stack' \in [Pid -> Seq(Frame)] /\ stack'[esp.own] = Append(q, f)
        /\ \A p \in Pid \ {esp.own} : stack'[p] = stack[p]
    BY <1>1, <1>4, <1>5
  <1>7. AtTop'
    BY <1>2, <1>5, <1>6 DEF AtTop
  <1> QED BY <1>2, <1>5, <1>6, <1>7

\* A pop takes one frame from the top of the stack it resumes.
LEMMA ResumeFacts ==
    ASSUME TypeOK, NEW at \in Pointer, at.depth = Len(stack[at.own]), Resume(at)
    PROVE  /\ at.own \in Pid /\ at.depth \in Nat \ {0}
           /\ stack' \in [Pid -> Seq(Frame)]
           /\ esp' \in Pointer /\ esp'.own = at.own /\ esp'.depth = at.depth - 1
           /\ AtTop'
           /\ \A i \in 1 .. (at.depth - 1) : stack'[at.own][i] = stack[at.own][i]
           /\ \A p \in Pid \ {at.own} : stack'[p] = stack[p]
           /\ stack[at.own][at.depth] \in Frame
           /\ pc' = stack[at.own][at.depth].ret /\ old' = stack[at.own][at.depth].old
           /\ new' = stack[at.own][at.depth].new /\ id' = stack[at.own][at.depth].id
           /\ pc' \in Labels /\ old' \in Pid /\ new' \in Pid /\ id' \in Pid
           /\ iflag' \in BOOLEAN
           /\ iflag /\ stack[at.own][at.depth].flags # "off" => iflag'
  <1>1. /\ at.own \in Pid /\ at.depth \in Nat \ {0}
        /\ stack \in [Pid -> Seq(Frame)] /\ stack[at.own] \in Seq(Frame)
        /\ at.depth - 1 \in 0 .. Len(stack[at.own])
    BY DEF TypeOK, Pointer, Resume
  <1>2. /\ esp' \in Pointer /\ esp'.own = at.own /\ esp'.depth = at.depth - 1
    <2>1. esp' = [at EXCEPT !.depth = at.depth - 1]
      BY DEF Resume
    <2>2. at \in [own : Pid, depth : Nat] /\ at.depth - 1 \in Nat
      BY <1>1 DEF Pointer
    <2> QED BY <2>1, <2>2, <1>1 DEF Pointer
  <1> DEFINE q == SubSeq(stack[at.own], 1, at.depth - 1)
  <1>3. /\ q \in Seq(Frame) /\ Len(q) = at.depth - 1
        /\ \A i \in 1 .. (at.depth - 1) : q[i] = stack[at.own][i]
    BY <1>1, PrefixFacts
  <1>4. stack' = [stack EXCEPT ![at.own] = q]
    BY DEF Resume
  <1> HIDE DEF q
  <1>5. /\ stack' \in [Pid -> Seq(Frame)] /\ stack'[at.own] = q
        /\ \A p \in Pid \ {at.own} : stack'[p] = stack[p]
    BY <1>1, <1>3, <1>4
  <1>6. AtTop'
    BY <1>2, <1>3, <1>5 DEF AtTop
  <1>7. stack[at.own][at.depth] \in Frame
    BY <1>1
  <1>8. /\ pc' = stack[at.own][at.depth].ret /\ old' = stack[at.own][at.depth].old
        /\ new' = stack[at.own][at.depth].new /\ id' = stack[at.own][at.depth].id
    BY DEF Resume
  <1>9. pc' \in Labels /\ old' \in Pid /\ new' \in Pid /\ id' \in Pid
    BY <1>7, <1>8 DEF Frame
  <1>10. iflag' = IF stack[at.own][at.depth].flags = "kept" THEN iflag
                  ELSE stack[at.own][at.depth].flags = "on"
    BY DEF Resume
  <1>11. /\ iflag' \in BOOLEAN
         /\ iflag /\ stack[at.own][at.depth].flags # "off" => iflag'
    <2>1. stack[at.own][at.depth].flags \in {"on", "off", "kept"}
      BY <1>7 DEF Frame
    <2> QED BY <1>10, <2>1, Zenon DEF TypeOK
  <1> QED BY <1>1, <1>2, <1>3, <1>5, <1>6, <1>7, <1>8, <1>9, <1>11

-----------------------------------------------------------------------------
(* The initial state, and one lemma per operation.                         *)

\* The state that start-up leaves satisfies the invariant.
LEMMA InitIInv == Init => IInv
  <1> SUFFICES ASSUME Init PROVE TypeOK /\ Good
    BY DEF IInv
  <1> DEFINE f == [ret |-> "run", old |-> 0, new |-> 0, id |-> 0, flags |-> InitialFlags]
  <1>1. MAIN \in Pid /\ 0 \in Pid /\ f \in Frame
    BY SwitchAssumption DEF MAIN, Pid, Frame, Labels, InitialFlags
  <1>2. iflag \in BOOLEAN /\ raced \in BOOLEAN /\ iflag /\ pc = "run"
    BY Zenon DEF Init
  <1>3. /\ <<>> \in Seq(Frame) /\ <<f>> \in Seq(Frame)
        /\ Len(<<f>>) = 1 /\ <<f>>[1] = f /\ Len(<<>>) = 0
    BY <1>1
  <1>4. \A p \in Pid : stack[p] = IF p = MAIN THEN <<>> ELSE <<f>>
    BY DEF Init
  <1>5. stack \in [Pid -> Seq(Frame)]
    BY <1>1, <1>3 DEF Init
  <1> HIDE DEF f
  <1>6. \A p \in Pid : sp[p] = [own |-> p, depth |-> IF p = MAIN THEN 0 ELSE 1]
    BY DEF Init
  <1>7. sp \in [Pid -> Pointer] /\ esp \in Pointer /\ esp.own = MAIN /\ esp.depth = 0
    BY <1>1 DEF Init, Pointer
  <1>8. f.ret = "run" /\ f.flags # "off"
    BY DEF f, InitialFlags
  <1>9. \A p \in Pid : /\ Len(stack[p]) = (IF p = MAIN THEN 0 ELSE 1)
                       /\ p # MAIN => stack[p][1].ret = "run" /\ stack[p][1].flags # "off"
    BY <1>3, <1>4, <1>8
  <1>10. \A p \in Pid : status[p] = IF p = MAIN THEN "CURR" ELSE "RUNNABLE"
    BY DEF Init
  <1>11. TypeOK
    BY <1>1, <1>2, <1>5, <1>7 DEF Init, TypeOK, Labels
  <1>12. \A p \in Pid : \A i \in 1 .. Len(stack[p]) :
            i = 1 /\ stack[p][i].ret = "run" /\ stack[p][i].flags # "off"
    <2> SUFFICES ASSUME NEW p \in Pid, NEW i \in 1 .. Len(stack[p])
                 PROVE  i = 1 /\ stack[p][i].ret = "run" /\ stack[p][i].flags # "off"
      OBVIOUS
    <2>1. CASE p = MAIN
      BY <2>1, <1>9
    <2>2. CASE p # MAIN
      BY <2>2, <1>9
    <2> QED BY <2>1, <2>2
  <1>13. /\ AtTop /\ OthersSettled /\ NonEmpty /\ Levels
    <2>1. AtTop /\ NonEmpty
      BY <1>1, <1>7, <1>9 DEF AtTop, NonEmpty
    <2>2. OthersSettled
      BY <1>12 DEF OthersSettled, InSwitch
    <2>3. Levels
      BY <1>2, <1>7, <1>12 DEF Levels, ThreadLabels
    <2> QED BY <2>1, <2>2, <2>3
  <1>14. Listed
    BY <1>1, <1>10 DEF Init, Listed
  <1>15. WhoseStack
    BY <1>1, <1>2, <1>7, <1>9 DEF Init, WhoseStack, SettledBut, InSwitch
  <1>16. AllResumable
    BY <1>1, <1>6, <1>7, <1>9 DEF Init, AllResumable, Resumable
  <1>17. \A p \in Pid : Own(p).ret = "run"
    <2> SUFFICES ASSUME NEW p \in Pid PROVE Own(p).ret = "run"
      OBVIOUS
    <2>1. CASE p = MAIN
      BY <2>1, <1>2, <1>7 DEF Own, Context
    <2>2. CASE p # MAIN
      BY <2>2, <1>7, <1>9 DEF Own
    <2> QED BY <2>1, <2>2
  <1>18. KillProgress
    BY <1>10, <1>17 DEF KillProgress, ThreadLabels
  <1>19. FreedAreDead
    BY DEF Init, FreedAreDead
  <1> QED BY <1>2, <1>11, <1>13, <1>14, <1>15, <1>16, <1>18, <1>19 DEF Good

\* The context of every thread, and so the progress of every kill(), survives a
\* step that moves it between the registers and the bottom of its stack.
LEMMA SameContexts ==
    ASSUME KillProgress, UNCHANGED status,
           \A p \in Pid : Own(p)'.ret = Own(p).ret /\ Own(p)'.id = Own(p).id
    PROVE  KillProgress'
  BY DEF KillProgress

\* resched() is entered, by the timer or by a call, from anywhere but itself.
LEMMA EnterStep ==
    ASSUME IInv, ~ raced, pc # "decide", NEW fl \in {"on", "kept"},
           Push(Context(pc, fl)), EnterResched, UNCHANGED <<table, sp, raced>>
    PROVE  IInv'
  <1> DEFINE o == esp.own
             d == esp.depth
  <1>1. TypeOK /\ Good
    BY DEF IInv
  <1>2. /\ Context(pc, fl) \in Frame /\ Context(pc, fl).ret = pc /\ Context(pc, fl).old = old
        /\ Context(pc, fl).new = new /\ Context(pc, fl).id = id
        /\ Context(pc, fl).flags # "off"
    BY <1>1 DEF TypeOK, Context, Frame
  <1>3. /\ stack' \in [Pid -> Seq(Frame)]
        /\ esp' \in Pointer /\ esp'.own = o /\ esp'.depth = d + 1
        /\ AtTop'
        /\ stack'[o][d + 1] = Context(pc, fl)
        /\ \A i \in 1 .. d : stack'[o][i] = stack[o][i]
        /\ \A p \in Pid \ {o} : stack'[p] = stack[p]
    BY <1>1, <1>2, PushFacts DEF Good
  <1>4. o \in Pid /\ d \in Nat /\ Len(stack[o]) = d /\ Len(stack'[o]) = d + 1
    BY <1>1, <1>3 DEF TypeOK, Pointer, Good, AtTop
  <1>5. /\ pc' = "decide" /\ old' = 0 /\ new' = 0 /\ id' = 0 /\ ~ iflag'
        /\ sp' = sp /\ status' = status /\ readyList' = readyList
        /\ currpid' = currpid /\ released' = released /\ raced' = raced
    BY DEF EnterResched, table
  <1>6. iflag' \in BOOLEAN
    BY Zenon DEF EnterResched
  <1>7. 0 \in Pid
    BY SwitchAssumption DEF Pid
  <1> HIDE DEF o, d
  <1>8. TypeOK'
    BY <1>1, <1>3, <1>5, <1>6, <1>7 DEF TypeOK, Labels
  <1>9. Listed' /\ FreedAreDead'
    BY <1>1, <1>5 DEF Good, Listed, FreedAreDead
  <1>10. d = 0 <=> pc \in ThreadLabels
    BY <1>1 DEF Good, Levels, d
  <1>11. pc \in (IF d + 1 = 1 THEN ThreadLabels ELSE {"return", "window", "load"})
    BY <1>1, <1>4, <1>10 DEF TypeOK, Labels, ThreadLabels
  <1>12. Levels'
    <2>1. pc' \in ThreadLabels <=> esp'.depth = 0
      BY <1>3, <1>4, <1>5 DEF ThreadLabels
    <2>2. ASSUME NEW p \in Pid, NEW i \in 1 .. Len(stack'[p])
          PROVE  /\ stack'[p][i].ret \in (IF i = 1 THEN ThreadLabels ELSE {"return", "window", "load"})
                 /\ stack'[p][i].flags # "off"
      <3>1. CASE p = o /\ i = d + 1
        BY <3>1, <1>2, <1>3, <1>11
      <3>2. CASE p = o /\ i # d + 1
        <4>1. i \in 1 .. d /\ i \in 1 .. Len(stack[p])
          BY <3>2, <1>4
        <4> QED BY <4>1, <3>2, <1>1, <1>3 DEF Good, Levels
      <3>3. CASE p # o
        BY <3>3, <1>1, <1>3 DEF Good, Levels
      <3> QED BY <3>1, <3>2, <3>3
    <2> QED BY <2>1, <2>2 DEF Levels
  <1>13. OthersSettled' /\ NonEmpty'
    BY <1>1, <1>3, <1>4 DEF Good, OthersSettled, NonEmpty, o
  <1>14. AllResumable'
    BY <1>1, <1>3, <1>5 DEF TypeOK, Good, AllResumable, Resumable, o
  <1>15. KillProgress'
    <2>1. ASSUME NEW p \in Pid
          PROVE  Own(p)'.ret = Own(p).ret /\ Own(p)'.id = Own(p).id
      <3>1. CASE p = o /\ d = 0
        <4>1. Own(p) = Context(pc, "kept") /\ Own(p)' = stack'[p][1]
          BY <3>1, <1>3, <1>4 DEF Own, o, d
        <4> QED BY <4>1, <3>1, <1>2, <1>3 DEF Context
      <3>2. CASE p = o /\ d # 0
        <4>1. 1 \in 1 .. d
          BY <3>2, <1>4
        <4>2. stack'[p][1] = stack[p][1]
          BY <4>1, <3>2, <1>3
        <4>3. Own(p) = stack[p][1]
          BY <3>2 DEF Own, o, d
        <4>4. Own(p)' = stack'[p][1]
          BY <3>2, <1>3, <1>4 DEF Own, o, d
        <4> QED BY <4>2, <4>3, <4>4
      <3>3. CASE p # o
        BY <3>3, <1>3 DEF Own, o, d
      <3> QED BY <3>1, <3>2, <3>3
    <2> QED BY <2>1, <1>1, <1>5, SameContexts DEF Good
  <1>16. \A k \in 1 .. d : SavedAt(k) => SavedAt(k)'
    BY <1>3, <1>4, <1>5 DEF SavedAt, o
  <1>17. ASSUME NEW k \in Int, pc \in InSwitch => k = d + 1, SettledBut(k) \/ SettledBut(0)
         PROVE  SettledBut(k)'
    <2> SUFFICES ASSUME NEW i \in 1 .. (d + 1), i # k PROVE stack'[o][i].ret \notin InSwitch
      BY <1>3, <1>4 DEF SettledBut
    <2>1. CASE i = d + 1
      BY <2>1, <1>2, <1>3, <1>17
    <2>2. CASE i # d + 1
      <3>1. i \in 1 .. d /\ i # 0 /\ i # k
        BY <2>2, <1>4
      <3> QED BY <3>1, <1>3, <1>4, <1>17 DEF SettledBut, o
    <2> QED BY <2>1, <2>2
  <1>18. WhoseStack'
    <2>1. CASE o = currpid
      <3>1. pc \notin InSwitch /\ SettledBut(0)
        BY <2>1, <1>1 DEF Good, WhoseStack, o
      <3>2. SettledBut(0)'
        BY <3>1, <1>17
      <3> QED BY <2>1, <3>2, <1>3, <1>5 DEF WhoseStack, InSwitch
    <2>2. CASE o # currpid
      <3>1. status[currpid] = "CURR" /\ Switching
        BY <2>2, <1>1 DEF Good, WhoseStack, o
      <3>2. CASE pc \in InSwitch
        <4>1. /\ old = o /\ new = currpid /\ SettledBut(0)
              /\ pc = "load" => SavedAt(d)
          BY <3>1, <3>2 DEF Switching, InSwitch, o, d
        <4>2. d >= 1
          BY <3>2, <1>4, <1>10 DEF InSwitch, ThreadLabels
        <4>3. PICK k \in Int : k = d + 1
          BY <1>4
        <4>4. k \in 2 .. esp'.depth /\ k - 1 = d /\ k - 1 \in 1 .. d
          BY <4>2, <4>3, <1>3, <1>4
        <4>5. SettledBut(k)'
          BY <4>1, <4>3, <1>17
        <4>6. pc = "load" => SavedAt(k - 1)'
          BY <4>1, <4>4, <1>16
        <4>7. /\ stack'[o][k].ret = pc /\ stack'[o][k].old = o
              /\ stack'[o][k].new = currpid
          BY <4>1, <4>3, <1>2, <1>3
        <4>8. Switching'
          BY <3>2, <4>4, <4>5, <4>6, <4>7, <1>3, <1>5 DEF Switching
        <4> QED BY <3>1, <4>8, <2>2, <1>3, <1>5 DEF WhoseStack
      <3>3. CASE pc \notin InSwitch
        <4>1. PICK k \in 2 .. d :
                /\ stack[o][k].ret \in InSwitch /\ stack[o][k].old = o
                /\ stack[o][k].new = currpid
                /\ SettledBut(k)
                /\ stack[o][k].ret = "load" => SavedAt(k - 1)
          BY <3>1, <3>3 DEF Switching, o, d
        <4>2. k \in 2 .. esp'.depth /\ k \in 1 .. d /\ k - 1 \in 1 .. d
          BY <1>3, <1>4
        <4>3. SettledBut(k)'
          BY <4>1, <4>2, <3>3, <1>17
        <4>4. stack'[o][k] = stack[o][k] /\ (stack[o][k].ret = "load" => SavedAt(k - 1)')
          BY <4>1, <4>2, <1>3, <1>16
        <4>5. Switching'
          BY <4>1, <4>2, <4>3, <4>4, <1>3, <1>5 DEF Switching
        <4> QED BY <3>1, <4>5, <2>2, <1>3, <1>5 DEF WhoseStack
      <3> QED BY <3>2, <3>3
    <2> QED BY <2>1, <2>2
  <1> QED BY <1>3, <1>5, <1>8, <1>9, <1>12, <1>13, <1>14, <1>15, <1>18 DEF IInv, Good

\* resched() lets the thread keep the processor.
LEMMA KeepStep ==
    ASSUME IInv, ~ raced, Keep, UNCHANGED raced
    PROVE  IInv'
  <1>1. TypeOK /\ Good
    BY DEF IInv
  <1>2. /\ pc = "decide" /\ status[currpid] = "CURR" /\ pc' = "return" /\ iflag'
        /\ UNCHANGED <<status, readyList, currpid, released, sp, stack, esp, old, new, id>>
    BY DEF Keep, Locals, table
  <1>3. iflag' \in BOOLEAN
    BY Zenon DEF Keep
  <1>4. TypeOK'
    BY <1>1, <1>2, <1>3 DEF TypeOK, Labels
  <1>5. AtTop' /\ Listed' /\ FreedAreDead' /\ OthersSettled' /\ NonEmpty' /\ AllResumable'
    BY <1>1, <1>2 DEF Good, AtTop, Listed, FreedAreDead, OthersSettled, NonEmpty,
                      AllResumable, Resumable
  <1>6. Levels'
    BY <1>1, <1>2 DEF Good, Levels, ThreadLabels
  <1>7. esp.depth # 0
    BY <1>1, <1>2 DEF Good, Levels, ThreadLabels
  <1>8. KillProgress'
    BY <1>1, <1>2, <1>7 DEF Good, KillProgress, Own
  <1>9. WhoseStack'
    <2>1. CASE esp.own = currpid
      BY <2>1, <1>1, <1>2 DEF Good, WhoseStack, SettledBut, InSwitch
    <2>2. CASE esp.own # currpid
      <3>1. Switching
        BY <2>2, <1>1 DEF Good, WhoseStack
      <3>2. Switching'
        BY <3>1, <1>2 DEF Switching, InSwitch, SettledBut, SavedAt
      <3> QED BY <3>2, <2>2, <1>2 DEF WhoseStack
    <2> QED BY <2>1, <2>2
  <1> QED BY <1>2, <1>4, <1>5, <1>6, <1>8, <1>9 DEF IInv, Good

\* resched() decides for another thread.
LEMMA ChooseStep ==
    ASSUME IInv, ~ raced, Choose
    PROVE  IInv'
  <1>1. TypeOK /\ Good
    BY DEF IInv
  <1>2. PICK next \in readyList :
          /\ currpid' = next
          /\ readyList' = (readyList \ {next}) \cup Requeued
          /\ status' = [p \in Pid |-> IF p = next THEN "CURR"
                                      ELSE IF p \in Requeued THEN "RUNNABLE"
                                      ELSE status[p]]
          /\ old' = currpid
          /\ new' = next
    BY DEF Choose
  <1>3. /\ pc = "decide" /\ pc' = "window" /\ iflag'
        /\ UNCHANGED <<released, sp, stack, esp, id>>
    BY DEF Choose
  <1>4. iflag' \in BOOLEAN /\ (raced' <=> esp.own # currpid) /\ raced' \in BOOLEAN
    BY Zenon DEF Choose
  <1>5. /\ currpid \in Pid /\ next \in Pid /\ status[next] = "RUNNABLE" /\ next # currpid
        /\ next \notin Requeued
    BY <1>1 DEF TypeOK, Good, Listed, Requeued
  <1>6. \A p \in Pid : /\ p \in Requeued <=> p = currpid /\ status[p] = "CURR"
                       /\ status'[p] = IF p = next THEN "CURR"
                                       ELSE IF p = currpid /\ status[p] = "CURR"
                                            THEN "RUNNABLE" ELSE status[p]
    BY <1>2 DEF Requeued
  <1>7. TypeOK'
    <2>1. status' \in [Pid -> {"CURR", "RUNNABLE", "SUSPENDED", "DEAD"}]
      BY <1>1, <1>2 DEF TypeOK
    <2>2. readyList' \subseteq Pid
      BY <1>1, <1>2 DEF TypeOK, Requeued
    <2> QED BY <2>1, <2>2, <1>1, <1>2, <1>3, <1>4, <1>5 DEF TypeOK, Labels
  <1>8. CASE raced'
    BY <1>7, <1>8 DEF IInv
  <1>9. CASE ~ raced'
    <2>1. esp.own = currpid
      BY <1>4, <1>9
    <2>2. Listed'
      BY <1>1, <1>2, <1>5, <1>6 DEF Good, Listed
    <2>3. AtTop' /\ OthersSettled' /\ NonEmpty'
      BY <1>1, <1>3 DEF Good, AtTop, OthersSettled, NonEmpty
    <2>4. Levels' /\ esp.depth # 0
      BY <1>1, <1>3 DEF Good, Levels, ThreadLabels
    <2>5. FreedAreDead'
      <3> SUFFICES ASSUME NEW p \in released PROVE status'[p] = "DEAD"
        BY <1>3 DEF FreedAreDead
      <3>1. p \in Pid /\ status[p] = "DEAD"
        BY <1>1 DEF TypeOK, Good, FreedAreDead
      <3> QED BY <3>1, <1>5, <1>6
    <2>6. AllResumable'
      <3> SUFFICES ASSUME NEW p \in (readyList' \cup {currpid'}) \ {esp.own}
                   PROVE  Resumable(p)
        BY <1>3 DEF AllResumable, Resumable
      <3>1. p \in readyList \ {esp.own}
        BY <2>1, <1>2, <1>5 DEF Requeued
      <3> QED BY <3>1, <1>1 DEF Good, AllResumable
    <2>7. KillProgress'
      <3> SUFFICES ASSUME NEW p \in Pid
                   PROVE  /\ Own(p).ret \in ThreadLabels \ {"run"} => Own(p).id = p
                          /\ Own(p).ret \in {"run", "suspend"} => status'[p] \in {"CURR", "RUNNABLE"}
                          /\ Own(p).ret = "dead" => status'[p] = "SUSPENDED"
                          /\ Own(p).ret \in {"release", "killed"} => status'[p] = "DEAD"
        BY <2>4, <1>3 DEF KillProgress, Own
      <3>1. /\ Own(p).ret \in ThreadLabels \ {"run"} => Own(p).id = p
            /\ Own(p).ret \in {"run", "suspend"} => status[p] \in {"CURR", "RUNNABLE"}
            /\ Own(p).ret = "dead" => status[p] = "SUSPENDED"
            /\ Own(p).ret \in {"release", "killed"} => status[p] = "DEAD"
        BY <1>1 DEF Good, KillProgress
      <3> HIDE DEF Own
      <3> QED BY <3>1, <1>5, <1>6
    <2>8. WhoseStack'
      <3>1. SettledBut(0)
        BY <2>1, <1>1 DEF Good, WhoseStack
      <3>2. SettledBut(0)'
        BY <3>1, <1>3 DEF SettledBut
      <3>3. Switching'
        BY <3>2, <2>1, <1>2, <1>3 DEF Switching, InSwitch
      <3>4. status'[currpid'] = "CURR" /\ esp'.own # currpid'
        BY <2>1, <1>2, <1>3, <1>5, <1>6
      <3> QED BY <3>3, <3>4 DEF WhoseStack
    <2> QED BY <2>2, <2>3, <2>4, <2>5, <2>6, <2>7, <2>8, <1>3, <1>7 DEF IInv, Good
  <1> QED BY <1>8, <1>9

\* ctxswitch saves the stack pointer of the thread it leaves.
LEMMA SaveStep ==
    ASSUME IInv, ~ raced, Save, UNCHANGED raced
    PROVE  IInv'
  <1> DEFINE o == esp.own
             d == esp.depth
             f == [ret |-> "return", old |-> 0, new |-> 0, id |-> 0, flags |-> EFlags]
  <1>1. TypeOK /\ Good
    BY DEF IInv
  <1>2. f \in Frame /\ f.ret = "return" /\ f.flags # "off"
    <2>1. EFlags = "on"
      BY <1>1 DEF Good, Save, EFlags
    <2> QED BY <2>1, SwitchAssumption DEF Frame, Labels, Pid
  <1>3. Push(f)
    BY DEF Save
  <1> HIDE DEF f
  <1>4. /\ stack' \in [Pid -> Seq(Frame)]
        /\ esp' \in Pointer /\ esp'.own = o /\ esp'.depth = d + 1
        /\ AtTop'
        /\ stack'[o][d + 1] = f
        /\ \A i \in 1 .. d : stack'[o][i] = stack[o][i]
        /\ \A p \in Pid \ {o} : stack'[p] = stack[p]
    BY <1>1, <1>2, <1>3, PushFacts DEF Good
  <1>5. o \in Pid /\ d \in Nat /\ Len(stack[o]) = d /\ Len(stack'[o]) = d + 1
    BY <1>1, <1>4 DEF TypeOK, Pointer, Good, AtTop
  <1>6. /\ pc = "window" /\ pc' = "load" /\ sp' = [sp EXCEPT ![old] = esp']
        /\ UNCHANGED <<status, readyList, currpid, released, old, new, id, iflag, raced>>
    BY DEF Save, Locals, table, SavedIn
  <1>7. /\ o # currpid /\ status[currpid] = "CURR"
        /\ old = o /\ new = currpid /\ SettledBut(0)
    BY <1>1, <1>6 DEF Good, WhoseStack, Switching, InSwitch, o
  <1> HIDE DEF o, d
  <1>8. d >= 1
    BY <1>1, <1>5, <1>6 DEF Good, Levels, ThreadLabels, d
  <1>9. sp' \in [Pid -> Pointer] /\ sp'[o] = esp' /\ \A p \in Pid \ {o} : sp'[p] = sp[p]
    BY <1>1, <1>4, <1>5, <1>6, <1>7 DEF TypeOK
  <1>10. TypeOK'
    BY <1>1, <1>4, <1>6, <1>9 DEF TypeOK, Labels
  <1>11. Listed' /\ FreedAreDead'
    BY <1>1, <1>6 DEF Good, Listed, FreedAreDead
  <1>12. Levels'
    <2>1. pc' \in ThreadLabels <=> esp'.depth = 0
      BY <1>4, <1>5, <1>6 DEF ThreadLabels
    <2>2. ASSUME NEW p \in Pid, NEW i \in 1 .. Len(stack'[p])
          PROVE  /\ stack'[p][i].ret \in (IF i = 1 THEN ThreadLabels ELSE {"return", "window", "load"})
                 /\ stack'[p][i].flags # "off"
      <3>1. CASE p = o /\ i = d + 1
        BY <3>1, <1>2, <1>4, <1>5, <1>8
      <3>2. CASE p = o /\ i # d + 1
        <4>1. i \in 1 .. d /\ i \in 1 .. Len(stack[p])
          BY <3>2, <1>5
        <4> QED BY <4>1, <3>2, <1>1, <1>4 DEF Good, Levels
      <3>3. CASE p # o
        BY <3>3, <1>1, <1>4 DEF Good, Levels
      <3> QED BY <3>1, <3>2, <3>3
    <2> QED BY <2>1, <2>2 DEF Levels
  <1>13. OthersSettled' /\ NonEmpty'
    BY <1>1, <1>4, <1>5 DEF Good, OthersSettled, NonEmpty, o
  <1>14. AllResumable'
    <2> SUFFICES ASSUME NEW p \in (readyList \cup {currpid}) \ {o} PROVE Resumable(p)'
      BY <1>4, <1>6 DEF AllResumable
    <2>1. p \in Pid \ {o} /\ Resumable(p)
      BY <1>1 DEF TypeOK, Good, AllResumable, o
    <2> QED BY <2>1, <1>4, <1>9 DEF Resumable
  <1>15. KillProgress'
    <2>1. ASSUME NEW p \in Pid
          PROVE  Own(p)'.ret = Own(p).ret /\ Own(p)'.id = Own(p).id
      <3>1. CASE p = o
        BY <3>1, <1>4, <1>5, <1>8 DEF Own, o, d
      <3>2. CASE p # o
        BY <3>2, <1>4 DEF Own, o, d
      <3> QED BY <3>1, <3>2
    <2> QED BY <2>1, <1>1, <1>6, SameContexts DEF Good
  <1>16. SettledBut(0)'
    <2> SUFFICES ASSUME NEW i \in 1 .. (d + 1) PROVE stack'[o][i].ret \notin InSwitch
      BY <1>4, <1>5 DEF SettledBut
    <2>1. CASE i = d + 1
      BY <2>1, <1>2, <1>4 DEF InSwitch
    <2>2. CASE i # d + 1
      <3>1. i \in 1 .. d /\ i # 0
        BY <2>2, <1>5
      <3> QED BY <3>1, <1>4, <1>5, <1>7 DEF SettledBut, o
    <2> QED BY <2>1, <2>2
  <1>17. SavedAt(esp.depth)'
    <2>1. esp' = [own |-> esp'.own, depth |-> esp'.depth]
      BY <1>4 DEF Pointer
    <2> QED BY <2>1, <1>2, <1>4, <1>5, <1>9 DEF SavedAt
  <1>18. WhoseStack'
    BY <1>4, <1>6, <1>7, <1>16, <1>17 DEF WhoseStack, Switching, InSwitch
  <1>19. iflag' <=> pc' # "decide"
    BY <1>1, <1>6 DEF Good
  <1> QED BY <1>4, <1>10, <1>11, <1>12, <1>13, <1>14, <1>15, <1>18, <1>19 DEF IInv, Good

\* ctxswitch loads the stack pointer of the thread it goes to.
LEMMA LoadStep ==
    ASSUME IInv, ~ raced, Load, UNCHANGED raced
    PROVE  IInv'
  <1> DEFINE o == esp.own
             n == Len(stack[currpid])
  <1>1. TypeOK /\ Good
    BY DEF IInv
  <1>2. /\ pc = "load" /\ Resume(sp[new])
        /\ UNCHANGED <<status, readyList, currpid, released, sp, raced>>
    BY DEF Load, table
  <1>3. /\ o # currpid /\ new = currpid /\ SettledBut(0) /\ SavedAt(esp.depth)
        /\ status[currpid] = "CURR"
    BY <1>1, <1>2 DEF Good, WhoseStack, Switching, InSwitch, o
  <1>4. /\ currpid \in Pid /\ o \in Pid /\ esp.depth \in Nat
        /\ sp[currpid] \in Pointer
        /\ sp[currpid].own = currpid /\ sp[currpid].depth = n
        /\ stack[currpid][n].ret \in {"run", "return"}
    BY <1>1, <1>3 DEF TypeOK, Good, AllResumable, Resumable, Pointer, o
  <1>5. /\ n \in Nat \ {0}
        /\ stack' \in [Pid -> Seq(Frame)]
        /\ esp' \in Pointer /\ esp'.own = currpid /\ esp'.depth = n - 1
        /\ AtTop'
        /\ \A i \in 1 .. (n - 1) : stack'[currpid][i] = stack[currpid][i]
        /\ \A p \in Pid \ {currpid} : stack'[p] = stack[p]
        /\ pc' = stack[currpid][n].ret /\ id' = stack[currpid][n].id
        /\ old' \in Pid /\ new' \in Pid /\ id' \in Pid /\ pc' \in Labels
        /\ iflag' \in BOOLEAN /\ (iflag /\ stack[currpid][n].flags # "off" => iflag')
    <2>1. PICK at \in Pointer : at = sp[currpid]
      BY <1>4
    <2>2. Resume(at) /\ at.own = currpid /\ at.depth = n /\ at.depth = Len(stack[at.own])
      BY <2>1, <1>2, <1>3, <1>4
    <2> HIDE DEF n
    <2> QED BY <1>1, <2>2, ResumeFacts
  <1> HIDE DEF o, n
  <1>6. Len(stack'[currpid]) = n - 1
    BY <1>2, <1>5 DEF AtTop
  <1>7. TypeOK'
    BY <1>1, <1>2, <1>5 DEF TypeOK
  <1>8. Listed' /\ FreedAreDead' /\ currpid \notin readyList
    BY <1>1, <1>2 DEF Good, Listed, FreedAreDead
  <1>9. /\ stack[currpid][n].ret \in (IF n = 1 THEN ThreadLabels ELSE {"return", "window", "load"})
        /\ stack[currpid][n].flags # "off"
    <2>1. n \in 1 .. Len(stack[currpid])
      BY <1>5 DEF n
    <2> QED BY <2>1, <1>1, <1>4 DEF Good, Levels
  <1>10. Levels'
    <2>1. pc' \in ThreadLabels <=> esp'.depth = 0
      <3>1. CASE n = 1
        BY <3>1, <1>5, <1>9
      <3>2. CASE n # 1
        BY <3>2, <1>5, <1>9 DEF ThreadLabels
      <3> QED BY <3>1, <3>2
    <2>2. ASSUME NEW p \in Pid, NEW i \in 1 .. Len(stack'[p])
          PROVE  /\ stack'[p][i].ret \in (IF i = 1 THEN ThreadLabels ELSE {"return", "window", "load"})
                 /\ stack'[p][i].flags # "off"
      <3>1. CASE p = currpid
        <4>1. i \in 1 .. (n - 1) /\ i \in 1 .. Len(stack[p])
          BY <3>1, <1>5, <1>6 DEF n
        <4> QED BY <4>1, <3>1, <1>1, <1>5 DEF Good, Levels
      <3>2. CASE p # currpid
        BY <3>2, <1>1, <1>5 DEF Good, Levels
      <3> QED BY <3>1, <3>2
    <2> QED BY <2>1, <2>2 DEF Levels
  <1>11. OthersSettled'
    <2> SUFFICES ASSUME NEW p \in Pid \ {currpid}, NEW i \in 1 .. Len(stack[p])
                 PROVE  stack[p][i].ret \notin InSwitch
      BY <1>5 DEF OthersSettled
    <2>1. CASE p = o
      BY <2>1, <1>3 DEF SettledBut, o
    <2>2. CASE p # o
      BY <2>2, <1>1 DEF Good, OthersSettled, o
    <2> QED BY <2>1, <2>2
  <1>12. o = esp.own /\ Len(stack[o]) = esp.depth /\ esp.depth >= 1
    BY <1>1, <1>3 DEF Good, AtTop, SavedAt, o
  <1>13. NonEmpty'
    <2> SUFFICES ASSUME NEW p \in Pid \ {currpid} PROVE Len(stack[p]) >= 1
      BY <1>5 DEF NonEmpty
    <2>1. CASE p = o
      BY <2>1, <1>12
    <2>2. CASE p # o
      BY <2>2, <1>1 DEF Good, NonEmpty, o
    <2> QED BY <2>1, <2>2
  <1>14. WhoseStack'
    <2>1. SettledBut(0)'
      <3> SUFFICES ASSUME NEW i \in 1 .. (n - 1) PROVE stack[currpid][i].ret \notin InSwitch
        BY <1>2, <1>5, <1>6 DEF SettledBut
      <3>1. i \in 1 .. Len(stack[currpid])
        BY <1>5 DEF n
      <3> QED BY <3>1, <1>1, <1>3, <1>4 DEF Good, OthersSettled, o
    <2> QED BY <2>1, <1>2, <1>4, <1>5 DEF WhoseStack, InSwitch
  <1>15. AllResumable'
    <2> SUFFICES ASSUME NEW p \in readyList \ {currpid} PROVE Resumable(p)'
      BY <1>2, <1>5 DEF AllResumable
    <2>1. p \in Pid /\ stack'[p] = stack[p] /\ sp'[p] = sp[p]
      BY <1>1, <1>2, <1>5 DEF TypeOK
    <2>2. Resumable(p)
      <3>1. CASE p = o
        BY <3>1, <1>3, <1>12 DEF SavedAt, Resumable
      <3>2. CASE p # o
        BY <3>2, <1>1 DEF Good, AllResumable, o
      <3> QED BY <3>1, <3>2
    <2> QED BY <2>1, <2>2 DEF Resumable
  <1>16. KillProgress'
    <2>1. ASSUME NEW p \in Pid
          PROVE  Own(p)'.ret = Own(p).ret /\ Own(p)'.id = Own(p).id
      <3>1. CASE p = currpid /\ n = 1
        <4>1. Own(p) = stack[currpid][n]
          BY <3>1, <1>3 DEF Own, o
        <4>2. Own(p)'.ret = pc' /\ Own(p)'.id = id'
          BY <3>1, <1>5 DEF Own, Context
        <4> QED BY <4>1, <4>2, <1>5
      <3>2. CASE p = currpid /\ n # 1
        <4>1. Own(p) = stack[currpid][1]
          BY <3>2, <1>3 DEF Own, o
        <4>2. Own(p)' = stack'[currpid][1] /\ 1 \in 1 .. (n - 1)
          BY <3>2, <1>5 DEF Own
        <4> QED BY <4>1, <4>2, <1>5
      <3>3. CASE p # currpid
        BY <3>3, <1>5, <1>12 DEF Own
      <3> QED BY <3>1, <3>2, <3>3
    <2> QED BY <2>1, <1>1, <1>2, SameContexts DEF Good
  <1>17. iflag' <=> pc' # "decide"
    BY <1>1, <1>2, <1>4, <1>5, <1>9 DEF Good
  <1> QED BY <1>5, <1>7, <1>8, <1>10, <1>11, <1>13, <1>14, <1>15, <1>16, <1>17 DEF IInv, Good

\* resched() returns to what it was called from or what the timer interrupted.
LEMMA ReturnStep ==
    ASSUME IInv, ~ raced, Return, UNCHANGED raced
    PROVE  IInv'
  <1> DEFINE o == esp.own
             d == esp.depth
  <1>1. TypeOK /\ Good
    BY DEF IInv
  <1>2. /\ pc = "return" /\ Resume(esp)
        /\ UNCHANGED <<status, readyList, currpid, released, sp, raced>>
    BY DEF Return, table
  <1>3. esp \in Pointer /\ d = Len(stack[o])
    BY <1>1 DEF TypeOK, Good, AtTop
  <1>4. /\ o \in Pid /\ d \in Nat \ {0}
        /\ stack' \in [Pid -> Seq(Frame)]
        /\ esp' \in Pointer /\ esp'.own = o /\ esp'.depth = d - 1
        /\ AtTop'
        /\ \A i \in 1 .. (d - 1) : stack'[o][i] = stack[o][i]
        /\ \A p \in Pid \ {o} : stack'[p] = stack[p]
        /\ pc' = stack[o][d].ret /\ id' = stack[o][d].id
        /\ old' = stack[o][d].old /\ new' = stack[o][d].new
        /\ old' \in Pid /\ new' \in Pid /\ id' \in Pid /\ pc' \in Labels
        /\ iflag' \in BOOLEAN /\ (iflag /\ stack[o][d].flags # "off" => iflag')
    <2>1. PICK at \in Pointer : at = esp
      BY <1>3
    <2>2. Resume(at) /\ at.own = o /\ at.depth = d /\ at.depth = Len(stack[at.own])
      BY <2>1, <1>2, <1>3
    <2> HIDE DEF o, d
    <2> QED BY <1>1, <2>2, ResumeFacts
  <1> HIDE DEF o, d
  <1>5. Len(stack'[o]) = d - 1
    BY <1>4 DEF AtTop
  <1>6. TypeOK'
    BY <1>1, <1>2, <1>4 DEF TypeOK
  <1>7. Listed' /\ FreedAreDead'
    BY <1>1, <1>2 DEF Good, Listed, FreedAreDead
  <1>8. /\ pc' \in (IF d = 1 THEN ThreadLabels ELSE {"return", "window", "load"})
        /\ stack[o][d].flags # "off"
    <2>1. d \in 1 .. Len(stack[o])
      BY <1>3, <1>4
    <2> QED BY <2>1, <1>1, <1>4 DEF Good, Levels
  <1>9. Levels'
    <2>1. pc' \in ThreadLabels <=> esp'.depth = 0
      <3>1. CASE d = 1
        BY <3>1, <1>4, <1>8
      <3>2. CASE d # 1
        BY <3>2, <1>4, <1>8 DEF ThreadLabels
      <3> QED BY <3>1, <3>2
    <2>2. ASSUME NEW p \in Pid, NEW i \in 1 .. Len(stack'[p])
          PROVE  /\ stack'[p][i].ret \in (IF i = 1 THEN ThreadLabels ELSE {"return", "window", "load"})
                 /\ stack'[p][i].flags # "off"
      <3>1. CASE p = o
        <4>1. i \in 1 .. (d - 1) /\ i \in 1 .. Len(stack[p])
          BY <3>1, <1>3, <1>4, <1>5
        <4>2. stack'[p][i] = stack[p][i]
          BY <4>1, <3>1, <1>4
        <4> QED BY <4>1, <4>2, <1>1 DEF Good, Levels
      <3>2. CASE p # o
        <4>1. stack'[p] = stack[p]
          BY <3>2, <1>4
        <4> QED BY <4>1, <1>1 DEF Good, Levels
      <3> QED BY <3>1, <3>2
    <2> QED BY <2>1, <2>2 DEF Levels
  <1>10. OthersSettled' /\ NonEmpty'
    BY <1>1, <1>4 DEF Good, OthersSettled, NonEmpty, o
  <1>11. AllResumable'
    <2> SUFFICES ASSUME NEW p \in (readyList \cup {currpid}) \ {o} PROVE Resumable(p)'
      BY <1>2, <1>4 DEF AllResumable
    <2>1. p \in Pid \ {o} /\ Resumable(p)
      BY <1>1 DEF TypeOK, Good, AllResumable, o
    <2> QED BY <2>1, <1>2, <1>4 DEF Resumable
  <1>12. KillProgress'
    <2>1. ASSUME NEW p \in Pid
          PROVE  Own(p)'.ret = Own(p).ret /\ Own(p)'.id = Own(p).id
      <3>1. CASE p = o /\ d = 1
        <4>1. Own(p) = stack[o][d]
          BY <3>1 DEF Own, o, d
        <4>2. Own(p)'.ret = pc' /\ Own(p)'.id = id'
          BY <3>1, <1>4 DEF Own, Context
        <4> QED BY <4>1, <4>2, <1>4
      <3>2. CASE p = o /\ d # 1
        <4>1. Own(p) = stack[o][1]
          BY <3>2, <1>4 DEF Own, o, d
        <4>2. Own(p)' = stack'[o][1] /\ 1 \in 1 .. (d - 1)
          BY <3>2, <1>4 DEF Own
        <4> QED BY <4>1, <4>2, <1>4
      <3>3. CASE p # o
        BY <3>3, <1>4 DEF Own, o
      <3> QED BY <3>1, <3>2, <3>3
    <2> QED BY <2>1, <1>1, <1>2, SameContexts DEF Good
  <1>13. \A k \in 1 .. (d - 1) : SavedAt(k) => SavedAt(k)'
    BY <1>2, <1>4 DEF SavedAt, o
  <1>14. ASSUME NEW k \in Int, NEW j \in {k, 0}, SettledBut(k), k # d => j = k
         PROVE  SettledBut(j)'
    <2> SUFFICES ASSUME NEW i \in 1 .. (d - 1), i # j PROVE stack[o][i].ret \notin InSwitch
      BY <1>4, <1>5 DEF SettledBut
    <2>1. i \in 1 .. Len(stack[o]) /\ i # k
      BY <1>3, <1>4, <1>14
    <2> QED BY <2>1, <1>14 DEF SettledBut, o
  <1>15. WhoseStack'
    <2>1. CASE o = currpid
      <3>1. SettledBut(0)
        BY <2>1, <1>1 DEF Good, WhoseStack, o
      <3>2. SettledBut(0)'
        BY <3>1, <1>14
      <3>3. pc' \notin InSwitch
        BY <3>1, <1>3, <1>4 DEF SettledBut, o
      <3> QED BY <2>1, <3>2, <3>3, <1>2, <1>4 DEF WhoseStack
    <2>2. CASE o # currpid
      <3>1. status[currpid] = "CURR" /\ Switching
        BY <2>2, <1>1 DEF Good, WhoseStack, o
      <3>2. PICK k \in 2 .. d :
                /\ stack[o][k].ret \in InSwitch /\ stack[o][k].old = o
                /\ stack[o][k].new = currpid
                /\ SettledBut(k)
                /\ stack[o][k].ret = "load" => SavedAt(k - 1)
        BY <3>1, <1>2 DEF Switching, InSwitch, o, d
      <3>3. CASE k = d
        <4>1. SettledBut(0)'
          BY <3>2, <3>3, <1>14
        <4>2. k - 1 = esp'.depth /\ k - 1 \in 1 .. (d - 1)
          BY <3>3, <1>4
        <4>3. pc' = "load" => SavedAt(k - 1)'
          BY <3>2, <3>3, <4>2, <1>4, <1>13
        <4>4. pc' = "load" => SavedAt(esp.depth)'
          BY <4>2, <4>3 DEF SavedAt
        <4>5. pc' \in InSwitch /\ old' = esp'.own /\ new' = currpid'
          BY <3>2, <3>3, <1>2, <1>4
        <4>6. Switching'
          BY <4>1, <4>4, <4>5 DEF Switching
        <4> QED BY <3>1, <4>6, <2>2, <1>2, <1>4 DEF WhoseStack
      <3>4. CASE k # d
        <4>1. k \in 2 .. esp'.depth /\ k \in 1 .. (d - 1) /\ k - 1 \in 1 .. (d - 1)
          BY <3>4, <1>4
        <4>2. SettledBut(k)'
          BY <3>2, <3>4, <1>14
        <4>3. pc' = "return"
          <5>1. stack[o][d].ret \notin InSwitch
            BY <3>2, <3>4, <1>3, <1>4 DEF SettledBut, o
          <5> QED BY <5>1, <4>1, <1>4, <1>8 DEF InSwitch
        <4>4. stack'[o][k] = stack[o][k] /\ (stack[o][k].ret = "load" => SavedAt(k - 1)')
          BY <3>2, <4>1, <1>4, <1>13
        <4>5. Switching'
          BY <3>2, <4>1, <4>2, <4>3, <4>4, <1>2, <1>4 DEF Switching
        <4> QED BY <3>1, <4>5, <2>2, <1>2, <1>4 DEF WhoseStack
      <3> QED BY <3>3, <3>4
    <2> QED BY <2>1, <2>2
  <1>16. iflag' <=> pc' # "decide"
    BY <1>1, <1>2, <1>4, <1>8 DEF Good, ThreadLabels
  <1> QED BY <1>4, <1>6, <1>7, <1>9, <1>10, <1>11, <1>12, <1>15, <1>16 DEF IInv, Good

\* Outside resched() the processor is on the stack of currpid, and kill() is about
\* currpid and as far as its status says.
LEMMA ThreadFacts ==
    ASSUME TypeOK, Good, pc \in ThreadLabels
    PROVE  /\ esp.depth = 0 /\ esp.own = currpid /\ currpid \in Pid
           /\ pc # "run" => id = currpid
           /\ pc \in {"run", "suspend"} => status[currpid] = "CURR"
           /\ pc = "dead" => status[currpid] = "SUSPENDED"
           /\ pc \in {"release", "killed"} => status[currpid] = "DEAD"
  <1>1. esp.depth = 0 /\ currpid \in Pid
    BY DEF Good, Levels, TypeOK
  <1>2. esp.own = currpid
    BY DEF Good, WhoseStack, Switching, InSwitch, ThreadLabels
  <1>3. Own(currpid).ret = pc /\ Own(currpid).id = id
    BY <1>1, <1>2 DEF Own, Context
  <1>4. status[currpid] # "RUNNABLE"
    BY <1>1 DEF Good, Listed
  <1> QED BY <1>1, <1>2, <1>3, <1>4 DEF Good, KillProgress, ThreadLabels

\* A step of the thread itself: currpid goes on with its own code, and only its
\* own status and its own stack's release change.
LEMMA ThreadStep ==
    ASSUME IInv, ~ raced, pc \in ThreadLabels, pc' \in ThreadLabels \ {"run"},
           UNCHANGED <<readyList, currpid, sp, stack, esp, old, new, iflag, raced>>,
           id' = currpid,
           NEW st \in {"CURR", "SUSPENDED", "DEAD"},
           status' = [status EXCEPT ![currpid] = st],
           status[currpid] = "DEAD" => st = "DEAD",
           pc' = "suspend" => st = "CURR",
           pc' = "dead" => st = "SUSPENDED",
           pc' \in {"release", "killed"} => st = "DEAD",
           released' = released \/ (released' = released \cup {currpid} /\ st = "DEAD")
    PROVE  IInv'
  <1>1. TypeOK /\ Good
    BY DEF IInv
  <1>2. esp.depth = 0 /\ esp.own = currpid /\ currpid \in Pid
    BY <1>1, ThreadFacts
  <1>3. TypeOK'
    <2>1. status' \in [Pid -> {"CURR", "RUNNABLE", "SUSPENDED", "DEAD"}] /\ pc' \in Labels
      BY <1>1 DEF TypeOK, ThreadLabels, Labels
    <2> QED BY <2>1, <1>1, <1>2 DEF TypeOK
  <1>4. \A p \in Pid : status'[p] = IF p = currpid THEN st ELSE status[p]
    BY <1>1 DEF TypeOK
  <1>5. Listed'
    BY <1>1, <1>2, <1>4 DEF Good, Listed
  <1>6. FreedAreDead'
    <2> SUFFICES ASSUME NEW p \in released' PROVE status'[p] = "DEAD"
      BY DEF FreedAreDead
    <2>1. p \in Pid
      BY <1>3 DEF TypeOK
    <2> QED BY <2>1, <1>1, <1>4 DEF Good, FreedAreDead
  <1>7. AtTop' /\ OthersSettled' /\ NonEmpty' /\ AllResumable'
    BY <1>1 DEF Good, AtTop, OthersSettled, NonEmpty, AllResumable, Resumable
  <1>8. Levels'
    BY <1>1, <1>2 DEF Good, Levels
  <1>9. WhoseStack'
    BY <1>1, <1>2 DEF Good, WhoseStack, SettledBut, InSwitch, ThreadLabels
  <1>10. KillProgress'
    <2> SUFFICES ASSUME NEW p \in Pid
                 PROVE  /\ Own(p)'.ret \in ThreadLabels \ {"run"} => Own(p)'.id = p
                        /\ Own(p)'.ret \in {"run", "suspend"} => status'[p] \in {"CURR", "RUNNABLE"}
                        /\ Own(p)'.ret = "dead" => status'[p] = "SUSPENDED"
                        /\ Own(p)'.ret \in {"release", "killed"} => status'[p] = "DEAD"
      BY DEF KillProgress
    <2>1. CASE p = currpid
      <3>1. Own(p)'.ret = pc' /\ Own(p)'.id = currpid
        BY <2>1, <1>2 DEF Own, Context
      <3> QED BY <3>1, <2>1, <1>4 DEF ThreadLabels
    <2>2. CASE p # currpid
      <3>1. Own(p)' = Own(p)
        BY <2>2, <1>2 DEF Own
      <3> QED BY <3>1, <2>2, <1>1, <1>4 DEF Good, KillProgress
    <2> QED BY <2>1, <2>2
  <1>11. iflag' <=> pc' # "decide"
    BY <1>1 DEF Good, ThreadLabels
  <1> QED BY <1>3, <1>5, <1>6, <1>7, <1>8, <1>9, <1>10, <1>11 DEF IInv, Good

\* userret() and the steps of kill() before its resched().
LEMMA KillStep ==
    ASSUME IInv, ~ raced, UserRet \/ KillSuspend \/ KillDead \/ KillRelease,
           UNCHANGED raced
    PROVE  IInv'
  <1>1. TypeOK /\ Good
    BY DEF IInv
  <1>2. pc \in ThreadLabels
    BY DEF UserRet, KillSuspend, KillDead, KillRelease, ThreadLabels
  <1>3. /\ currpid \in Pid
        /\ pc # "run" => id = currpid
        /\ pc \in {"run", "suspend"} => status[currpid] = "CURR"
        /\ pc = "dead" => status[currpid] = "SUSPENDED"
        /\ pc \in {"release", "killed"} => status[currpid] = "DEAD"
    BY <1>1, <1>2, ThreadFacts
  <1>4. status = [status EXCEPT ![currpid] = status[currpid]]
    BY <1>1, <1>3 DEF TypeOK
  <1>5. CASE UserRet
    BY <1>5, <1>2, <1>3, <1>4, ThreadStep DEF UserRet, table, ThreadLabels
  <1>6. CASE KillSuspend
    BY <1>6, <1>2, <1>3, ThreadStep DEF KillSuspend, Locals, ThreadLabels
  <1>7. CASE KillDead
    BY <1>7, <1>2, <1>3, ThreadStep DEF KillDead, Locals, ThreadLabels
  <1>8. CASE KillRelease
    BY <1>8, <1>2, <1>3, <1>4, ThreadStep DEF KillRelease, Locals, ThreadLabels
  <1> QED BY <1>5, <1>6, <1>7, <1>8

\* Every step of resched(), ctxswitch, the timer and the threads keeps it.
LEMMA NextIInv == IInv /\ [Next]_vars => IInv'
  <1> SUFFICES ASSUME IInv, [Next]_vars PROVE IInv'
    OBVIOUS
  <1>1. CASE UNCHANGED vars
    <2>1. UNCHANGED <<status, readyList, currpid, released, sp, stack, esp, pc, old, new, id,
                      iflag, raced>>
      BY <1>1 DEF vars
    <2>2. TypeOK'
      BY <2>1 DEF IInv, TypeOK
    <2>3. CASE raced
      BY <2>1, <2>2, <2>3 DEF IInv
    <2>4. CASE ~ raced
      <3>1. Good
        BY <2>4 DEF IInv
      <3>2. /\ (iflag <=> pc # "decide")' /\ AtTop' /\ Listed' /\ Levels' /\ OthersSettled'
            /\ NonEmpty' /\ FreedAreDead' /\ AllResumable'
        BY <2>1, <3>1 DEF Good, AtTop, Listed, Levels, OthersSettled, NonEmpty, FreedAreDead,
                          AllResumable, Resumable
      <3>3. WhoseStack'
        BY <2>1, <3>1 DEF Good, WhoseStack, Switching, SettledBut, SavedAt
      <3>4. KillProgress'
        BY <2>1, <3>1 DEF Good, KillProgress, Own, Context
      <3> QED BY <2>2, <3>2, <3>3, <3>4 DEF IInv, Good
    <2> QED BY <2>3, <2>4
  <1>2. CASE ~ raced /\ Next
    <2> USE <1>2
    <2>2. CASE Choose
      BY <2>2, ChooseStep
    <2>3. CASE (Keep \/ Save \/ Load \/ Return) /\ UNCHANGED raced
      BY <2>3, KeepStep, SaveStep, LoadStep, ReturnStep
    <2>4. CASE (UserRet \/ KillSuspend \/ KillDead \/ KillRelease) /\ UNCHANGED raced
      BY <2>4, KillStep
    <2>5. CASE (Tick \/ Yield \/ KillResched) /\ UNCHANGED raced
      <3>1. Tick => pc # "decide" /\ EFlags = "on"
        BY DEF IInv, Good, Tick, EFlags
      <3>2. PICK fl \in {"on", "kept"} :
               Push(Context(pc, fl)) /\ EnterResched /\ pc # "decide" /\ UNCHANGED <<table, sp, raced>>
        BY <2>5, <3>1 DEF Tick, Yield, KillResched
      <3> QED BY <3>2, EnterStep
    <2>6. CASE Compute /\ UNCHANGED raced
      <3>1. UNCHANGED vars
        BY <2>6 DEF Compute, table, vars
      <3> QED BY <3>1, <1>1
    <2> QED BY <2>2, <2>3, <2>4, <2>5, <2>6 DEF Next, Step
  <1> QED BY <1>1, <1>2 DEF Next

-----------------------------------------------------------------------------
(* The theorems.                                                           *)

\* However timer interrupts, calls of resched() and kills nest, the invariant of
\* the stacks, the ready list and the progress of kill() is kept.
THEOREM Invariant == Spec => []IInv
  <1>1. Init => IInv
    BY InitIInv
  <1>2. IInv /\ [Next]_vars => IInv'
    BY NextIInv
  <1> QED BY <1>1, <1>2, PTL DEF Spec

\* A thread that waits can always be resumed: ctxswitch saved a place on its own
\* stack, and the frame it pushed there has not been overwritten.
THEOREM WaitersResume == Spec => []StacksConsistent
  <1>1. IInv => StacksConsistent
    <2> SUFFICES ASSUME IInv, ~ raced, NEW p \in readyList \ {esp.own}
                 PROVE  /\ sp[p].own = p
                        /\ sp[p].depth = Len(stack[p])
                        /\ stack[p] # <<>> /\ stack[p][Len(stack[p])].ret \in {"run", "return"}
      BY DEF StacksConsistent, WaitingIsResumable, IInv
    <2>1. Resumable(p) /\ p \in Pid
      BY DEF IInv, Good, AllResumable, TypeOK
    <2> QED BY <2>1 DEF Resumable
  <1> QED BY <1>1, Invariant, PTL

\* The processor runs on the stack of the thread that currpid names, but for the
\* switch between the two (sched.cpp:62 to the end of ctxswitch).
THEOREM RunsOnOwnStack == Spec => []OnOwnStack
  <1>1. IInv => OnOwnStack
    <2> SUFFICES ASSUME IInv, ~ raced PROVE OnOwnStack
      BY DEF OnOwnStack
    <2> DEFINE q == SubSeq(stack[esp.own], 1, esp.depth)
    <2>1. TypeOK /\ Good
      BY DEF IInv
    <2>2. /\ esp.own \in Pid /\ esp.depth \in Nat /\ stack[esp.own] \in Seq(Frame)
          /\ esp.depth = Len(stack[esp.own]) /\ esp.depth \in 0 .. Len(stack[esp.own])
      BY <2>1 DEF TypeOK, Pointer, Good, AtTop
    <2>3. /\ q \in Seq(Frame) /\ Len(q) = esp.depth
          /\ \A i \in 1 .. esp.depth : q[i] = stack[esp.own][i]
      BY <2>2, PrefixFacts
    <2> HIDE DEF q
    <2>4. Range(q) = {stack[esp.own][i] : i \in 1 .. esp.depth}
      BY <2>3 DEF Range
    <2>5. Context(pc, "kept").ret = pc /\ Context(pc, "kept").old = old
          /\ Context(pc, "kept").new = new
      BY DEF Context
    <2>6. CASE esp.own = currpid
      <3>1. pc \notin InSwitch /\ SettledBut(0)
        BY <2>1, <2>6 DEF Good, WhoseStack
      <3>2. \A f \in Range(q) \cup {Context(pc, "kept")} : f.ret \notin InSwitch
        BY <3>1, <2>2, <2>4, <2>5 DEF SettledBut
      <3> QED BY <3>2, <2>6 DEF OnOwnStack, InSwitch, q
    <2>7. CASE esp.own # currpid
      <3>1. \E f \in Range(q) \cup {Context(pc, "kept")} :
               f.ret \in InSwitch /\ f.old = esp.own /\ f.new = currpid
        <4>1. Switching
          BY <2>1, <2>7 DEF Good, WhoseStack
        <4>2. CASE pc \in InSwitch
          BY <4>1, <4>2, <2>5 DEF Switching, InSwitch
        <4>3. CASE pc \notin InSwitch
          <5>1. PICK k \in 2 .. esp.depth :
                   /\ stack[esp.own][k].ret \in InSwitch /\ stack[esp.own][k].old = esp.own
                   /\ stack[esp.own][k].new = currpid
            BY <4>1, <4>3 DEF Switching
          <5>2. stack[esp.own][k] \in Range(q)
            BY <2>2, <2>4
          <5> QED BY <5>1, <5>2
        <4> QED BY <4>2, <4>3
      <3> QED BY <3>1 DEF OnOwnStack, InSwitch, q
    <2> QED BY <2>6, <2>7
  <1> QED BY <1>1, Invariant, PTL

\* A stack that kill() has freed is used by nobody but the thread on its way out:
\* nothing leads back to it.
THEOREM FreedStackUnused == Spec => []FreedStackIsLeft
  <1>1. IInv => FreedStackIsLeft
    <2> SUFFICES ASSUME IInv, ~ raced, NEW p \in released
                 PROVE  /\ p \notin readyList
                        /\ esp.own = p => status[p] = "DEAD"
                        /\ pc # "load" \/ new # p
      BY DEF FreedStackIsLeft
    <2>1. TypeOK /\ Good /\ p \in Pid /\ status[p] = "DEAD"
      BY DEF IInv, Good, FreedAreDead, TypeOK
    <2>2. p \notin readyList
      BY <2>1 DEF Good, Listed
    <2>3. pc = "load" => new = currpid /\ status[currpid] = "CURR"
      BY <2>1 DEF Good, WhoseStack, Switching, InSwitch
    <2> QED BY <2>1, <2>2, <2>3
  <1> QED BY <1>1, Invariant, PTL

=============================================================================
