--------------------------- MODULE ContextSwitch ---------------------------
(***************************************************************************)
(* resched() and ctxswitch below the level of module Scheduler: what the   *)
(* processor does between the timer interrupt, the decision, the exchange  *)
(* of the stacks and the return into the thread, with interrupts off only  *)
(* where the code has them off.  A thread that returns into userret() runs *)
(* through kill() step by step and may be preempted at each of them.       *)
(*                                                                         *)
(* A stack is a sequence of frames; a frame says where the processor goes  *)
(* on when it is popped, and with which local variables.  Priorities are   *)
(* left out: every decision resched() may take for some priorities is a    *)
(* choice.  Threads exist from the start; creating them and killing others *)
(* is the business of module Scheduler.                                    *)
(***************************************************************************)
EXTENDS Integers, Sequences, Functions

CONSTANTS
    Last,         \* the threads are 0 (nullproc), 1 (the boot thread) .. Last
    MaxDepth      \* bound of the model: no interrupt or call with more frames

Pid == 0 .. Last
NULLPROC == 0
MAIN == 1

ASSUME SwitchAssumption ==
    /\ Last \in Nat /\ Last >= 2
    /\ MaxDepth \in Nat

VARIABLES
    status,      \* ProcEntry::_status
    readyList,   \* the pids in the ready list
    currpid,
    released,    \* the threads whose stack kill() has freed
    sp,          \* ProcEntry::_sp: a stack and a depth in it
    stack,       \* the frames of every stack
    esp,         \* the stack pointer of the processor
    pc,          \* where the processor is
    old, new,    \* locals of resched(): procOld and procNew
    id,          \* the argument of kill()
    iflag,       \* interrupts reach the processor: disable() clears the flag
                 \* and masks the lines of the controller, restore() undoes both
    raced        \* history: a switch was decided on the stack of another thread

table == <<status, readyList, currpid, released>>
vars == <<status, readyList, currpid, released, sp, stack, esp, pc, old, new, id, iflag, raced>>

Labels == {"run", "suspend", "dead", "release", "killed", "decide", "window",
           "load", "return"}
Frame == [ret : Labels, old : Pid, new : Pid, id : Pid, flags : {"on", "off", "kept"}]
Pointer == [own : Pid, depth : Nat]

\* What the processor would go on with: its place, its locals, and the interrupt
\* flag that goes with them ("kept": none was pushed).
Context(label, flags) ==
    [ret |-> label, old |-> old, new |-> new, id |-> id, flags |-> flags]

\* What the interrupt gate and pushf push.
EFlags == IF iflag THEN "on" ELSE "off"

\* A push onto the stack the processor is on; what was above is overwritten.
Push(frame) ==
    /\ stack' = [stack EXCEPT ![esp.own] = Append(SubSeq(@, 1, esp.depth), frame)]
    /\ esp' = [esp EXCEPT !.depth = @ + 1]

\* The processor goes on with the frame at pointer at, which it pops.
Resume(at) ==
    LET frame == stack[at.own][at.depth] IN
    /\ at.depth \in 1 .. Len(stack[at.own])
    /\ stack' = [stack EXCEPT ![at.own] = SubSeq(@, 1, at.depth - 1)]
    /\ esp' = [at EXCEPT !.depth = @ - 1]
    /\ pc' = frame.ret
    /\ old' = frame.old
    /\ new' = frame.new
    /\ id' = frame.id
    /\ iflag' = IF frame.flags = "kept" THEN iflag ELSE frame.flags = "on"

-----------------------------------------------------------------------------
\* Slip: create_stack() leaves the interrupt flag of a new thread clear.
InitialFlagsClear == "off"

\* "WE NEED TO SET THE INTERRUPT FLAG (bit 9) to 1".
InitialFlags == "on"

\* create_stack() leaves one frame on the stack of a new thread, from which
\* ctxswitch starts it; the boot thread is running.
Init ==
    /\ status = [p \in Pid |-> IF p = MAIN THEN "CURR" ELSE "RUNNABLE"]
    /\ readyList = Pid \ {MAIN}
    /\ currpid = MAIN
    /\ released = {}
    /\ stack = [p \in Pid |-> IF p = MAIN THEN <<>>
                    ELSE <<[ret |-> "run", old |-> 0, new |-> 0, id |-> 0,
                            flags |-> InitialFlags]>>]
    /\ sp = [p \in Pid |-> [own |-> p, depth |-> IF p = MAIN THEN 0 ELSE 1]]
    /\ esp = [own |-> MAIN, depth |-> 0]
    /\ pc = "run"
    /\ old = 0 /\ new = 0 /\ id = 0
    /\ iflag = TRUE
    /\ raced = FALSE

\* On to another place of the same function.
Locals(label) == pc' = label /\ UNCHANGED <<old, new, id>>

\* Into resched(), whose first act is to switch interrupts off.  The caller's
\* locals are on the stack.
EnterResched ==
    /\ pc' = "decide"
    /\ old' = 0 /\ new' = 0 /\ id' = 0
    /\ iflag' = FALSE

\* The timer interrupt: the gate switches interrupts off and pushes the context,
\* irq_handler acknowledges, the observer calls resched().  It may also fall
\* between restore() and the exchange of the stacks.
Tick ==
    /\ iflag
    /\ esp.depth < MaxDepth
    /\ Push(Context(pc, EFlags))
    /\ EnterResched
    /\ UNCHANGED <<table, sp>>

\* kthread_create() with do_resched: a thread calls resched() itself.
Yield ==
    /\ pc = "run"
    /\ currpid # NULLPROC
    /\ esp.depth < MaxDepth
    /\ Push(Context("run", "kept"))
    /\ EnterResched
    /\ UNCHANGED <<table, sp>>

\* The early return of resched(), interrupts restored.
Keep ==
    /\ pc = "decide"
    /\ status[currpid] = "CURR"
    /\ iflag' = TRUE
    /\ Locals("return")
    /\ UNCHANGED <<table, sp, stack, esp>>

\* Slip: a thread that gave up the processor is queued as well.
RequeuedAlways == {currpid}

\* The threads resched() puts back into the ready list.
Requeued == IF status[currpid] = "CURR" THEN {currpid} ELSE {}

\* The decision for another thread.  restore() switches interrupts on, although
\* currpid names the new thread and the processor is on the old one's stack.
Choose ==
    /\ pc = "decide"
    /\ \E next \in readyList :
          /\ currpid' = next
          /\ readyList' = (readyList \ {next}) \cup Requeued
          /\ status' = [p \in Pid |-> IF p = next THEN "CURR"
                                      ELSE IF p \in Requeued THEN "RUNNABLE"
                                      ELSE status[p]]
          /\ old' = currpid
          /\ new' = next
    /\ iflag' = TRUE
    /\ pc' = "window"
    /\ raced' = (raced \/ esp.own # currpid)
    /\ UNCHANGED <<released, sp, stack, esp, id>>

\* Slip: ctxswitch stores the stack pointer in the entry of the new thread.
SavedInNew == new

\* The entry that ctxswitch stores the stack pointer in.
SavedIn == old

\* Slip: the stack pointer is stored before the registers are pushed.
SaveEarly ==
    /\ pc = "window"
    /\ Push([ret |-> "return", old |-> 0, new |-> 0, id |-> 0, flags |-> EFlags])
    /\ sp' = [sp EXCEPT ![SavedIn] = esp]
    /\ Locals("load")
    /\ UNCHANGED <<table, iflag>>

\* ctxswitch, first half: the flags, the registers and the stack pointer are saved.
\* resched() has no use for its locals when it gets the processor back.
Save ==
    /\ pc = "window"
    /\ Push([ret |-> "return", old |-> 0, new |-> 0, id |-> 0, flags |-> EFlags])
    /\ sp' = [sp EXCEPT ![SavedIn] = esp']
    /\ Locals("load")
    /\ UNCHANGED <<table, iflag>>

\* ctxswitch, second half: the other stack, and the flags that are on it.
Load ==
    /\ pc = "load"
    /\ Resume(sp[new])
    /\ UNCHANGED <<table, sp>>

\* resched() returns: into the interrupt gate and by iret, which takes the flags
\* back, to the interrupted place, or to its caller.
Return ==
    /\ pc = "return"
    /\ Resume(esp)
    /\ UNCHANGED <<table, sp>>

\* A thread function returns into userret(), which calls kill(getpid()).
UserRet ==
    /\ pc = "run"
    /\ currpid \notin {NULLPROC, MAIN}
    /\ pc' = "suspend"
    /\ id' = currpid
    /\ UNCHANGED <<table, sp, stack, esp, old, new, iflag>>

\* suspend(id); the thread is running, so it is not in the ready list.
KillSuspend ==
    /\ pc = "suspend"
    /\ status' = [status EXCEPT ![id] = "SUSPENDED"]
    /\ Locals("dead")
    /\ UNCHANGED <<readyList, currpid, released, sp, stack, esp, iflag>>

KillDead ==
    /\ pc = "dead"
    /\ status' = [status EXCEPT ![id] = "DEAD"]
    /\ Locals("release")
    /\ UNCHANGED <<readyList, currpid, released, sp, stack, esp, iflag>>

\* release(): the thread frees the stack it is on and runs on it to the end.
KillRelease ==
    /\ pc = "release"
    /\ released' = released \cup {id}
    /\ Locals("killed")
    /\ UNCHANGED <<status, readyList, currpid, sp, stack, esp, iflag>>

KillResched ==
    /\ pc = "killed"
    /\ Push(Context("killed", "kept"))
    /\ EnterResched
    /\ UNCHANGED <<table, sp>>

\* A thread goes on with its own work, and nullproc with its empty loop.
Compute == pc = "run" /\ UNCHANGED <<table, sp, stack, esp, pc, old, new, id, iflag>>

\* What the processor goes on with when nothing interrupts it.
Step ==
    \/ Choose
    \/ /\ Keep \/ Save \/ Load \/ Return
          \/ KillSuspend \/ KillDead \/ KillRelease \/ KillResched
       /\ UNCHANGED raced

\* A switch decided on the wrong stack is where the model ends: from then on the
\* saved stack pointers are wrong, and any code may run on any stack.
Next ==
    \/ /\ ~ raced
       /\ \/ Step
          \/ (Tick \/ Yield \/ UserRet \/ Compute) /\ UNCHANGED raced
    \/ raced /\ UNCHANGED vars

Spec == Init /\ [][Next]_vars

\* The processor goes on with what it has begun.
FairSpec == Spec /\ WF_vars(Step)

-----------------------------------------------------------------------------
(* Properties.                                                             *)

TypeOK ==
    /\ status \in [Pid -> {"CURR", "RUNNABLE", "SUSPENDED", "DEAD"}]
    /\ readyList \subseteq Pid /\ released \subseteq Pid
    /\ currpid \in Pid
    /\ sp \in [Pid -> Pointer] /\ esp \in Pointer
    /\ stack \in [Pid -> Seq(Frame)]
    /\ pc \in Labels
    /\ old \in Pid /\ new \in Pid /\ id \in Pid
    /\ iflag \in BOOLEAN /\ raced \in BOOLEAN

\* Unless a timer interrupt falls between restore() and the exchange of the stacks
\* (sched.cpp:62) and resched() decides for a third thread there, the processor
\* is on the stack of the thread that currpid names, or in the middle of the
\* switch from the old one's: getpid() and the code that runs agree, however
\* interrupts, calls and kills are mixed.  An interrupt in that window which lets
\* the chosen thread keep the processor is harmless.
OnOwnStack ==
    LET inSwitch(label) == label \in {"window", "load"}
        frames == SubSeq(stack[esp.own], 1, esp.depth)
    IN  \/ raced
        \/ \E f \in Range(frames) \cup {Context(pc, "kept")} :
              inSwitch(f.ret) /\ f.old = esp.own /\ f.new = currpid
        \/ /\ esp.own = currpid
           /\ \A f \in Range(frames) \cup {Context(pc, "kept")} : ~ inSwitch(f.ret)

\* Up to such a switch, whoever waits in the ready list can be resumed: "save the
\* old process's sp" (ctxswitch.s) stored a place on its own stack, at whose top
\* there is a frame that ctxswitch pushed and nothing has overwritten.  The
\* thread the processor is just leaving is excepted.
WaitingIsResumable ==
    raced \/ \A p \in readyList \ {esp.own} :
        /\ sp[p].own = p
        /\ sp[p].depth = Len(stack[p])
        /\ stack[p] # <<>> /\ stack[p][Len(stack[p])].ret \in {"run", "return"}

\* Up to such a switch, a stack that was freed is used by nobody but the thread
\* that is on its way out: nothing leads back to it once the processor has left.
FreedStackIsLeft ==
    raced \/ \A p \in released :
        /\ p \notin readyList
        /\ esp.own = p => status[p] = "DEAD"
        /\ pc # "load" \/ new # p

\* Interrupts come back on every path through resched() ("Make sure to restore
\* the interrupts on all return paths from this function!", sched.cpp), also
\* through the flags that ctxswitch and iret take from the stack they return to.
InterruptsComeBack == ~ iflag ~> iflag

\* However interrupts, calls of resched() and kills nest, the stack pointers that
\* ctxswitch saved are well-formed and fit to be loaded again.
StacksConsistent == TypeOK /\ WaitingIsResumable

=============================================================================
