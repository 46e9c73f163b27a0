----------------------------- MODULE Interrupts -----------------------------
(***************************************************************************)
(* From the boot sequence to the nesting of handlers: the descriptor table, *)
(* irq.c, the gates of isr_irq.s, the timer and its observer, and           *)
(* disable()/restore() on the masks of the interrupt controllers, with the *)
(* pair of 8259 as far as this code depends on it.  Every thread has a     *)
(* stack of the handlers and calls of resched() it is in the middle of;    *)
(* which thread resched() chooses is left open (see module Scheduler).     *)
(***************************************************************************)
EXTENDS Integers, Sequences

CONSTANTS
    Lines,       \* the lines that devices raise
    Threads, BOOT,
    MaxDepth     \* bound of the model: the frames on one stack

TIMER == 0
KEYBOARD == 1
CASCADE == 2
CALL == -1       \* a frame that is not a handler's: a call of resched()
SOFTWARE == -2   \* int 0x80
All == 0 .. 15
IsSlave(line) == line >= 8

ASSUME LinesAssumption ==
    /\ Lines \subseteq All \ {CASCADE} /\ TIMER \in Lines
    /\ BOOT \in Threads
    /\ MaxDepth \in Nat \ {0}

VARIABLES
    stage,          \* what of the boot sequence is done
    idt,            \* the vectors that have a gate
    routines,       \* irq_routines: the lines that have a handler
    observers,      \* Timer::_observers
    tableReady,     \* processes::init() has run
    irr, imr,       \* the controllers: lines that wait, lines that are masked
    master, slave,  \* the lines in service on either controller
    iflag,          \* the interrupt flag of the processor
    current,        \* the thread that runs
    frames,         \* for every thread the frames on its stack
    crashed         \* history: an interrupt without a gate, resched() without a table

boot == <<stage, idt, observers, tableReady>>
pic == <<irr, imr, master, slave>>
vars == <<boot, routines, pic, iflag, current, frames, crashed>>

Order == <<"gdt", "idt", "irq", "timer", "keyboard", "sti", "paging", "heap", "processes",
           "scheduler">>
Running == Len(Order)
Places == {"gate", "handler", "resched", "restore", "switch", "eoi", "iret"}

Init ==
    /\ stage = 0
    /\ idt = {} /\ routines = {} /\ observers = <<>> /\ tableReady = FALSE
    /\ irr = {} /\ imr = {} /\ master = {} /\ slave = {}
    /\ iflag = FALSE
    /\ current = BOOT
    /\ frames = [t \in Threads |-> <<>>]
    /\ crashed = FALSE

-----------------------------------------------------------------------------
(* The controllers (external).                                             *)

Raise(line) ==
    /\ line \notin irr
    /\ irr' = irr \cup {line}
    /\ UNCHANGED <<boot, routines, imr, master, slave, iflag, current, frames, crashed>>

\* A line of the slave comes in on the cascade line of the master.
OnMaster(line) == IF IsSlave(line) THEN CASCADE ELSE line
Before(a, b) == OnMaster(a) < OnMaster(b) \/ (OnMaster(a) = OnMaster(b) /\ a < b)

\* Lower numbers come first; a line in service holds back itself and what is behind.
Passes(line) ==
    /\ line \in irr /\ {line, OnMaster(line)} \cap imr = {}
    /\ \A busy \in master : OnMaster(line) < busy
    /\ IsSlave(line) => \A busy \in slave : line < busy

\* A non-specific end of interrupt ends the first line in service.
First(lines) == {a \in lines : \A b \in lines : a <= b}
Ended(lines) == lines \ First(lines)

-----------------------------------------------------------------------------
(* The processor.                                                          *)

Stack == frames[current]
Top == Stack[Len(Stack)]
At(place) == Stack # <<>> /\ Top.at = place
Goto(place) == frames' = [frames EXCEPT ![current][Len(Stack)].at = place]
Pushed(irq, place) ==
    frames' = [frames EXCEPT ![current] = Append(@, [irq |-> irq, at |-> place, mask |-> {}])]
Popped == frames' = [frames EXCEPT ![current] = SubSeq(@, 1, Len(@) - 1)]

\* Slip: a gate that leaves interrupts on.
GateOpen(vector, irq, place) ==
    /\ Len(Stack) < MaxDepth
    /\ Pushed(irq, place)
    /\ crashed' = (crashed \/ vector \notin idt)
    /\ UNCHANGED <<boot, routines, imr, iflag, current>>

\* An interrupt gate switches interrupts off; without one the processor faults.
Gate(vector, irq, place) ==
    /\ Len(Stack) < MaxDepth
    /\ Pushed(irq, place)
    /\ iflag' = FALSE
    /\ crashed' = (crashed \/ vector \notin idt)
    /\ UNCHANGED <<boot, routines, imr, current>>

Accept(line) ==
    /\ iflag
    /\ Passes(line)
    /\ \A other \in irr : Passes(other) => ~ Before(other, line)
    /\ irr' = irr \ {line}
    /\ master' = master \cup {OnMaster(line)}
    /\ slave' = IF IsSlave(line) THEN slave \cup {line} ELSE slave
    /\ Gate(line + 32, line, "gate")

\* A line that drops before it is taken: the last number of its controller comes,
\* and no line of that controller is in service for it.
Spurious(line) ==
    /\ line \in {7, 15}
    /\ iflag
    /\ ~ \E busy \in master : busy <= OnMaster(line)
    /\ master' = IF IsSlave(line) THEN master \cup {CASCADE} ELSE master
    /\ UNCHANGED <<irr, slave>>
    /\ Gate(line + 32, line, "gate")

\* interrupt(): int 0x80, whose handler only prints.
SoftwareInterrupt ==
    /\ stage = Running
    /\ iflag
    /\ Stack = <<>>
    /\ Gate(128, SOFTWARE, "iret")
    /\ UNCHANGED <<irr, master, slave>>

\* Slip: the timer is acknowledged with the others, after its handler.
GateEndsNothing ==
    /\ At("gate")
    /\ Goto("handler")
    /\ UNCHANGED <<boot, routines, pic, iflag, current, crashed>>

\* irq_handler(): the timer is acknowledged before its handler, which may not
\* come back for a long time.
IrqEntry ==
    /\ At("gate")
    /\ master' = IF Top.irq = TIMER THEN Ended(master) ELSE master
    /\ Goto("handler")
    /\ UNCHANGED <<boot, routines, irr, imr, slave, iflag, current, crashed>>

\* The handler, if there is one: that of the timer calls its observers.
IrqHandler ==
    /\ At("handler")
    /\ Goto(IF Top.irq = TIMER /\ TIMER \in routines /\ observers # <<>> THEN "resched" ELSE "eoi")
    /\ UNCHANGED <<boot, routines, pic, iflag, current, crashed>>

\* kthread_create() with do_resched, and kill(): a thread calls resched() itself.
CallResched ==
    /\ stage = Running
    /\ Stack = <<>>
    /\ Pushed(CALL, "resched")
    /\ UNCHANGED <<boot, routines, pic, iflag, current, crashed>>

\* What disable() returns: the lines that were open, "negated form".
disable(mask) == All \ mask

\* Every line but the cascade.
girmask == All \ {CASCADE}

\* The mask that restore() puts in force.
restore(ps) == (All \ ps) \cap girmask

\* resched() switches interrupts off in the processor and the controllers.
ReschedDisables ==
    /\ At("resched")
    /\ crashed' = (crashed \/ ~ tableReady)
    /\ frames' = [frames EXCEPT ![current][Len(Stack)] =
                     [@ EXCEPT !.at = "restore", !.mask = disable(imr)]]
    /\ imr' = All
    /\ iflag' = FALSE
    /\ UNCHANGED <<boot, routines, irr, master, slave, current>>

\* restore() ends in sti: interrupts are on in the middle of the handler.
ReschedRestores ==
    /\ At("restore")
    /\ imr' = restore(Top.mask)
    /\ iflag' = TRUE
    /\ Goto("switch")
    /\ UNCHANGED <<boot, routines, irr, master, slave, current, crashed>>

\* ctxswitch, or the early return if the thread stays: the thread goes on behind
\* resched() when it gets the processor back.
ReschedSwitches ==
    /\ At("switch")
    /\ Goto("eoi")
    /\ current' \in Threads
    /\ UNCHANGED <<boot, routines, pic, iflag, crashed>>

\* Slip: only the master is told of the end of a slave's interrupt.
IrqEndMasterOnly ==
    /\ At("eoi")
    /\ master' = IF Top.irq \in All \ {TIMER} THEN Ended(master) ELSE master
    /\ Goto("iret")
    /\ UNCHANGED <<boot, routines, irr, imr, slave, iflag, current, crashed>>

\* The rest of irq_handler(): "If you don't send an EOI, you won't raise any more
\* IRQs".
IrqEnd ==
    /\ At("eoi")
    /\ slave' = IF IsSlave(Top.irq) THEN Ended(slave) ELSE slave
    /\ master' = IF Top.irq \in All \ {TIMER} THEN Ended(master) ELSE master
    /\ Goto("iret")
    /\ UNCHANGED <<boot, routines, irr, imr, iflag, current, crashed>>

\* iret brings back the flags of the interrupted code, which had interrupts on; a
\* call of resched() just returns.
Iret ==
    /\ At("iret")
    /\ Popped
    /\ iflag' = TRUE
    /\ UNCHANGED <<boot, routines, pic, current, crashed>>

-----------------------------------------------------------------------------
(* The boot sequence, and what may change later.                           *)

\* Slip: the observer is registered before the process table exists.
BootStepsSwapped == [Order EXCEPT ![9] = "scheduler", ![10] = "processes"]

\* The order of init() in kernel.cpp and arch_specific_init().
BootSteps == Order

\* idt_install() clears the table, setup_idt() and irq_install() fill it.
Gates(step) ==
    CASE step = "idt" -> {128}
      [] step = "irq" -> idt \cup 32 .. 47
      [] OTHER -> idt

\* irq_remap() opens every line of both controllers.
Remapped(step) == IF step = "irq" THEN {} ELSE imr

\* setup_irq_handlers()
Installed(step) ==
    CASE step = "timer" -> routines \cup {TIMER}
      [] step = "keyboard" -> routines \cup {KEYBOARD}
      [] OTHER -> routines

\* scheduler::init() registers its one observer; there is room for five.
Registered(step) == IF step = "scheduler" THEN Append(observers, "timerObserver") ELSE observers

\* The next statement of the boot thread, interrupts permitting.
Boot ==
    /\ stage < Running
    /\ current = BOOT /\ Stack = <<>>
    /\ stage' = stage + 1
    /\ LET step == BootSteps[stage'] IN
       /\ idt' = Gates(step)
       /\ imr' = Remapped(step)
       /\ routines' = Installed(step)
       /\ iflag' = (iflag \/ step = "sti")
       /\ tableReady' = (tableReady \/ step = "processes")
       /\ observers' = Registered(step)
    /\ UNCHANGED <<irr, master, slave, current, frames, crashed>>

\* irq_install_handler() and irq_uninstall_handler(), by a thread.
InstallHandler(line) ==
    /\ stage = Running /\ Stack = <<>>
    /\ routines' = IF line \in routines THEN routines \ {line} ELSE routines \cup {line}
    /\ UNCHANGED <<boot, pic, iflag, current, frames, crashed>>

\* What the processor goes on with.
Step ==
    \/ Boot \/ IrqEntry \/ IrqHandler \/ ReschedDisables \/ ReschedRestores
    \/ ReschedSwitches \/ IrqEnd \/ Iret

Next ==
    \/ Step
    \/ \E line \in Lines : Raise(line) \/ Accept(line)
    \/ \E line \in {7, 15} : Spurious(line)
    \/ SoftwareInterrupt \/ CallResched
    \/ InstallHandler(KEYBOARD)

Spec == Init /\ [][Next]_vars

\* The processor goes on; a request that passes again and again is taken in the
\* end, since the processor looks for one after every instruction.
FairSpec == Spec /\ WF_vars(Step) /\ \A line \in Lines : SF_vars(Accept(line))

-----------------------------------------------------------------------------
(* Properties.                                                             *)

TypeOK ==
    /\ stage \in 0 .. Running
    /\ irr \subseteq Lines /\ imr \subseteq All
    /\ master \subseteq 0 .. 7 /\ slave \subseteq 8 .. 15
    /\ current \in Threads
    /\ \A t \in Threads : \A i \in DOMAIN frames[t] : frames[t][i].at \in Places

\* Whenever the processor takes interrupts the controllers hold nothing back and
\* no line is masked: a handler that is parked by a switch of threads, or nested
\* in another one, was acknowledged before, the acknowledgements hit the line they
\* are meant for, and restore() puts back what disable() found.
NothingHeldBack == iflag => master = {} /\ slave = {} /\ imr = {}

\* From "sti" in setup_irq() on, whatever interrupt comes first finds its gate,
\* and the timer finds the process table when it gets to resched().
BootOrderSafe == ~ crashed

\* Handlers run with interrupts off, except behind resched(): below the top of a
\* stack there is only a handler that a switch or a nested interrupt left there.
OnlyReschedIsInterrupted ==
    \A t \in Threads : \A i \in DOMAIN frames[t] :
        (i < Len(frames[t]) \/ t # current) =>
            /\ frames[t][i].irq \in {TIMER, CALL}
            /\ frames[t][i].at \in {"resched", "switch", "eoi", "iret"}

\* "If you don't send an EOI, you won't raise any more IRQs" (irq.c): an interrupt
\* that was raised is taken, unless requests that come first keep it waiting; the
\* timer, which nothing comes before, is always taken.
RaisedIsTaken ==
    \A line \in Lines :
        line \in irr ~> line \notin irr \/ \E other \in irr : Before(other, line)

\* The controllers are in step with the processor: whenever it takes interrupts,
\* irq_handler() has ended every line in service on both controllers, also for
\* handlers that resched() parked, and restore() has opened every mask.
ControllersConsistent == TypeOK /\ NothingHeldBack

=============================================================================
