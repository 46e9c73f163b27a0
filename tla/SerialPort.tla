----------------------------- MODULE SerialPort -----------------------------
(***************************************************************************)
(* serial_write() of serialport.c, port access by port access, on the part *)
(* of a 16550 that it uses.  Every call sets the baud rate and the line    *)
(* format again.  The FIFO is never enabled, so the port holds one byte    *)
(* behind the one that it shifts out, and bit 0x20 of the line status is   *)
(* set as soon as it can take a byte, while the one before is still on its *)
(* way.  Threads share the port without a lock.                            *)
(***************************************************************************)
EXTENDS Integers, Sequences

CONSTANTS
    Threads,
    Garbled         \* what arrives of a byte whose speed or length is changed on its way

VARIABLES
    dlab, divisor,  \* the data port leads to the divisor latch; the latch
    thr, tsr,       \* the byte that waits in the port and the one that it shifts out
    sent,           \* history: what was given to the port and has not left it
    overlapped,     \* history: two calls were under way since the port was last idle
    at,             \* where every thread is in serial_write()
    data            \* what every thread has still to send

port == <<dlab, divisor, thr, tsr, sent, overlapped>>

Divisor == "0x01"
Places == {"out", "dlab", "divisor_high", "divisor_low", "line", "wait", "send"}

\* A byte in the port, and how many of its piece come behind it.
Entry(byte, rest) == [byte |-> byte, rest |-> rest]

SerialInit ==
    /\ dlab = FALSE /\ divisor = Divisor
    /\ thr = <<>> /\ tsr = <<>>
    /\ sent = <<>> /\ overlapped = FALSE
    /\ at = [t \in Threads |-> "out"]
    /\ data = [t \in Threads |-> <<>>]

-----------------------------------------------------------------------------
(* The port.                                                               *)

\* outb(SERIAL_DATA_PORT): a byte written on top of one that waits replaces it.
DataPort(byte, rest) ==
    IF dlab THEN divisor' = byte /\ UNCHANGED <<thr, sent>>
    ELSE /\ thr' = <<Entry(byte, rest)>>
         /\ sent' = IF overlapped THEN sent ELSE Append(sent, Entry(byte, rest))
         /\ UNCHANGED divisor

\* With the latch open the line format has words of five bits.
Configured == ~ dlab /\ divisor = Divisor

Spoiled(byte) == Entry(Garbled, byte.rest)

\* The byte that waits begins to leave.
Shift ==
    /\ thr # <<>> /\ tsr = <<>>
    /\ tsr' = <<IF Configured THEN thr[1] ELSE Spoiled(thr[1])>>
    /\ thr' = <<>>
    /\ UNCHANGED <<dlab, divisor, sent, overlapped, at, data>>

\* It has left.
Leave ==
    /\ tsr # <<>>
    /\ tsr' = <<>>
    /\ sent' = IF overlapped THEN sent ELSE Tail(sent)
    /\ UNCHANGED <<dlab, divisor, thr, overlapped, at, data>>

Transmit == Shift \/ Leave

-----------------------------------------------------------------------------
(* serial_write() by thread t.                                             *)

\* To the first statement of a call that sends these bytes.
Enter(t, bytes) ==
    /\ at' = [at EXCEPT ![t] = "dlab"]
    /\ data' = [data EXCEPT ![t] = bytes]
    /\ overlapped' = ((\E u \in Threads \ {t} : at[u] # "out")
                        \/ (overlapped /\ (thr # <<>> \/ tsr # <<>>)))
    /\ sent' = IF overlapped' THEN <<>> ELSE sent
    /\ UNCHANGED <<dlab, divisor, thr, tsr>>

Goto(t, place) == at' = [at EXCEPT ![t] = place]

\* The first access spoils the byte that is on its way.
ConfigureBaudRate(t) ==
    \/ /\ at[t] = "dlab"
       /\ dlab' = TRUE
       /\ tsr' = IF tsr = <<>> THEN <<>> ELSE <<Spoiled(tsr[1])>>
       /\ Goto(t, "divisor_high")
       /\ UNCHANGED <<divisor, thr, sent, overlapped, data>>
    \/ /\ at[t] = "divisor_high"
       /\ DataPort("0x00", 0)
       /\ Goto(t, "divisor_low")
       /\ UNCHANGED <<dlab, tsr, overlapped, data>>
    \/ /\ at[t] = "divisor_low"
       /\ DataPort(Divisor, 0)
       /\ Goto(t, "line")
       /\ UNCHANGED <<dlab, tsr, overlapped, data>>

\* Line format 0x03, whose top bit leaves the divisor latch.
ConfigureLine(t) ==
    /\ at[t] = "line"
    /\ dlab' = FALSE
    /\ Goto(t, IF data[t] = <<>> THEN "out" ELSE "wait")
    /\ UNCHANGED <<divisor, thr, tsr, sent, overlapped, data>>

\* Slip: nobody waits for the byte before.
NoWait(t) ==
    /\ at[t] = "wait"
    /\ Goto(t, "send")
    /\ UNCHANGED <<port, data>>

\* Slip: the status bit is taken the other way round.
WaitInverted(t) ==
    /\ at[t] = "wait"
    /\ IF thr # <<>> THEN Goto(t, "send") ELSE UNCHANGED at
    /\ UNCHANGED <<port, data>>

\* A turn of the waiting loop, which is left when the port can take a byte.
Wait(t) ==
    /\ at[t] = "wait"
    /\ IF thr = <<>> THEN Goto(t, "send") ELSE UNCHANGED at
    /\ UNCHANGED <<port, data>>

SendByte(t) ==
    /\ at[t] = "send"
    /\ DataPort(Head(data[t]), Len(data[t]) - 1)
    /\ data' = [data EXCEPT ![t] = Tail(@)]
    /\ Goto(t, IF Len(data[t]) = 1 THEN "out" ELSE "wait")
    /\ UNCHANGED <<dlab, tsr, overlapped>>

SerialStep(t) ==
    ConfigureBaudRate(t) \/ ConfigureLine(t) \/ Wait(t) \/ SendByte(t)
=============================================================================
