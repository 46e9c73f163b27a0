---------------------------- MODULE MCInterrupts ----------------------------
(* Timer, keyboard and the clock of the slave; two threads of two frames.    *)
EXTENDS Interrupts

MCLines == {0, 1, 8}
=============================================================================
