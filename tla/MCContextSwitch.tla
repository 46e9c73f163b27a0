-------------------------- MODULE MCContextSwitch --------------------------
(* nullproc, the boot thread and two more.  Interrupts and calls with up to   *)
(* two frames: a call of resched() can be interrupted on its way back and    *)
(* switched away from.                                                       *)
EXTENDS ContextSwitch
=============================================================================
