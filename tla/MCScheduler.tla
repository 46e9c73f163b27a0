---------------------------- MODULE MCScheduler ----------------------------
(* Small instances of Scheduler: four slots, so two threads beside nullproc *)
(* and the boot thread, and a fifth creation finds the table full.          *)
EXTENDS Scheduler

MCPriorities == {0, 10, 20}
MCTargets == {0, 1, 2, 3}
SomeGarbage == {-1, 0, 1}
=============================================================================
