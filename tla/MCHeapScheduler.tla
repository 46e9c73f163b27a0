-------------------------- MODULE MCHeapScheduler --------------------------
(* Five slots: the boot thread and three more of its priority are the       *)
(* smallest number among which the heap can pass over one for ever.         *)
EXTENDS HeapScheduler

TwoLevels == {5, 10}
SomeThreads == {2, 3}
NoGarbage == {0}
=============================================================================
