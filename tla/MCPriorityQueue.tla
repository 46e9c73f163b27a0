-------------------------- MODULE MCPriorityQueue --------------------------
(* Three keys and two values; the array starts with one cell, so that four  *)
(* elements make it grow twice and the heap has three levels.               *)
EXTENDS PriorityQueue

MCKeys == 1 .. 3
MCVals == {"p", "q"}
MCJunk == [key |-> 1, val |-> "p"]
=============================================================================
