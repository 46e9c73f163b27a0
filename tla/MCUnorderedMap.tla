-------------------------- MODULE MCUnorderedMap --------------------------
(* Two of the three keys share a bucket; the heap has room for three nodes. *)
EXTENDS UnorderedMap

MCKeys == {1, 2, 3}
MCVals == {7, 8}
MCElems == [first : {1}, second : MCVals]
MCBlank == [first |-> 0, second |-> 0]
MCHash == [k \in MCKeys |-> k]
MCQueues == {0, 1, 2}
=============================================================================
