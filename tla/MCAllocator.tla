---------------------------- MODULE MCAllocator ----------------------------
(* Header of 2, smallest rest of 1: a block of 16 bytes holds up to five     *)
(* chunks, and requests of 1, 2 and 5 bytes split, fit and fail.             *)
EXTENDS Allocator

MCRequests == {1, 2, 5}
OneThread == {"t"}
TwoThreads == {"t", "u"}
=============================================================================
