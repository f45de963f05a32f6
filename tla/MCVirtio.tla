------------------------------ MODULE MCVirtio ------------------------------
(* Queues that wrap around after a few requests: batches of two out of a    *)
(* queue of seven descriptors, one in reserve, as ten out of 32 in the code.*)
EXTENDS VirtioSystem

MCQueueSize == [blk |-> 7, net |-> 2, gpu |-> 7]
MCHeap == 1..6
MCRequests == {[type |-> "read", data |-> 0], [type |-> "write", data |-> 1]}
=============================================================================
