------------------------------ MODULE ByteQueue ------------------------------
(***************************************************************************)
(* What a ring buffer promises (nvim/rbuffer.h): a queue of at most        *)
(* Capacity bytes, written at one end and read at the other, run by run.   *)
(* RingBuffer shows how two wrapping pointers realise it.                  *)
(***************************************************************************)
EXTENDS Naturals, Sequences

CONSTANTS Capacity, Byte

VARIABLE queue

Put(run) ==
    /\ Len(queue) + Len(run) <= Capacity
    /\ queue' = queue \o run

Take(n) ==
    /\ n \in 1 .. Len(queue)
    /\ queue' = SubSeq(queue, n + 1, Len(queue))

QueueInit == queue = <<>>

(* The runs of n bytes. *)
Runs(n) == [1 .. n -> Byte]

QueueNext == \E n \in 1 .. Capacity : Take(n) \/ \E run \in Runs(n) : Put(run)

QueueSpec == QueueInit /\ [][QueueNext]_queue
=============================================================================
