------------------------------ MODULE ByteQueue ------------------------------
(***************************************************************************)
(* What the serial driver promises in either direction: a queue of at most *)
(* Capacity bytes, which leave it in the order in which they were put.     *)
(***************************************************************************)
EXTENDS Naturals, Sequences

CONSTANTS Bytes, Capacity

VARIABLE queue

TypeOK == queue \in Seq(Bytes) /\ Len(queue) <= Capacity

Init == queue = <<>>

Put == /\ Len(queue) < Capacity
       /\ \E b \in Bytes : queue' = Append(queue, b)

Take == /\ queue # <<>>
        /\ queue' = Tail(queue)

Next == Put \/ Take

Spec == Init /\ [][Next]_queue
==============================================================================
