----------------------------- MODULE ByteQueue ------------------------------
(* What a pipe promises: a bounded first-in first-out queue of bytes.       *)
EXTENDS Naturals, Sequences

CONSTANTS Bytes, PIPESIZE

VARIABLE queue

Init == queue = <<>>

Put == \E b \in Bytes : Len(queue) < PIPESIZE /\ queue' = Append(queue, b)

Get == queue # <<>> /\ queue' = Tail(queue)

Spec == Init /\ [][Put \/ Get]_queue
=============================================================================
