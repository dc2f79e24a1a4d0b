-------------------------------- MODULE Fifo --------------------------------
(* What the containers of QueueBase (include/jinx/queue.hpp) promise: first  *)
(* in, first out, up to a limit.                                             *)
EXTENDS Naturals, Sequences

CONSTANTS Values, Limit
VARIABLE queue

Init == queue = <<>>
Emplace == Len(queue) < Limit /\ \E v \in Values : queue' = Append(queue, v)
Pop == queue # <<>> /\ queue' = Tail(queue)
Reset == queue' = <<>>

Spec == Init /\ [][Emplace \/ Pop \/ Reset]_queue
=============================================================================
