---------------------------- MODULE StreamSocket ----------------------------
(* StreamSocket (streamsocket.hpp) at both ends of a connection: the sender  *)
(* writes a view, in as many sends as it takes, and shuts down; the receiver *)
(* reads into a view of its own, again and again, until the end of stream,   *)
(* and shuts down. The kernel's connection is external: it holds at most     *)
(* Pipe bytes, takes and gives any number it can, and a peer may reset it.   *)
(*                                                                           *)
(* The state is one record k: pipe the bytes under way to the receiver, out  *)
(* the rest of the sender's view, in what the receiver's view holds, got     *)
(* what its reader took from it, closed who has shut its side down.          *)
EXTENDS Naturals, Sequences

CONSTANTS
    Total,      \* the bytes the sender writes
    Pipe,       \* what the connection holds
    View        \* the memory of the receiver's view

VARIABLE k

Ends == {"sender", "receiver"}

Init == k = [pipe |-> <<>>, out |-> [i \in 1..Total |-> i], in |-> <<>>, got |-> <<>>,
             closed |-> {}, broken |-> FALSE, eos |-> FALSE, fatal |-> FALSE,
             pc |-> [x \in Ends |-> IF x = "sender" THEN "write" ELSE "read"]]

Drop(s, n) == SubSeq(s, n + 1, Len(s))

(* StreamSend::async_poll: what was sent is consumed, and the rest is sent   *)
(* again at once; the awaitable waits while the connection is full.          *)
Send ==
    /\ k.pc["sender"] = "write"
    /\ IF k.broken THEN k' = [k EXCEPT !.pc["sender"] = "failed"]
       ELSE \E n \in 1..Len(k.out) :
            /\ Len(k.pipe) + n <= Pipe
            /\ k' = [k EXCEPT !.pipe = @ \o SubSeq(k.out, 1, n), !.out = Drop(@, n),
                              !.pc["sender"] = IF n = Len(k.out) THEN "shutdown" ELSE @]

(* A slip: the slice of a read is the view's memory, not what is left of it. *)
RecvWholeView ==
    /\ k.pc["receiver"] = "read"
    /\ IF k.broken THEN k' = [k EXCEPT !.pc["receiver"] = "failed"]
       ELSE IF k.pipe = <<>>
       THEN /\ "sender" \in k.closed
            /\ k' = [k EXCEPT !.eos = TRUE, !.pc["receiver"] = "shutdown"]
       ELSE \E n \in 1..View :
            /\ n <= Len(k.pipe)
            /\ k' = [k EXCEPT !.pipe = Drop(@, n), !.in = @ \o SubSeq(k.pipe, 1, n),
                              !.fatal = Len(k.in) + n > View, !.pc["receiver"] = "take"]

(* StreamRecv::async_poll: recv into the room of the view; 0 is the end of   *)
(* the stream, anything else is committed.                                   *)
Recv ==
    /\ k.pc["receiver"] = "read"
    /\ IF k.broken THEN k' = [k EXCEPT !.pc["receiver"] = "failed"]
       ELSE IF k.pipe = <<>>
       THEN /\ "sender" \in k.closed
            /\ k' = [k EXCEPT !.eos = TRUE, !.pc["receiver"] = "shutdown"]
       ELSE \E n \in 1..(View - Len(k.in)) :
            /\ n <= Len(k.pipe)
            /\ k' = [k EXCEPT !.pipe = Drop(@, n), !.in = @ \o SubSeq(k.pipe, 1, n),
                              !.fatal = Len(k.in) + n > View, !.pc["receiver"] = "take"]

(* The owner of the stream takes some of its view, all of it when it is full.*)
Take ==
    /\ k.pc["receiver"] = "take"
    /\ \E n \in 0..Len(k.in) :
        /\ Len(k.in) = View => n = View
        /\ k' = [k EXCEPT !.got = @ \o SubSeq(k.in, 1, n), !.in = Drop(@, n),
                          !.pc["receiver"] = "read"]

(* StreamSocket::shutdown: the writing side is shut, then a peek waits for   *)
(* a byte or the end of the peer's side.                                     *)
ShutdownWrite(x) ==
    /\ k.pc[x] = "shutdown"
    /\ k' = [k EXCEPT !.closed = @ \cup {x}, !.pc[x] = "peek"]

Peek(x) ==
    /\ k.pc[x] = "peek"
    /\ k.broken \/ Ends \ {x} \subseteq k.closed \/ (x = "receiver" /\ k.pipe # <<>>)
    /\ k' = [k EXCEPT !.pc[x] = IF k.broken THEN "failed" ELSE "done"]

(* The connection is reset: what is under way is lost.                       *)
Break == ~k.broken /\ k' = [k EXCEPT !.broken = TRUE, !.pipe = <<>>]

Next == \/ Send \/ Recv \/ Take \/ Break
        \/ \E x \in Ends : ShutdownWrite(x) \/ Peek(x)

Fairness == /\ WF_k(Send) /\ WF_k(Recv) /\ WF_k(Take)
            /\ \A x \in Ends : WF_k(ShutdownWrite(x)) /\ WF_k(Peek(x))

Spec == Init /\ [][Next]_k /\ Fairness

----------------------------------------------------------------------------
(* The receiver holds a prefix of what was written, in order, and takes the  *)
(* stream for ended only when it holds all of it: the repeated sends of      *)
(* StreamSend and the end of stream of StreamRecv; commit never fails.       *)
StreamExact ==
    /\ LET all == k.got \o k.in \o k.pipe \o k.out
       IN ~k.broken => all = [i \in 1..Total |-> i]
    /\ \A i \in 1..Len(k.got \o k.in) : (k.got \o k.in)[i] = i
    /\ k.eos => Len(k.got \o k.in) = Total
    /\ ~k.fatal

(* Both ends come to their end: the transfer and the two shutdowns complete, *)
(* or the connection broke and both operations failed or had finished.       *)
TransferEnds == <>(\A x \in Ends : k.pc[x] \in {"done", "failed"})
============================================================================
