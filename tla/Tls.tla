-------------------------------- MODULE Tls ---------------------------------
(* TLS streams over StreamBIO (openssl.hpp, bio.hpp): two endpoints whose    *)
(* tasks run TLS operations one after the other, and two transports that     *)
(* carry what one BIO was given to the other one, as the AsyncTransport of   *)
(* the library's own test does. OpenSSL is external: an operation is the     *)
(* flights of bytes it sends and receives, and a call goes on until its BIO  *)
(* tells it to retry.                                                        *)
(*                                                                           *)
(* The state is one record t. app[x] is the task of endpoint x: op and step  *)
(* its place in its script, left the bytes still to move, st its task.       *)
(* pump[x] takes from the BIO of x, with the awaitable _read of x, and gives *)
(* to the BIO of Peer(x), with the awaitable _write of Peer(x). The view of  *)
(* a pump holds the bytes data and ends at offset end of its memory.         *)
EXTENDS Naturals, Sequences, SequencesExt, FiniteSets

CONSTANTS
    Script,     \* for each endpoint, the sequence of the operations of its task
    Memory,     \* the size of a transport's buffer
    Faults      \* what may go wrong: "protocol", "cancel", "reset"

VARIABLE t

E == {"client", "server"}
Peer(x) == CHOOSE y \in E : y # x

(* The flights of each operation of OpenSSL, the number of bytes of each.    *)
Connect == <<[dir |-> "out", n |-> 2], [dir |-> "in", n |-> 3], [dir |-> "out", n |-> 1]>>
Accept == <<[dir |-> "in", n |-> 2], [dir |-> "out", n |-> 3], [dir |-> "in", n |-> 1]>>
Write == <<[dir |-> "out", n |-> 2]>>
Read == <<[dir |-> "in", n |-> 2]>>
(* SSL_shutdown sends close_notify and reports 0; the peek that follows, and *)
(* each later SSL_shutdown, waits for the peer's.                            *)
Shutdown == <<[dir |-> "out", n |-> 1], [dir |-> "in", n |-> 1]>>

Flights(op) == CASE op = "connect" -> Connect [] op = "accept" -> Accept
                 [] op = "write" -> Write [] op = "read" -> Read
                 [] op = "shutdown" -> Shutdown

Init == t = [cur |-> "none", fault |-> FALSE, crash |-> FALSE,
             app |-> [x \in E |-> [op |-> 1, step |-> 1, st |-> "ready", err |-> FALSE,
                                   left |-> Flights(Script[x][1])[1].n, handle |-> "empty"]],
             pump |-> [x \in E |-> [pc |-> "read", st |-> "ready", called |-> FALSE, cap |-> 0,
                                    data |-> <<>>, end |-> 0]],
             pending |-> [x \in E |-> [in |-> FALSE, out |-> FALSE]],
             rview |-> [x \in E |-> FALSE], wview |-> [x \in E |-> FALSE],
             sent |-> [x \in E |-> 0], got |-> [x \in E |-> <<>>]]

Capacity(p) == Memory - p.end

----------------------------------------------------------------------------
(* EventEngineBIO: BIORead and BIOWrite hold one event each; an operation    *)
(* that wants to write waits at the BIORead, one that wants to read at the   *)
(* BIOWrite.                                                                 *)

BIOReadAddEvent(s, x) == [s EXCEPT !.pending[x].out = TRUE]
BIOWriteAddEvent(s, x) == [s EXCEPT !.pending[x].in = TRUE]
BIOReadRemoveEvent(s, x) == [s EXCEPT !.pending[x].out = FALSE]
BIOWriteRemoveEvent(s, x) == [s EXCEPT !.pending[x].in = FALSE]

StreamAddIO(s, x, dir) == IF dir = "in" THEN BIOWriteAddEvent(s, x) ELSE BIOReadAddEvent(s, x)
StreamRemoveIO(s, x, dir) ==
    IF dir = "in" THEN BIOWriteRemoveEvent(s, x) ELSE BIOReadRemoveEvent(s, x)

(* remove_io: an event that is not registered stays unregistered.            *)
RemoveIO(s, x) ==
    IF s.app[x].handle = "empty" THEN s ELSE StreamRemoveIO(s, x, s.app[x].handle)

(* A slip: the handle is dropped and its event stays registered.             *)
FinalizeForgets(s, x, st) == [s EXCEPT !.app[x].handle = "empty", !.app[x].st = st, !.cur = "none"]

(* AsyncTLS::async_finalize, after a return, a throw or a cancellation.      *)
Finalize(s, x, st) ==
    [RemoveIO(s, x) EXCEPT !.app[x].handle = "empty", !.app[x].st = st, !.cur = "none"]

(* do_tls_io on WantRead and WantWrite: add_io fails when an event of that   *)
(* direction is registered, which the operation throws. No operation asks    *)
(* for both directions at once.                                              *)
AddIO(s, x, dir) ==
    IF s.pending[x][dir] THEN Finalize(s, x, "failed")
    ELSE [StreamAddIO(s, x, dir) EXCEPT !.app[x].handle = dir,
                                        !.app[x].st = "suspended", !.cur = "none"]

WantRead(s, x) == AddIO(s, x, "in")
WantWrite(s, x) == AddIO(s, x, "out")

(* AsyncTLS::callback asserts that the operation was suspended.              *)
Callback(s, x, err) == [s EXCEPT !.crash = @ \/ s.app[x].st # "suspended",
                                 !.app[x].st = "ready", !.app[x].err = err]

(* A BIOEventCallback: invoke() and cancel(), which reports BrokenStream.    *)
Invoke(s, x) == Callback(s, x, FALSE)
CancelEvent(s, x) == Callback(s, x, TRUE)

ResetRead(s, x) ==
    [IF s.pending[x].out THEN CancelEvent(s, x) ELSE s
        EXCEPT !.pending[x].out = FALSE, !.rview[x] = FALSE]
ResetWrite(s, x) ==
    [IF s.pending[x].in THEN CancelEvent(s, x) ELSE s
        EXCEPT !.pending[x].in = FALSE, !.wview[x] = FALSE]

ResumePump(s, x, pc) ==
    IF s.pump[x].st = "suspended" /\ s.pump[x].pc = pc
    THEN [s EXCEPT !.pump[x].st = "ready"] ELSE s

----------------------------------------------------------------------------
(* StreamBIO: the calls of OpenSSL.                                          *)

MinOf(a, b) == IF a < b THEN a ELSE b

(* StreamBIO::write: as much as the view of the reader has room for.         *)
BIOWriteEx(x) ==
    LET p == t.pump[x]
        n == MinOf(t.app[x].left, Capacity(p)) IN
    IF ~t.rview[x] \/ Capacity(p) = 0 THEN t' = WantWrite(t, x)
    ELSE t' = ResumePump([t EXCEPT !.pump[x].data = @ \o [i \in 1..n |-> t.sent[x] + i],
                                   !.pump[x].end = @ + n, !.sent[x] = @ + n,
                                   !.app[x].left = @ - n], x, "read")

(* A slip: the rest of a view that OpenSSL took in part is not kept.         *)
BIOReadDrops(x) ==
    LET y == Peer(x)
        p == t.pump[y]
        n == MinOf(t.app[x].left, Len(p.data)) IN
    IF ~t.wview[x] \/ p.data = <<>> THEN t' = WantRead(t, x)
    ELSE t' = ResumePump([t EXCEPT !.got[x] = @ \o SubSeq(p.data, 1, n), !.pump[y].data = <<>>,
                                   !.app[x].left = @ - n], y, "write")

(* StreamBIO::read: as much as the view of the writer holds.                 *)
BIOReadEx(x) ==
    LET y == Peer(x)
        p == t.pump[y]
        n == MinOf(t.app[x].left, Len(p.data)) IN
    IF ~t.wview[x] \/ p.data = <<>> THEN t' = WantRead(t, x)
    ELSE t' = ResumePump([t EXCEPT !.got[x] = @ \o SubSeq(p.data, 1, n),
                                   !.pump[y].data = SubSeq(@, n + 1, Len(@)),
                                   !.app[x].left = @ - n], y, "write")

----------------------------------------------------------------------------
(* AsyncTLS: the operations of an endpoint's task. While a call of OpenSSL   *)
(* runs nothing else does.                                                   *)

(* The task is polled: an error it was resumed with ends it, otherwise       *)
(* do_tls_io calls OpenSSL, again when the operation had to wait.            *)
TlsPoll(x) ==
    /\ t.cur = "none" /\ t.app[x].st = "ready"
    /\ t' = IF t.app[x].err THEN Finalize(t, x, "failed") ELSE [t EXCEPT !.cur = x]

Flight(x) == Flights(Script[x][t.app[x].op])

SslIO(x) ==
    /\ t.cur = x /\ t.app[x].left > 0
    /\ IF Flight(x)[t.app[x].step].dir = "out" THEN BIOWriteEx(x) ELSE BIOReadEx(x)

(* A flight is complete: the next one, or the operation returns and the next *)
(* operation of the task is called.                                          *)
SslNext(x) ==
    /\ t.cur = x /\ t.app[x].left = 0
    /\ LET a == t.app[x] IN
       IF a.step < Len(Flight(x))
       THEN t' = [t EXCEPT !.app[x].step = @ + 1, !.app[x].left = Flight(x)[a.step + 1].n]
       ELSE IF a.op = Len(Script[x]) THEN t' = Finalize(t, x, "done")
       ELSE t' = [Finalize(t, x, "ready") EXCEPT !.app[x].op = @ + 1, !.app[x].step = 1,
                     !.app[x].left = Flights(Script[x][a.op + 1])[1].n]

(* OpenSSL refuses what it received: 0 of a handshake (HandshakeFailed) and  *)
(* ProtocolError are thrown.                                                 *)
SslFails(x) ==
    /\ "protocol" \in Faults /\ t.cur = x /\ t.app[x].left = 0
    /\ Flight(x)[t.app[x].step].dir = "in"
    /\ t' = [Finalize(t, x, "failed") EXCEPT !.fault = TRUE]

----------------------------------------------------------------------------
(* The transports.                                                           *)

(* read() of the transport resets a view that is full, and calls BIORead.    *)
PumpRead(x) ==
    /\ t.cur = "none" /\ t.pump[x].st = "ready" /\ t.pump[x].pc = "read" /\ ~t.pump[x].called
    /\ LET full == Capacity(t.pump[x]) = 0 IN
       t' = [t EXCEPT !.rview[x] = TRUE,
                      !.pump[x] = [@ EXCEPT !.called = TRUE,
                                     !.data = IF full THEN <<>> ELSE @,
                                     !.end = IF full THEN 0 ELSE @,
                                     !.cap = IF full THEN Memory ELSE Capacity(t.pump[x])]]

(* write() of the transport calls BIOWrite.                                  *)
CallWrite(s, x) == [s EXCEPT !.wview[Peer(x)] = TRUE, !.pump[x].pc = "write"]

(* A slip: the reader does not tell who waits for room.                      *)
BIOReadSilent(x) ==
    /\ t.cur = "none" /\ t.pump[x].st = "ready" /\ t.pump[x].pc = "read" /\ t.pump[x].called
    /\ IF ~t.rview[x] THEN t' = [t EXCEPT !.crash = TRUE]
       ELSE IF t.pump[x].cap > Capacity(t.pump[x])
       THEN t' = [CallWrite(t, x) EXCEPT !.rview[x] = FALSE]
       ELSE t' = [t EXCEPT !.pump[x].st = "suspended"]

(* BIORead::async_poll: done when something was committed, and the transport *)
(* goes on to write; otherwise who waits to write is called back.            *)
BIOReadPoll(x) ==
    /\ t.cur = "none" /\ t.pump[x].st = "ready" /\ t.pump[x].pc = "read" /\ t.pump[x].called
    /\ IF ~t.rview[x] THEN t' = [t EXCEPT !.crash = TRUE]
       ELSE IF t.pump[x].cap > Capacity(t.pump[x])
       THEN t' = [CallWrite(t, x) EXCEPT !.rview[x] = FALSE]
       ELSE LET s == [t EXCEPT !.pump[x].st = "suspended"]
            IN t' = IF t.pending[x].out
                    THEN [Invoke(s, x) EXCEPT !.pending[x].out = FALSE] ELSE s

(* BIOWrite::async_poll: done when all was consumed; otherwise who waits to  *)
(* read is called back.                                                      *)
BIOWritePoll(x) ==
    LET y == Peer(x) IN
    /\ t.cur = "none" /\ t.pump[x].st = "ready" /\ t.pump[x].pc = "write"
    /\ IF ~t.wview[y] THEN t' = [t EXCEPT !.crash = TRUE]
       ELSE IF t.pump[x].data = <<>>
       THEN t' = [t EXCEPT !.wview[y] = FALSE, !.pump[x].pc = "read", !.pump[x].called = FALSE]
       ELSE LET s == [t EXCEPT !.pump[x].st = "suspended"]
            IN t' = IF t.pending[y].in
                    THEN [Invoke(s, y) EXCEPT !.pending[y].in = FALSE] ELSE s

----------------------------------------------------------------------------
(* Faults: a task is cancelled while it is suspended, which finalizes its    *)
(* awaitable; the stream of an endpoint is reset, which cancels the events   *)
(* that wait there. A reset leaves a transport that is inside the stream     *)
(* with no view, so its owner resets when no transport is about to run there.*)

CancelApp(x) ==
    /\ "cancel" \in Faults /\ t.cur = "none" /\ t.app[x].st = "suspended"
    /\ t' = [Finalize(t, x, "cancelled") EXCEPT !.fault = TRUE]

CancelPump(x) ==
    /\ "cancel" \in Faults /\ t.cur = "none" /\ t.pump[x].st = "suspended"
    /\ t' = [t EXCEPT !.pump[x].st = "cancelled", !.fault = TRUE,
                      !.rview[x] = @ /\ t.pump[x].pc # "read",
                      !.wview[Peer(x)] = @ /\ t.pump[x].pc # "write"]

Reset(x) ==
    /\ "reset" \in Faults /\ t.cur = "none"
    /\ t.pump[x].pc = "read" => ~(t.pump[x].st = "ready" /\ t.pump[x].called)
    /\ t.pump[Peer(x)].pc = "write" => t.pump[Peer(x)].st # "ready"
    /\ t' = [ResetWrite(ResetRead(t, x), x) EXCEPT !.fault = TRUE]

Step(x) == \/ TlsPoll(x) \/ SslIO(x) \/ SslNext(x)
           \/ PumpRead(x) \/ BIOReadPoll(x) \/ BIOWritePoll(x)

Next == \E x \in E : \/ Step(x) \/ SslFails(x)
                     \/ CancelApp(x) \/ CancelPump(x) \/ Reset(x)

(* The loop runs every ready task.                                           *)
Fairness == \A x \in E :
    /\ WF_t(TlsPoll(x)) /\ WF_t(SslIO(x)) /\ WF_t(SslNext(x))
    /\ WF_t(PumpRead(x)) /\ WF_t(BIOReadPoll(x)) /\ WF_t(BIOWritePoll(x))

Spec == Init /\ [][Next]_t /\ Fairness

----------------------------------------------------------------------------
(* What an endpoint has received, and what its transport still holds for it, *)
(* is what the peer has sent, byte for byte: StreamBIO, BIORead and BIOWrite *)
(* lose, repeat and reorder nothing, however the views split the flights.    *)
BytesInOrder == \A x \in E : LET y == Peer(x) IN
    t.got[x] \o t.pump[y].data = [i \in 1..t.sent[y] |-> i]

(* The callback of AsyncTLS always finds its operation suspended, which it   *)
(* asserts, and no awaitable of a BIO is polled without its view.            *)
CallbackFindsOperation ==
    /\ ~t.crash
    /\ \A x \in E : (t.pending[x].in \/ t.pending[x].out) => t.app[x].st = "suspended"

(* With no fault the handshake, the exchange and the closing of both ends    *)
(* complete: transports and operations never wait for each other for ever.   *)
ExchangeCompletes == <>(t.fault \/ \A x \in E : t.app[x].st = "done")
============================================================================
