------------------------------- MODULE WebApp -------------------------------
(* WebApp, WebPage, ErrorPage (webapp.hpp) and HTTPBuilderResponse (http.hpp)*)
(* on one side of a connection, HTTPClient (client.hpp) on the other. Heads  *)
(* are sequences of tokens: the parser hands them out one by one (HttpParser *)
(* is the model of how it finds them). What a page does is user code: it     *)
(* answers, throws, redirects, early or late.                                *)
(*                                                                           *)
(* The state is one record w: s the server, c the client's place, up and     *)
(* down the tokens under way, closed who has closed its side, sent all that  *)
(* the server has sent.                                                      *)
EXTENDS Naturals, Sequences, SequencesExt, FiniteSets

CONSTANTS
    Requests,   \* heads a client may send
    WaitBuffer, \* the values of HTTPConfig::WaitBuffer considered
    MaxHops,    \* the redirections of one request considered
    DeadPage    \* what running a page that was destroyed may do: "runs", "aborts"

VARIABLE w

Builder == [buf |-> FALSE, out |-> <<>>, over |-> FALSE, conn |-> "Unknown"]

Init == \E wait \in WaitBuffer :
    w = [s |-> [pc |-> "alloc", flag |-> TRUE, conn |-> "Close", spawn |-> "none",
                kind |-> "none", page |-> "none", bufs |-> FALSE, parser |-> "none",
                mine |-> FALSE, wait |-> wait, builder |-> Builder, hops |-> 0,
                nobuf |-> FALSE],
         c |-> "alloc", up |-> <<>>, down |-> <<>>, closed |-> {}, sent |-> <<>>,
         partial |-> FALSE, swallowed |-> FALSE]

Server(s) == w' = [w EXCEPT !.s = s]
Abort(s) == [s EXCEPT !.pc = "aborted"]
Down == w.s.pc \in {"closed", "aborted"}

----------------------------------------------------------------------------
(* HTTPBuilder. A builder that was finalized has no buffer.                  *)

Write(s, what, conn) ==
    IF ~s.builder.buf THEN Abort(s)
    ELSE [s EXCEPT !.builder.out = @ \o what,
                   !.builder.conn = IF conn = "none" THEN @ ELSE conn]

(* A response line and a field; the end of a head.                           *)
WriteHead(s, conn) == Write(s, <<"line", "field">>, conn)
HeaderDone(s) == Write(s, <<"end">>, "none")

(* The head outgrows its buffer.                                             *)
Overflow(s) == [s EXCEPT !.builder.over = TRUE]

FinalizeBuilder(s) == [s EXCEPT !.builder = Builder]

----------------------------------------------------------------------------
(* WebApp.                                                                   *)

(* init: parser and builder are given the views of their buffers.            *)
InitParser(s) ==
    IF ~s.bufs THEN [Abort(s) EXCEPT !.nobuf = TRUE]
    ELSE [s EXCEPT !.parser = "start", !.builder.buf = TRUE, !.pc = "parse"]

(* WebRoute::spawn: the page is constructed at the start of the page buffer. *)
Spawn(s) == [s EXCEPT !.kind = s.spawn, !.spawn = "none", !.mine = FALSE, !.pc = "start"]

(* spawn_page. Where an older page is still there, the assignment to _page   *)
(* then destroys it, which is the same memory: the new page is the one       *)
(* destroyed.                                                                *)
SpawnPage(s) ==
    IF ~s.bufs \/ s.spawn = "none" THEN Abort(s)
    ELSE [Spawn(s) EXCEPT !.page = IF s.page = "none" THEN "live" ELSE "dead"]

(* send_error_page: only when nothing was sent and no error page was tried.  *)
SendErrorPage(s) ==
    IF s.flag THEN [s EXCEPT !.pc = "shutdown"]
    ELSE SpawnPage([s EXCEPT !.flag = TRUE, !.spawn = "error"])

(* handle_error. A page that throws leaves the stack; the parser it awaited  *)
(* was below it and is finalized.                                            *)
Leave(s) == [s EXCEPT !.parser = IF s.mine THEN "done" ELSE @]
HandleError(s, error) ==
    IF s.pc = "aborted" THEN s
    ELSE IF error = "OutOfMemory" THEN [s EXCEPT !.pc = "shutdown"] ELSE SendErrorPage(Leave(s))

(* finish: the page has returned. A redirection spawns its page; a           *)
(* connection that is kept alive gives back its buffers and starts again.    *)
Finish(s) ==
    LET f == Leave(s) IN
    IF f.spawn # "none" THEN SpawnPage(f)
    ELSE IF f.conn = "KeepAlive" THEN InitParser([f EXCEPT !.bufs = FALSE, !.page = "none"])
    ELSE [f EXCEPT !.pc = "shutdown"]

(* allocate_buffer throws when memory is short. allocate_buffer_no_error     *)
(* waits; when it was the page buffer it waited for, it goes on with         *)
(* spawn_page instead of init.                                               *)
AllocateBuffer ==
    /\ w.s.pc = "alloc"
    /\ \/ Server(InitParser([w.s EXCEPT !.bufs = TRUE]))
       \/ ~w.s.wait /\ Server(HandleError(w.s, "OutOfMemory"))
       \/ w.s.wait /\ Server(SpawnPage([w.s EXCEPT !.bufs = TRUE]))

(* The next result of the parser: a token, or the end of the stream.         *)
Arrived == w.up # <<>> \/ "client" \in w.closed
Token == IF w.up = <<>> THEN "EndOfStream" ELSE Head(w.up)
Took(s) == w' = [w EXCEPT !.s = s, !.up = IF @ = <<>> THEN @ ELSE Tail(@)]

(* pre_route: the start line names a page, or nothing.                       *)
PreRoute ==
    /\ w.s.pc = "parse" /\ Arrived
    /\ LET s == [w.s EXCEPT !.flag = FALSE] IN
       CASE Token = "page" -> Took(SpawnPage([s EXCEPT !.parser = "paused", !.spawn = "page"]))
         [] Token = "missing" -> Took(SpawnPage([s EXCEPT !.parser = "paused", !.spawn = "error"]))
         [] OTHER -> Took(SendErrorPage([s EXCEPT !.parser = "done"]))

(* A read that fails is thrown, by the parser or through the page.           *)
ReadFails ==
    /\ w.s.pc \in {"parse", "headers"} /\ w.s.parser # "done"
    /\ Server(HandleError([w.s EXCEPT !.parser = "done"], "posix"))

----------------------------------------------------------------------------
(* WebPage.                                                                  *)

Headers(s) == IF s.flag THEN [s EXCEPT !.pc = "handle"] ELSE [s EXCEPT !.pc = "headers"]

(* http_redirect: the new page, or none when the path leads nowhere.         *)
RedirectTo(s, page) == Finish([s EXCEPT !.spawn = page, !.hops = @ + 1])
MayRedirect == w.s.kind = "page" /\ w.s.hops < MaxHops

(* http_start_line; a page may redirect at once.                             *)
StartLine ==
    /\ w.s.pc = "start"
    /\ \/ "runs" \in DeadPage \/ w.s.page = "live"
    /\ \/ Server(Headers(w.s))
       \/ MayRedirect /\ \E p \in {"page", "none"} : Server(RedirectTo(w.s, p))

(* A page that spawn_page has destroyed is run: undefined.                   *)
RunDestroyed ==
    /\ w.s.pc = "start" /\ w.s.page = "dead" /\ "aborts" \in DeadPage
    /\ Server(Abort(w.s))

(* parse_header and handle_parser_result. A parser that is finalized throws. *)
ParseHeader ==
    /\ w.s.pc = "headers"
    /\ LET s == [w.s EXCEPT !.mine = TRUE] IN
       \/ s.parser = "done" /\ Server(HandleError(s, "Uninitialized"))
       \/ /\ s.parser = "paused" /\ Arrived
          /\ CASE Token \in {"Close", "KeepAlive", "Upgrade"} -> Took([s EXCEPT !.conn = Token])
               [] Token = "field" -> Took(s)
               [] Token = "end" -> Took([s EXCEPT !.parser = "done", !.pc = "handle"])
               [] OTHER -> Took(HandleError([s EXCEPT !.parser = "done"], Token))

(* A slip: what did not fit in the head is not noticed.                      *)
SendResponseUnchecked(s) ==
    [HeaderDone(s) EXCEPT !.flag = TRUE, !.pc = "send"]

(* send_response: the connection is closed unless the request or the page    *)
(* says otherwise; a head that did not fit is an error.                      *)
SendResponse(s) ==
    LET b == s.builder
        t == [s EXCEPT !.conn = IF b.conn # "Unknown" THEN b.conn
                                ELSE IF @ = "Unknown" THEN "Close" ELSE @] IN
    IF s.pc = "aborted" THEN s
    ELSE IF b.over THEN HandleError(t, "ResponseHeaderTooLarge")
    ELSE [HeaderDone(t) EXCEPT !.flag = TRUE, !.pc = "send"]

(* ErrorPage::http_handle_request.                                           *)
HandleErrorPage ==
    /\ w.s.pc = "handle" /\ w.s.kind = "error"
    /\ Server(SendResponse(WriteHead(w.s, "Close")))

(* http_handle_request of a page: it answers, with or without a Connection   *)
(* field, writes more than fits, throws before or after it wrote something,  *)
(* or redirects.                                                             *)
HandleRequest ==
    /\ w.s.pc = "handle" /\ w.s.kind = "page"
    /\ \/ \E conn \in {"none", "Close", "KeepAlive"} :
            Server(SendResponse(WriteHead(w.s, conn)))
       \/ Server(SendResponse(Overflow(Write(w.s, <<"line">>, "none"))))
       \/ Server(HandleError(w.s, "other"))
       \/ w' = [w EXCEPT !.s = HandleError(Write(w.s, <<"line">>, "none"), "other"),
                         !.partial = TRUE]
       \/ MayRedirect /\ \E p \in {"page", "none"} : Server(RedirectTo(w.s, p))

(* HTTPBuilder::_start_transfer, then the body, which the page writes itself.*)
SendHead ==
    /\ w.s.pc = "send"
    /\ \/ /\ "client" \notin w.closed
          /\ w' = [w EXCEPT !.down = @ \o w.s.builder.out, !.sent = @ \o w.s.builder.out,
                            !.s = [FinalizeBuilder(w.s) EXCEPT !.pc = "body"]]
       \/ "client" \in w.closed /\ Server(HandleError(FinalizeBuilder(w.s), "posix"))

SendBody ==
    /\ w.s.pc = "body"
    /\ \/ /\ "client" \notin w.closed
          /\ w' = [w EXCEPT !.down = Append(@, "body"), !.sent = Append(@, "body"),
                            !.s = Finish(w.s)]
       \/ Server(HandleError(w.s, "posix"))

(* The stream's shutdown: this side is closed, then it waits for the client. *)
(* One that fails is an error like any other.                                *)
Close == [w EXCEPT !.closed = @ \cup {"server"}]

Shutdown ==
    /\ w.s.pc = "shutdown" /\ Arrived
    /\ w' = [Close EXCEPT !.s.pc = "closed", !.s.bufs = FALSE, !.s.page = "none"]

ShutdownWrite ==
    /\ w.s.pc = "shutdown" /\ "server" \notin w.closed
    /\ w' = Close

ShutdownFails ==
    /\ w.s.pc = "shutdown" /\ "server" \in w.closed
    /\ Server(HandleError(w.s, "posix"))

(* A server that aborts takes the connection down.                           *)
Die == /\ w.s.pc = "aborted" /\ "server" \notin w.closed /\ w' = Close

----------------------------------------------------------------------------
(* HTTPClient: initialize, send_request, receive_response.                   *)

ClientAllocate ==
    /\ w.c = "alloc"
    /\ \/ w' = [w EXCEPT !.c = "build"]
       \/ w' = [w EXCEPT !.c = "failed", !.closed = @ \cup {"client"}]

(* send_request. A request that does not fit: the error is thrown outside of *)
(* a poll and the routine that the client's owner awaits is still that of    *)
(* initialize, so nothing is sent and nothing is reported.                   *)
SendRequest ==
    /\ w.c = "build"
    /\ \/ \E q \in Requests : w' = [w EXCEPT !.up = q, !.c = "receive"]
       \/ w' = [w EXCEPT !.swallowed = TRUE, !.c = "receive"]

ServerGone == w.down = <<>> /\ "server" \in w.closed

(* receive_response and parse_header, then the body is read.                 *)
ReceiveResponse ==
    /\ w.c \in {"receive", "body"}
    /\ \/ /\ w.down # <<>>
          /\ LET next == CASE w.c = "body" -> "done"
                           [] w.c = "receive" /\ Head(w.down) = "end" -> "body"
                           [] OTHER -> w.c
             IN w' = [w EXCEPT !.down = Tail(@), !.c = next,
                               !.closed = IF next = "done" THEN @ \cup {"client"} ELSE @]
       \/ ServerGone /\ w' = [w EXCEPT !.c = "failed", !.closed = @ \cup {"client"}]

ServerStep == \/ AllocateBuffer \/ PreRoute \/ StartLine \/ RunDestroyed \/ ParseHeader
              \/ HandleErrorPage \/ HandleRequest \/ SendHead \/ SendBody
              \/ ShutdownWrite \/ Die

ClientStep == ClientAllocate \/ SendRequest \/ ReceiveResponse

Next == ServerStep \/ ClientStep \/ ReadFails \/ Shutdown \/ ShutdownFails

(* Tasks that can run do run. A shutdown that fails is tried again at once,  *)
(* and it is the kernel that must not refuse it for ever.                    *)
Fairness == WF_w(ServerStep) /\ WF_w(ClientStep) /\ SF_w(Shutdown)

Spec == Init /\ [][Next]_w /\ Fairness

----------------------------------------------------------------------------
(* A client is sent one response at the most, whole and in order: a page     *)
(* that fails once its response is under way is not followed by an error     *)
(* page. A page that throws with a part of its head written leaves that part *)
(* in front of the head of the error page.                                   *)
OneResponse ==
    /\ ~w.partial => w.sent \in {<<>>, <<"line", "field", "end">>, <<"line", "field", "end", "body">>}
    /\ Cardinality({i \in DOMAIN w.sent : w.sent[i] = "end"}) <= 1

(* Every connection ends, whatever its page does and whatever fails, error   *)
(* pages that fail included; and the client has its answer or an error, but  *)
(* for a request that was too large and never sent.                          *)
ConnectionEnds == <>(w.swallowed \/ (Down /\ w.c \in {"done", "failed"}))

(* init() runs with its buffers allocated, as allocate_buffer_no_error       *)
(* asserts in front of it.                                                   *)
InitHasBuffers == ~w.s.nobuf
============================================================================
