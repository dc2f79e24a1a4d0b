------------------------------- MODULE MCNet --------------------------------
(* The event engine, the streams and what is built on them, side by side:    *)
(* operations that wait for events, TLS over BIOs, plain sockets, the HTTP   *)
(* parser and builder, the routes of a WebApp, and a WebApp with its client. *)
(* A behaviour is one of one part, chosen in the initial state; the          *)
(* variables of the other parts do not change.                               *)
EXTENDS Tls

CONSTANTS
    Total, Pipe, View,                              \* StreamSocket
    Messages, Memories, MaxRead, Prefetched,        \* HttpParser
    HeadKinds, Sizes, Names, Values, MaxFields,     \* HttpBuilder
    Trees, Paths, RootSize, ErrorSize,              \* WebRoute
    Requests, WaitBuffer, MaxHops, DeadPage,        \* WebApp
    IOs, Ops, Sleeps, Lookups, Plain, Signals, SignalKinds, PollFlags, Syscalls \* EventIO

VARIABLES k, h, g, r, w, e, part

Socket == INSTANCE StreamSocket
Parser == INSTANCE HttpParser
Builder == INSTANCE HttpBuilder
Routes == INSTANCE WebRoute
App == INSTANCE WebApp
Events == INSTANCE EventIO

MCScript == [client |-> <<"connect", "write", "read", "shutdown">>,
             server |-> <<"accept", "read", "write", "shutdown">>]

(* Polls that block, that never do, and that stay without an event, each     *)
(* with one operation and one kind of signal.                                *)
Blocking == [pf |-> {}, op |-> "recv", kind |-> "simple"]
EventCases ==
    {Blocking, [pf |-> {"NONBLOCK"}, op |-> "recv", kind |-> "functional"],
     [pf |-> {"NO_EXIT_ON_EMPTY"}, op |-> "connect", kind |-> "functional"]}
MCPollFlags == {c.pf : c \in EventCases}

(* Heads: every field line of up to four bytes, and longer ones.             *)
StartLine == <<"c", " ", "c", " ", "c", "CR", "LF">>
Field == <<"c", ":", "c", "CR", "LF">>
EndOfHead == <<"CR", "LF">>
Bytes == {"c", " ", ":", "CR", "LF"}
MCMessages ==
    {StartLine \o s \o <<"CR", "LF">> \o EndOfHead :
        s \in UNION {[1..n -> Bytes] : n \in 0..4}}
    \cup {
    StartLine \o Field \o EndOfHead \o <<"c", "c">>,
    EndOfHead \o StartLine \o <<"c", ":", " ", "c", "CR", "LF", " ", "c", " ", "CR", "LF">> \o EndOfHead,
    StartLine \o Field \o <<"c", ":", "CR", "LF", " ", "CR", "LF", " ", "c", "CR", "LF">> \o EndOfHead,
    StartLine \o <<"c", "CR", "LF">> \o Field \o EndOfHead,
    <<"c", " ", "c", "CR", "LF">> \o Field \o Field \o EndOfHead,
    <<"c", " ", "c", " ", "c", "CR", "c">> \o Field \o EndOfHead,
    StartLine \o <<"c", ":", "c", "CR">>, <<"c", " ">>, <<>>}

MCNames == {<<"c">>, <<"Connection">>, <<"Agent">>}
MCValues == {<<"c", " ", "c">>, <<"close">>, <<"keep-alive">>, <<>>}

(* Trees of up to two levels, and one chain of three.                        *)
Node(name, size, kids) == [name |-> name, size |-> size, kids |-> kids]
Leaf(name, size) == Node(name, size, <<>>)
Kids == {<<>>, <<Leaf(":", 3)>>, <<Leaf("a", 1), Leaf(":", 2)>>}
MCTrees ==
    {<<Node(n, 1, k1)>> : n \in {"a", ":"}, k1 \in Kids} \cup
    {<<Node("a", 1, k1), Node(n, 2, k2)>> : n \in {"b", ":"}, k1 \in Kids, k2 \in Kids} \cup
    {<<Leaf("a", 1), Leaf("b", 1), Node(":", 1, kids)>> : kids \in Kids} \cup
    {<<Node("a", 1, <<Node("b", 2, <<Leaf(":", 4)>>)>>)>>}
MCPaths == UNION {[1..n -> {"a", "b"}] : n \in 0..3}

MCRequests ==
    {<<"page", "field", "KeepAlive", "end">>, <<"page", "Close", "end">>,
     <<"page", "Upgrade", "end">>, <<"missing", "end">>, <<"page", "page">>,
     <<"page", "BadRequest">>, <<"page", "EntityTooLarge">>,
     <<"BadRequest">>, <<"EntityTooLarge">>}

Idle == "idle"
Parts == {"tls", "socket", "parser", "builder", "routes", "app", "events"}

MCInit ==
    /\ part \in Parts
    /\ Init /\ Socket!Init /\ App!Init /\ (part # "app" => w.s.wait)
    /\ IF part = "parser" THEN Parser!Init ELSE h = Idle
    /\ IF part = "builder" THEN Builder!Init ELSE g = Idle
    /\ IF part = "routes" THEN Routes!Init ELSE r = Idle
    /\ Events!Init
    /\ \E c \in EventCases : /\ part # "events" => c = Blocking
                            /\ e.pf = c.pf /\ \A a \in IOs : e.op[a] = c.op
                            /\ \A x \in Signals : e.kind[x] = c.kind

MCNext ==
    \/ part = "tls" /\ Next /\ UNCHANGED <<k, h, g, r, w, e, part>>
    \/ part = "socket" /\ Socket!Next /\ UNCHANGED <<t, h, g, r, w, e, part>>
    \/ part = "parser" /\ Parser!Next /\ UNCHANGED <<t, k, g, r, w, e, part>>
    \/ part = "builder" /\ Builder!Next /\ UNCHANGED <<t, k, h, r, w, e, part>>
    \/ part = "routes" /\ Routes!Next /\ UNCHANGED <<t, k, h, g, w, e, part>>
    \/ part = "app" /\ App!Next /\ UNCHANGED <<t, k, h, g, r, e, part>>
    \/ part = "events" /\ Events!Next /\ UNCHANGED <<t, k, h, g, r, w, part>>

MCSpec == MCInit /\ [][MCNext]_<<t, k, h, g, r, w, e, part>>

(* Events: no event outlives its handle, no handle its wait.                 *)
NoDanglingEvent == Events!NoDanglingEvent

(* Events: a task that sleeps in an operation has the event that wakes it.   *)
SuspendedHasEvent == Events!SuspendedHasEvent

(* Events: the loop blocks with work only after one race of wakeup().        *)
BlocksOnlyWithoutWork == Events!BlocksOnlyWithoutWork

(* Events: callbacks that are due run, though every wake-up breaks the loop. *)
DueCallbacksRun == part = "events" /\ Events!Fairness => Events!DueCallbacksRun

(* Sockets: the receiver holds a prefix of what was written and takes the    *)
(* stream for ended only with all of it (StreamSend, StreamRecv).            *)
StreamExact == Socket!StreamExact

(* Heads: the results do not depend on how the stream was cut into reads     *)
(* (HTTPParser), and a head that HTTPBuilder sends is whole and reads back.  *)
HeadsSound == /\ part = "parser" => Parser!CutsDoNotMatter
              /\ part = "builder" => Builder!HeadWhole

(* Pages: the buffer of a WebApp holds every page that a route leads to      *)
(* (CalculateBufferSize).                                                    *)
PagesFit == part = "routes" => Routes!PagesFit

(* Pages: the assertion of WebRoute::spawn, that the slot array the compiler *)
(* sized has room for every slot on the route.                               *)
SlotsInRange == part = "routes" => Routes!SlotsInRange

(* WebApp: a client is sent one response at the most, whole and in order     *)
(* (send_response, send_error_page).                                         *)
OneResponse == App!OneResponse

(* WebApp: init() runs with its buffers allocated, as                        *)
(* allocate_buffer_no_error asserts in front of it.                          *)
InitHasBuffers == App!InitHasBuffers

(* TLS without a fault: handshake, exchange and closing complete, transports *)
(* and operations never wait for each other for ever. Sockets: transfer and  *)
(* shutdowns complete, or fail with the connection. WebApp: every connection *)
(* ends, and its client has an answer or an error.                           *)
NetCompletes == /\ part = "tls" /\ Fairness => ExchangeCompletes
                /\ part = "socket" /\ Socket!Fairness => Socket!TransferEnds
                /\ part = "app" /\ App!Fairness => App!ConnectionEnds
============================================================================
