---------------------------- MODULE HttpBuilder -----------------------------
(* HTTPBuilder, HTTPBuilderRequest and HTTPBuilderResponse (http.hpp): a     *)
(* head is written piece by piece through an ostream into the memory of a    *)
(* view. A byte is a letter, a separator, or a word the builder or the       *)
(* parser knows ("Connection", "Agent", "close", "keep-alive", ...).         *)
(*                                                                           *)
(* The state is one record g: buf the bytes in the view, bad the badbit of   *)
(* the ostream, over the flag _overflow, agent that the head names its       *)
(* sender itself (_use_custom_server_name, _use_custom_user_agent), conn the *)
(* connection state found, wrote what the owner asked to be written.         *)
EXTENDS Naturals, Sequences

CONSTANTS
    HeadKinds,  \* "request", "response"
    Sizes,      \* sizes of the view's memory
    Names,      \* names of fields
    Values,     \* their values
    MaxFields   \* the most fields its owner writes in a head

VARIABLE g

Parser == INSTANCE HttpParser
            WITH h <- g, Messages <- {}, Memories <- {}, MaxRead <- 0, Prefetched <- {}

Init == \E k \in HeadKinds, n \in Sizes :
    g = [kind |-> k, mem |-> n, buf |-> <<>>, bad |-> FALSE, over |-> FALSE, agent |-> FALSE,
         conn |-> "Unknown", wrote |-> <<>>, pc |-> "line", used |-> 0]

----------------------------------------------------------------------------
(* xsputn and overflow, below an ostream that is bad from the first short    *)
(* write on and then writes nothing.                                         *)
Put(s, bytes) ==
    LET n == Parser!Min2(Len(bytes), s.mem - Len(s.buf)) IN
    IF s.bad THEN s
    ELSE [s EXCEPT !.buf = @ \o SubSeq(bytes, 1, n), !.over = @ \/ n < Len(bytes),
                   !.bad = n < Len(bytes)]

CRLF == <<"CR", "LF">>

(* field_begin, the value, field_end of the HeaderLine: the connection state *)
(* is that of the value as it stands in the view.                            *)
ConnectionState(value) == CASE value = <<"close">> -> "Close"
                            [] value = <<"keep-alive">> -> "KeepAlive"
                            [] value = <<"upgrade">> -> "Upgrade"
                            [] OTHER -> "Unknown"

FieldBegin(s, name) ==
    [Put(Put(s, name), <<":", " ">>) EXCEPT !.agent = @ \/ name = <<"Agent">>]

FieldEnd(s, name, from) ==
    IF name # <<"Connection">> THEN s
    ELSE [s EXCEPT !.conn = ConnectionState(SubSeq(s.buf, from + 1, Len(s.buf)))]

HeaderLine(s, name, value) ==
    LET begun == FieldBegin(s, name)
    IN Put(FieldEnd(Put(begun, value), name, Len(begun.buf)), CRLF)

(* RequestLine and ResponseLine: the destructor ends the line.               *)
RequestLine(s, target) ==
    Put(Put(Put(Put(s, <<"c">>), <<" ">>), target), <<" ", "c">> \o CRLF)
ResponseLine(s, reason) ==
    Put(Put(Put(s, <<"c", " ", "c", " ">>), reason), CRLF)

(* write_header_done of both: the sender is named unless the owner did.      *)
WriteHeaderDone(s) ==
    LET named == IF s.agent THEN s ELSE Put(s, <<"Agent", ":", " ", "jinx">> \o CRLF)
    IN Put(named, CRLF)

(* async_finalize after a head that was sent; the ostream is not cleared.    *)
Finalize(s) == [s EXCEPT !.over = FALSE, !.agent = FALSE, !.conn = "Unknown"]

----------------------------------------------------------------------------
WriteLine ==
    /\ g.pc = "line"
    /\ LET s == [g EXCEPT !.wrote = <<[res |-> "StartLine", slices |-> <<<<"c">>, <<"c">>, <<"c">>>>]>>,
                          !.pc = "fields"]
       IN g' = IF g.kind = "request" THEN RequestLine(s, <<"c">>) ELSE ResponseLine(s, <<"c">>)

WriteField(name, value) ==
    /\ g.pc = "fields" /\ Len(g.wrote) <= MaxFields
    /\ g' = HeaderLine([g EXCEPT !.wrote = Append(@, [res |-> "Header", slices |-> <<name, value>>])],
                       name, value)

(* send_request, send_response: a head that is not whole is not sent.        *)
Send ==
    /\ g.pc = "fields"
    /\ LET s == WriteHeaderDone(g)
       IN g' = [s EXCEPT !.pc = IF s.over THEN "failed" ELSE "sent"]

(* The next head of the same builder, in the memory of another view.         *)
Reuse ==
    /\ g.pc \in {"sent", "failed"} /\ g.used = 0
    /\ \E n \in Sizes :
         g' = [IF g.pc = "sent" THEN Finalize(g) ELSE g
                  EXCEPT !.mem = n, !.buf = <<>>, !.wrote = <<>>, !.pc = "line", !.used = 1]

Next == WriteLine \/ (\E n \in Names, v \in Values : WriteField(n, v)) \/ Send \/ Reuse

Spec == Init /\ [][Next]_g

----------------------------------------------------------------------------
(* What the parser of the other side must find in a head.                    *)
Pieces == g.wrote \o (IF g.agent THEN <<>>
                      ELSE <<[res |-> "Header", slices |-> <<<<"Agent">>, <<"jinx">>>>]>>)
                  \o <<[res |-> "Complete", slices |-> <<>>]>>

Connections == SelectSeq(g.wrote, LAMBDA p : p.slices[1] = <<"Connection">>)

(* A head that is sent is the whole head: HTTPParser finds in it the line    *)
(* and the fields that were written, no more and no less, also when the      *)
(* builder is used again, after an overflow too; and the connection state of *)
(* the builder is that of the last Connection field.                         *)
HeadWhole ==
    g.pc = "sent" =>
        /\ Parser!Whole("StartLine", g.buf, FALSE) = Pieces
        /\ g.conn = IF Connections = <<>> THEN "Unknown"
                    ELSE ConnectionState(Connections[Len(Connections)].slices[2])
============================================================================
