----------------------------- MODULE HttpParser -----------------------------
(* HTTPParser (http.hpp): a request or response head is parsed from a view   *)
(* that a stream fills by reads of any size. The parser rescans the view     *)
(* after each read, pauses at the start line and at each field, and its      *)
(* owner awaits it again. A byte is a letter "c" or one of the bytes the     *)
(* parser tells apart; a slice handed out is the bytes it shows.             *)
EXTENDS Naturals, Sequences

CONSTANTS
    Messages,   \* what the stream may carry, then its end
    Memories,   \* sizes of the view's memory
    MaxRead,    \* the most bytes one read returns
    Prefetched  \* how many bytes the view may hold when the parser starts

VARIABLE h

Min2(a, b) == IF a < b THEN a ELSE b
Range2(s, i, j) == SubSeq(s, i, j - 1)      \* the bytes from i up to before j
IsSpace(c) == c \in {" ", "CR", "LF"}

(* std::find and std::find_if_not, from position i to the end.               *)
Find(s, i, c) ==
    IF \E j \in i..Len(s) : s[j] = c
    THEN CHOOSE j \in i..Len(s) : s[j] = c /\ \A k \in i..(j-1) : s[k] # c
    ELSE Len(s) + 1
FindNot(s, i, c) ==
    IF \E j \in i..Len(s) : s[j] # c
    THEN CHOOSE j \in i..Len(s) : s[j] # c /\ \A k \in i..(j-1) : s[k] = c
    ELSE Len(s) + 1

(* What a parsing step finds: its result, the view (folding rewrites it),    *)
(* the bytes it consumes and the slices it hands out.                        *)
Found(res, b, n, slices) == [res |-> res, buf |-> b, n |-> n, slices |-> slices]
More(b) == Found("more", b, 0, <<>>)
Bad(b, n) == Found("BadRequest", b, n, <<>>)

SkipCRLF(s) == IF Len(s) >= 2 /\ s[1] = "CR" /\ s[2] = "LF" THEN SubSeq(s, 3, Len(s)) ELSE s

(* Three parts split at spaces up to a CR, then LF and a byte that is no     *)
(* white space; a line break before the first part is dropped.               *)
ParseStartLine(b) ==
    LET e1 == Find(b, 1, " ")
        b2 == FindNot(b, e1, " ")
        e2 == Find(b, b2, " ")
        b3 == FindNot(b, e2, " ")
        e3 == Find(b, b3, "CR")
    IN IF e3 + 3 > Len(b) + 1 THEN More(b)
       ELSE IF b[e3 + 1] # "LF" \/ IsSpace(b[e3 + 2]) THEN Bad(b, 0)
       ELSE Found("StartLine", b, e3 + 1,
                  <<SkipCRLF(Range2(b, 1, e1)), Range2(b, b2, e2), Range2(b, b3, e3)>>)

Trim(s) ==
    LET text == {i \in 1..Len(s) : ~IsSpace(s[i])}
    IN IF text = {} THEN <<>>
       ELSE SubSeq(s, CHOOSE i \in text : \A j \in text : i <= j,
                      CHOOSE i \in text : \A j \in text : i >= j)

(* A slip: a line that ends with the view is taken for the whole field.      *)
RECURSIVE EndOfValueEager(_, _)
EndOfValueEager(b, from) ==
    LET v == Find(b, from, "CR") IN
    IF v >= Len(b) THEN [res |-> "more", buf |-> b, v |-> v]
    ELSE IF b[v + 1] # "LF" THEN [res |-> "BadRequest", buf |-> b, v |-> v]
    ELSE IF v + 2 <= Len(b) /\ b[v + 2] = " "
    THEN EndOfValueEager([b EXCEPT ![v] = " ", ![v + 1] = " ", ![v + 2] = " "], v + 3)
    ELSE [res |-> "end", buf |-> b, v |-> v]

(* The CR that ends a field's value: a line break before a space is folded,  *)
(* that is overwritten with spaces, in the view.                             *)
RECURSIVE EndOfValue(_, _)
EndOfValue(b, from) ==
    LET v == Find(b, from, "CR") IN
    IF v >= Len(b) THEN [res |-> "more", buf |-> b, v |-> v]
    ELSE IF b[v + 1] # "LF" THEN [res |-> "BadRequest", buf |-> b, v |-> v]
    ELSE IF v + 2 = Len(b) + 1 THEN [res |-> "more", buf |-> b, v |-> v]
    ELSE IF b[v + 2] = " "
    THEN EndOfValue([b EXCEPT ![v] = " ", ![v + 1] = " ", ![v + 2] = " "], v + 3)
    ELSE [res |-> "end", buf |-> b, v |-> v]

(* A field ends with a line break that a further byte shows not to be        *)
(* folded; its name may not end with white space.                            *)
ParseHeader(b) ==
    LET colon == Find(b, 1, ":")
        e == EndOfValue(b, colon)
        name == Range2(b, 1, colon)
    IN IF Len(b) < 2 THEN More(b)
       ELSE IF b[1] = "CR" /\ b[2] = "LF" THEN Found("Complete", b, 2, <<>>)
       ELSE IF e.res = "more" THEN More(e.buf)
       ELSE IF e.res = "BadRequest" THEN Bad(e.buf, 0)
       ELSE IF name # <<>> /\ IsSpace(name[Len(name)]) THEN Bad(e.buf, e.v + 1)
       ELSE Found("Header", e.buf, e.v + 1, <<name, Trim(Range2(e.buf, colon + 1, e.v))>>)

Parse(state, b) == IF state = "StartLine" THEN ParseStartLine(b) ELSE ParseHeader(b)

----------------------------------------------------------------------------
(* initialize: the parser starts with a read unless the view holds bytes.    *)
Init == \E m \in Messages, mem \in Memories, n \in Prefetched :
    /\ n <= Min2(Len(m), mem)
    /\ h = [msg |-> m, mem |-> mem, pos |-> n, buf |-> SubSeq(m, 1, n), end |-> n,
            state |-> "StartLine", pc |-> IF n = 0 THEN "read" ELSE "parse", out |-> <<>>]

Result(s, res, slices) == [s EXCEPT !.out = Append(@, [res |-> res, slices |-> slices])]

(* handle_error: the end of the stream is a result.                          *)
EndOfStream(s) == [Result(s, "EndOfStream", <<>>) EXCEPT !.pc = "done"]

(* read_more: the view's memory is never used again for later bytes.         *)
ReadMore ==
    /\ h.pc = "read"
    /\ IF h.end = h.mem THEN h' = [Result(h, "EntityTooLarge", <<>>) EXCEPT !.pc = "done"]
       ELSE IF h.pos = Len(h.msg) THEN h' = EndOfStream(h)
       ELSE \E n \in 1..MaxRead :
            /\ n <= Min2(h.mem - h.end, Len(h.msg) - h.pos)
            /\ h' = [h EXCEPT !.buf = @ \o SubSeq(h.msg, h.pos + 1, h.pos + n),
                              !.pos = @ + n, !.end = @ + n, !.pc = "parse"]

(* parse, and the pause after a start line or a field.                       *)
DoParse ==
    /\ h.pc = "parse"
    /\ LET p == Parse(h.state, h.buf)
           s == [h EXCEPT !.buf = SubSeq(p.buf, p.n + 1, Len(p.buf))] IN
       IF p.res = "more" THEN h' = [s EXCEPT !.pc = "read"]
       ELSE h' = [Result(s, p.res, p.slices) EXCEPT
                    !.state = "Header",
                    !.pc = IF p.res \in {"StartLine", "Header"} THEN "parse" ELSE "done"]

Next == ReadMore \/ DoParse

Spec == Init /\ [][Next]_h

----------------------------------------------------------------------------
(* What the parser reports when all the bytes that the view can hold are     *)
(* there from the start.                                                     *)
RECURSIVE Whole(_, _, _)
Whole(state, b, full) ==
    LET p == Parse(state, b) IN
    IF p.res = "more"
    THEN <<[res |-> IF full THEN "EntityTooLarge" ELSE "EndOfStream", slices |-> <<>>]>>
    ELSE <<[res |-> p.res, slices |-> p.slices]>> \o
         IF p.res \in {"StartLine", "Header"}
         THEN Whole("Header", SubSeq(p.buf, p.n + 1, Len(p.buf)), full) ELSE <<>>

(* What is parsed does not depend on how the stream was cut into reads: the  *)
(* rescans, the bytes looked at ahead and the folding done in place give the *)
(* results of a parse of the whole head.                                     *)
CutsDoNotMatter ==
    LET all == Whole("StartLine", SubSeq(h.msg, 1, Min2(h.mem, Len(h.msg))), Len(h.msg) >= h.mem)
    IN /\ h.out = SubSeq(all, 1, Len(h.out))
       /\ h.pc = "done" => h.out = all
============================================================================
