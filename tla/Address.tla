------------------------------ MODULE Address -------------------------------
(* SocketAddress, AddressChecker and AddressINet (posix.hpp), and the socket *)
(* calls that read or fill an address. A SocketAddress is one memory seen as *)
(* sockaddr_in or sockaddr_in6: the family and the port lie at the same      *)
(* place in both, word is sin_addr in the one and sin6_flowinfo in the       *)
(* other, wide is sin6_addr. Lengths are those of the two structures; texts  *)
(* are the address they spell, of either family, or none.                    *)
EXTENDS Naturals

CONSTANTS Ports, Words, Wides

VARIABLE a

Zero == 0
SizeOf(f) == CASE f = "INET" -> 16 [] f = "INET6" -> 28 [] OTHER -> 0

(* reset().                                                                  *)
Blank == [family |-> "UNSPEC", port |-> Zero, word |-> Zero, wide |-> Zero, size |-> 0]

(* What a text spells.                                                       *)
Spellings == [family : {"INET"}, at : Words] \cup [family : {"INET6"}, at : Wides]
         \cup {[family |-> "none", at |-> Zero]}

(* want: the address last asked for with success; spoiled: a call has failed *)
(* since, which may have changed the family; checker: an AddressChecker is   *)
(* out, in a socket call that has not returned; bound: what bind() was       *)
(* given, for: what it was asked.                                            *)
Init == a = [addr |-> Blank, want |-> Blank, spoiled |-> FALSE, checker |-> FALSE,
             bound |-> Blank, for |-> Blank]

Named(s) == CASE s.family = "INET" -> <<"INET", s.port, s.word>>
              [] s.family = "INET6" -> <<"INET6", s.port, s.wide>>
              [] OTHER -> <<"none">>

----------------------------------------------------------------------------
(* AddressChecker::commit with AddressUnspecified: the size becomes that of  *)
(* the structure that was written.                                           *)
Commit(s, capcity) == [addr |-> [s EXCEPT !.size = capcity], status |-> "Ok"]

Fail(s, status) == [addr |-> s, status |-> status]

(* AddressINet::set_port.                                                    *)
SetPort(s, port) ==
    IF s.family \in {"INET", "INET6"} THEN Commit([s EXCEPT !.port = port], SizeOf(s.family))
    ELSE Fail(s, "UnsupportedAddressFamily")

(* A slip: the length is that of sockaddr_in for both families.              *)
SetAddressShort(s, text) ==
    LET four == [s EXCEPT !.family = "INET"]
        six == [s EXCEPT !.family = "INET6"] IN
    CASE text.family = "INET" -> Commit([four EXCEPT !.word = text.at], SizeOf("INET"))
      [] text.family = "INET6" -> Commit([six EXCEPT !.wide = text.at], SizeOf("INET"))
      [] OTHER -> Fail(six, "InvalidAddress")

(* AddressINet::set_address tries IPv4, then IPv6; the family is written     *)
(* before the text is read.                                                  *)
SetAddress(s, text) ==
    LET four == [s EXCEPT !.family = "INET"]
        six == [s EXCEPT !.family = "INET6"] IN
    CASE text.family = "INET" -> Commit([four EXCEPT !.word = text.at], SizeOf("INET"))
      [] text.family = "INET6" -> Commit([six EXCEPT !.wide = text.at], SizeOf("INET6"))
      [] OTHER -> Fail(six, "InvalidAddress")

(* AddressINet::set_address_port.                                            *)
SetAddressPort(s, text, port) ==
    LET r == SetAddress(s, text) IN IF r.status # "Ok" THEN r ELSE SetPort(r.addr, port)

(* AddressINet::set_raw: bytes of a length that fits the family or not.      *)
SetRaw(s, family, at, fits, port) ==
    LET f == [s EXCEPT !.family = family] IN
    CASE family \notin {"INET", "INET6"} -> Fail(f, "UnsupportedAddressFamily")
      [] family \in {"INET", "INET6"} /\ ~fits -> Fail(f, "InvalidAddress")
      [] family = "INET" /\ fits -> Commit([f EXCEPT !.port = port, !.word = at], SizeOf("INET"))
      [] family = "INET6" /\ fits -> Commit([f EXCEPT !.port = port, !.wide = at], SizeOf("INET6"))

(* AddressINet::compare: IPv6 addresses never compare equal.                 *)
Compare(s, t) == /\ s.family = t.family /\ s.family = "INET"
                 /\ s.word = t.word /\ s.port = t.port

(* AddressINet::get_port, get_address_string.                                *)
GetPort(s) == IF s.family \in {"INET", "INET6"} THEN <<s.port>> ELSE <<>>

(* AddressINet::check.                                                       *)
Check(s) == s.family \in {"INET", "INET6"} /\ s.size = SizeOf(s.family)

----------------------------------------------------------------------------
Quiet == ~a.checker

(* A call returns. set_port keeps the rest of the address as it is.          *)
Done(r, want, all) ==
    a' = IF r.status = "Ok" THEN [a EXCEPT !.addr = r.addr, !.want = want, !.spoiled = @ /\ ~all]
         ELSE [a EXCEPT !.addr = r.addr, !.spoiled = TRUE]

Wanted(family, at, port) ==
    [Blank EXCEPT !.family = family, !.port = port, !.size = SizeOf(family),
                  !.word = IF family = "INET" THEN at ELSE Zero,
                  !.wide = IF family = "INET6" THEN at ELSE Zero]

Clear == Quiet /\ a' = [a EXCEPT !.addr = Blank, !.want = Blank, !.spoiled = FALSE]

PortCall(port) == /\ Quiet
                  /\ Done(SetPort(a.addr, port), [a.want EXCEPT !.port = port], FALSE)

AddressCall(text) ==
    /\ Quiet /\ Done(SetAddress(a.addr, text), Wanted(text.family, text.at, a.addr.port), TRUE)

AddressPortCall(text, port) ==
    /\ Quiet /\ Done(SetAddressPort(a.addr, text, port), Wanted(text.family, text.at, port), TRUE)

RawCall(family, at, fits, port) ==
    /\ Quiet /\ Done(SetRaw(a.addr, family, at, fits, port), Wanted(family, at, port), TRUE)

(* Socket::bind of a text: the status is ignored, what set_address_port      *)
(* left is bound.                                                            *)
Bind(text, port) == /\ Quiet
                    /\ a' = [a EXCEPT !.bound = SetAddressPort(Blank, text, port).addr,
                                      !.for = Wanted(text.family, text.at, port)]

(* PosixRecvFrom, get_socket_name, get_peer_name: a checker is out while the *)
(* call is under way; the kernel fills the address and its length.           *)
Ask == Quiet /\ a' = [a EXCEPT !.checker = TRUE]

Answer(text, port) ==
    /\ a.checker /\ text.family # "none"
    /\ LET w == Wanted(text.family, text.at, port) IN
       a' = [a EXCEPT !.addr = Commit(w, SizeOf(text.family)).addr, !.want = w,
                      !.spoiled = FALSE, !.checker = FALSE]

(* The call fails. PosixRecvFrom is reset by an assignment, which does not   *)
(* look at the checker; get_socket_name destroys it unchecked, which a debug *)
(* build asserts against.                                                    *)
Refused == a.checker /\ a' = [a EXCEPT !.checker = FALSE]

Next ==
    \/ Clear \/ Ask \/ Refused
    \/ \E port \in Ports : PortCall(port)
    \/ \E text \in Spellings : AddressCall(text)
    \/ \E text \in Spellings, port \in Ports :
         AddressPortCall(text, port) \/ Bind(text, port) \/ Answer(text, port)
    \/ \E fits \in BOOLEAN, port \in Ports :
         \/ \E at \in Words : RawCall("INET", at, fits, port) \/ RawCall("UNIX", at, fits, port)
         \/ \E at \in Wides : RawCall("INET6", at, fits, port)

Spec == Init /\ [][Next]_a

----------------------------------------------------------------------------
(* Calls that return Ok leave the address they were given, with the length  *)
(* of its family, whatever the memory held before; its port can be read back *)
(* and an IPv4 address equals itself. Once a call has failed that is so      *)
(* again only after a call that gives the whole address. What bind() gets is *)
(* what its text spells, or has no length.                                   *)
AddressSound ==
    /\ ~a.spoiled /\ a.want.size > 0 =>
         /\ Named(a.addr) = Named(a.want) /\ Check(a.addr)
         /\ GetPort(a.addr) = <<a.want.port>>
         /\ a.addr.family = "INET" => Compare(a.addr, a.want)
    /\ a.bound.size > 0 => Named(a.bound) = Named(a.for) /\ Check(a.bound)
============================================================================
