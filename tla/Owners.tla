------------------------------- MODULE Owners -------------------------------
(* The classes that own something: IOHandle and Socket (a descriptor),       *)
(* JINX_RAII_SIMPLE_OBJECT and PointerAutoDestructor (an object, alone),     *)
(* JINX_RAII_SHARED_OBJECT, JINX_OPENSSL_OBJECT and PointerShared (a counted *)
(* object). A behaviour is one of a single class. Slots are the variables of *)
(* a program; raw pointers and descriptors may be in its hands too. Another  *)
(* thread opens and closes descriptors, and the kernel hands out any free    *)
(* number.                                                                   *)
EXTENDS Naturals, FiniteSets

CONSTANTS Slots, Objects, Kinds, Null, Unborn

(* The classes there are, and a program has finitely many variables.         *)
Apart == /\ Null \notin Objects /\ Unborn \notin Objects /\ Null # Unborn
         /\ Kinds \subseteq {"handle", "simple", "auto", "shared", "openssl", "pointer"}
         /\ IsFiniteSet(Slots)

VARIABLE o

Counted == {"shared", "openssl", "pointer"}

(* refs: descriptors that are open, objects and their counters; raw: those a *)
(* program holds a bare reference to; other: descriptors of the other        *)
(* thread; fd: the descriptor reset() is closing, err: that errno was EINTR  *)
(* in this loop. What may go wrong: bad: an object used after its end; self: *)
(* an owner of kind "shared" was assigned to itself; intr: a close() was     *)
(* interrupted; robbed: descriptors of the other thread closed by this one.  *)
Init == \E k \in Kinds :
    o = [kind |-> k, ptr |-> [x \in Slots |-> Unborn], refs |-> [p \in Objects |-> 0],
         raw |-> {}, other |-> {}, fd |-> Null, err |-> FALSE,
         bad |-> FALSE, self |-> FALSE, intr |-> FALSE, robbed |-> {}]

Quiet == o.fd = Null
Lives(x) == o.ptr[x] # Unborn

----------------------------------------------------------------------------
(* The end of one reference: __free, ~T(), or __unref.                       *)
Unref(s, p) == [s EXCEPT !.refs[p] = IF @ = 0 THEN 0 ELSE @ - 1, !.bad = @ \/ s.refs[p] = 0]

(* PointerShared::ref, __ref.                                                *)
Ref(s, p) == IF p = Null THEN s
             ELSE [s EXCEPT !.refs[p] = @ + 1, !.bad = @ \/ s.refs[p] = 0]

(* IOHandle::reset enters its loop; what follows does not depend on it.      *)
ResetHandle(s, x) == [s EXCEPT !.fd = s.ptr[x], !.err = FALSE, !.ptr[x] = Null]

(* reset() of JINX_RAII_SIMPLE_OBJECT.                                       *)
ResetSimple(s, x) == [Unref(s, s.ptr[x]) EXCEPT !.ptr[x] = Null]

(* unref() of JINX_RAII_SHARED_OBJECT: the pointer stays.                    *)
UnrefShared(s, x) == Unref(s, s.ptr[x])

(* free() of JINX_OPENSSL_OBJECT, and reset().                               *)
FreeOpenSSL(s, x) == [Unref(s, s.ptr[x]) EXCEPT !.ptr[x] = Null]

(* PointerShared::unref: the pointer goes with the last reference only.      *)
UnrefPointer(s, x) ==
    [Unref(s, s.ptr[x]) EXCEPT !.ptr[x] = IF s.refs[s.ptr[x]] = 1 THEN Null ELSE @]

(* PointerAutoDestructor::reset, before it takes the new pointer.            *)
ResetAuto(s, x) == Unref(s, s.ptr[x])

Drop(s, x) ==
    IF s.ptr[x] = Null THEN s
    ELSE CASE s.kind = "handle" -> ResetHandle(s, x)
           [] s.kind = "simple" -> ResetSimple(s, x)
           [] s.kind = "auto" -> ResetAuto(s, x)
           [] s.kind = "shared" -> UnrefShared(s, x)
           [] s.kind = "openssl" -> FreeOpenSSL(s, x)
           [] s.kind = "pointer" -> UnrefPointer(s, x)

----------------------------------------------------------------------------
(* The program opens a descriptor or makes an object.                        *)
New(p) == /\ Quiet /\ o.refs[p] = 0
          /\ o' = [o EXCEPT !.refs[p] = 1, !.raw = @ \cup {p}]

(* An owner is made, of nothing or of what the program holds.                *)
Construct(x, p) == /\ Quiet /\ ~Lives(x) /\ p \in o.raw \cup {Null}
                   /\ o' = [o EXCEPT !.ptr[x] = p, !.raw = @ \ {p}]

MoveConstruct(x, y) == /\ Quiet /\ ~Lives(x) /\ Lives(y)
                       /\ o' = [o EXCEPT !.ptr[x] = o.ptr[y], !.ptr[y] = Null]

(* A slip: the old descriptor, or object, is overwritten.                    *)
MoveAssignOver(x, y) == /\ Quiet /\ Lives(x) /\ Lives(y) /\ x # y
                        /\ o' = [o EXCEPT !.ptr[x] = o.ptr[y], !.ptr[y] = Null]

(* operator=(&&) lets go of what x has, then takes what y has. y may be x:   *)
(* release() clears it before x is written in JINX_RAII_SHARED_OBJECT and    *)
(* JINX_OPENSSL_OBJECT, all others clear it afterwards.                      *)
TakeReleased(d, x, y) == [d EXCEPT !.ptr = [@ EXCEPT ![y] = Null, ![x] = d.ptr[y]]]

MoveAssign(x, y) ==
    /\ Quiet /\ Lives(x) /\ Lives(y)
    /\ LET d == Drop(o, x) IN
       o' = CASE o.kind = "shared" -> [TakeReleased(d, x, y) EXCEPT !.self = @ \/ x = y]
              [] o.kind = "openssl" -> TakeReleased(d, x, y)
              [] OTHER -> [d EXCEPT !.ptr = [@ EXCEPT ![x] = d.ptr[y], ![y] = Null]]

(* operator=(const &): unref, then ref, also when y is x; what free() has    *)
(* emptied is then copied empty.                                             *)
CopyOf(s, x, y) == [Ref(s, s.ptr[y]) EXCEPT !.ptr[x] = s.ptr[y]]

CopyConstruct(x, y) == /\ Quiet /\ o.kind \in Counted /\ ~Lives(x) /\ Lives(y)
                       /\ o' = CopyOf(o, x, y)

CopyAssign(x, y) ==
    /\ Quiet /\ o.kind \in Counted /\ Lives(x) /\ Lives(y)
    /\ o' = [CopyOf(Drop(o, x), x, y) EXCEPT !.self = @ \/ (o.kind = "shared" /\ x = y)]

(* reset(p), operator=(ObjectType * ).                                       *)
Reset(x, p) == /\ Quiet /\ Lives(x) /\ p \in o.raw \cup {Null}
               /\ o' = [Drop(o, x) EXCEPT !.ptr[x] = p, !.raw = @ \ {p}]

(* Socket::create: the new socket is opened before the old one is closed;    *)
(* a failure leaves an invalid handle.                                       *)
Create(x, p) ==
    /\ Quiet /\ o.kind = "handle" /\ Lives(x)
    /\ \/ o.refs[p] = 0 /\ o' = [Drop(o, x) EXCEPT !.ptr[x] = p, !.refs[p] = 1]
       \/ o' = [Drop(o, x) EXCEPT !.ptr[x] = Null]

(* release(); at most one bare reference to an object is kept.              *)
Release(x) == /\ Quiet /\ Lives(x) /\ o.ptr[x] \notin o.raw /\ o.kind # "auto"
              /\ o' = [o EXCEPT !.ptr[x] = Null, !.raw = (@ \cup {o.ptr[x]}) \ {Null}]

(* PointerShared::shared_from_this of an object some owner holds.            *)
SharedFromThis(x, y) == /\ Quiet /\ o.kind = "pointer" /\ ~Lives(x) /\ Lives(y) /\ o.ptr[y] # Null
                        /\ o' = CopyOf(o, x, y)

(* The destructor; that of Socket shuts the connection down before.          *)
Destroy(x) == /\ Quiet /\ Lives(x)
              /\ o' = [Drop(o, x) EXCEPT !.ptr[x] = Unborn]

(* One round of the loop in IOHandle::reset. close() gives the descriptor    *)
(* up also when it is interrupted; err keeps EINTR until close() fails with  *)
(* something else, so that the number is closed once more.                   *)
CloseRound ==
    /\ ~Quiet
    /\ IF o.refs[o.fd] = 0 THEN o' = [o EXCEPT !.fd = Null, !.err = FALSE]
       ELSE \E eintr \in BOOLEAN :
            LET closed == [o EXCEPT !.refs[o.fd] = 0, !.err = @ \/ eintr, !.intr = @ \/ eintr,
                                    !.robbed = @ \cup (o.other \cap {o.fd}), !.other = @ \ {o.fd}]
            IN o' = IF closed.err THEN closed ELSE [closed EXCEPT !.fd = Null]

OtherOpens(p) == /\ o.kind = "handle" /\ o.refs[p] = 0
                 /\ o' = [o EXCEPT !.refs[p] = 1, !.other = @ \cup {p}]

OtherCloses(p) == /\ p \in o.other
                  /\ o' = [o EXCEPT !.refs[p] = 0, !.other = @ \ {p}]

Next ==
    \/ CloseRound
    \/ \E x \in Slots : Release(x) \/ Destroy(x)
    \/ \E p \in Objects : New(p) \/ OtherOpens(p) \/ OtherCloses(p)
    \/ \E x \in Slots, p \in Objects \cup {Null} : Construct(x, p) \/ Reset(x, p)
    \/ \E x \in Slots, p \in Objects : Create(x, p)
    \/ \E x, y \in Slots : \/ MoveConstruct(x, y) \/ CopyConstruct(x, y) \/ MoveAssign(x, y)
                           \/ CopyAssign(x, y) \/ SharedFromThis(x, y)

Spec == Init /\ [][Next]_o

----------------------------------------------------------------------------
(* What holds a reference to p.                                              *)
Holders(p) == {x \in Slots : o.ptr[x] = p}
One(b) == IF b THEN 1 ELSE 0

(* Nothing is used after its end, nothing is forgotten: an object has        *)
(* exactly the references its owners and the program hold, a descriptor is   *)
(* open as long as one of them, or the other thread, has it. Not so once an  *)
(* owner of kind "shared" was assigned to itself. This thread closes a       *)
(* descriptor of the other one only after an interrupted close.              *)
OwnersSound ==
    /\ ~o.self => /\ ~o.bad
                  /\ \A p \in Objects :
                       o.refs[p] = Cardinality(Holders(p)) + One(p \in o.raw)
                                   + One(p \in o.other) + One(o.fd = p /\ ~o.err)
    /\ o.robbed # {} => o.intr
============================================================================
