------------------------------ MODULE Holders -------------------------------
(* Optional<T>, VariantRecursive and VariantLookupTable: memory for a value  *)
(* and a tag that says which type lives in it. A behaviour is one of a       *)
(* single class. Constructors of the values may throw. An object that was    *)
(* moved from and whose holder is then taken for empty is a husk: it is      *)
(* never destroyed.                                                          *)
EXTENDS Naturals

CONSTANTS Slots, Types, Vals, Classes, None

(* No type, value or object is None, and there are three classes.            *)
Apart == /\ None \notin Types /\ None \notin Vals /\ None \notin Types \X (Vals \cup {None})
         /\ None \notin {"copy", "emplace"}
         /\ Classes \subseteq {"optional", "recursive", "table"}

VARIABLE h

Raw == [is |-> "raw", type |-> None, val |-> None]
Live(t, c) == [is |-> "live", type |-> t, val |-> c]
Husk(m) == [m EXCEPT !.is = "husk", !.val = None]

(* tag: _empty, _type; want: what a value of this class would be, None when  *)
(* it is empty; torn: how a tag came to claim an object that was not         *)
(* constructed; bad: an object was used or destroyed that is not there;      *)
(* leak: one was overwritten.                                                *)
Init == \E c \in Classes :
    h = [class |-> c, tag |-> [x \in Slots |-> None], mem |-> [x \in Slots |-> Raw],
         want |-> [x \in Slots |-> None], torn |-> [x \in Slots |-> None],
         bad |-> FALSE, leak |-> FALSE]

(* Optional has one type.                                                    *)
TypesOf(c) == IF c = "optional" THEN {CHOOSE t \in Types : TRUE} ELSE Types

Sane(x) == h.torn[x] = None
There(s, x) == s.mem[x].is # "raw" /\ s.mem[x].type = s.tag[x]

----------------------------------------------------------------------------
(* reset(), and the destructors: _free, __variant_stub_free, ~T().           *)
Free(s, x) ==
    IF s.tag[x] = None THEN s
    ELSE [s EXCEPT !.tag[x] = None, !.mem[x] = Raw, !.bad = @ \/ ~There(s, x)]

(* A placement new.                                                          *)
Build(s, x, m) == [s EXCEPT !.mem[x] = m, !.leak = @ \/ s.mem[x].is = "live"]

(* The copy of y's object into x: VariantRecursive::_construct_copy writes   *)
(* the tag when the object is there,                                         *)
CopyRecursive(s, x, y, throws) ==
    IF throws THEN s ELSE [Build(s, x, s.mem[y]) EXCEPT !.tag[x] = s.tag[y]]

(* VariantLookupTable before,                                                *)
CopyTable(s, x, y, throws) ==
    LET t == [s EXCEPT !.tag[x] = s.tag[y]] IN
    IF throws THEN [t EXCEPT !.torn[x] = "copy"] ELSE Build(t, x, s.mem[y])

(* and so does Optional.                                                     *)
CopyOptional(s, x, y, throws) ==
    LET t == [s EXCEPT !.tag[x] = s.tag[y]] IN
    IF throws THEN [t EXCEPT !.torn[x] = "copy"] ELSE Build(t, x, s.mem[y])

ConstructCopy(s, x, y, throws) ==
    LET t == [s EXCEPT !.bad = @ \/ ~There(s, y)] IN
    CASE s.class = "recursive" -> CopyRecursive(t, x, y, throws)
      [] s.class = "table" -> CopyTable(t, x, y, throws)
      [] s.class = "optional" -> CopyOptional(t, x, y, throws)

(* A slip: the source still claims its object.                               *)
ConstructMoveKeeps(s, x, y) ==
    [Build(s, x, s.mem[y]) EXCEPT !.tag[x] = s.tag[y], !.mem[y] = Husk(@), !.bad = @ \/ ~There(s, y)]

(* The move of y's object: all classes leave a husk and an empty source.     *)
ConstructMove(s, x, y) ==
    [Build(s, x, s.mem[y]) EXCEPT !.tag[x] = s.tag[y], !.tag[y] = None, !.mem[y] = Husk(@),
                                  !.bad = @ \/ ~There(s, y)]

(* operator==: the results it may return. VariantRecursive::_compare reads   *)
(* both memories as the type of the right-hand side.                         *)
EqualRecursive(x, y) ==
    CASE h.tag[y] = None -> {h.tag[x] = None}
      [] h.tag[y] # None /\ h.tag[x] = h.tag[y] -> {h.mem[x].val = h.mem[y].val}
      [] OTHER -> BOOLEAN

EqualTable(x, y) == {h.tag[x] = h.tag[y] /\ (h.tag[x] = None \/ h.mem[x].val = h.mem[y].val)}

(* operator()(fun): the object fun is called with, if any.                   *)
Call(x) == IF h.tag[x] = None THEN None ELSE <<h.mem[x].type, h.mem[x].val>>

----------------------------------------------------------------------------
(* emplace: the tag is written before the constructor runs.                  *)
Emplace(x, t, c, throws) ==
    /\ Sane(x) /\ t \in TypesOf(h.class)
    /\ LET s == [Free(h, x) EXCEPT !.tag[x] = t] IN
       h' = IF throws THEN [s EXCEPT !.torn[x] = "emplace"]
            ELSE [Build(s, x, Live(t, c)) EXCEPT !.want[x] = <<t, c>>]

(* operator=(const &): empties x first; nothing is left to copy when y is x. *)
CopyAssign(x, y, throws) ==
    /\ Sane(x) /\ Sane(y)
    /\ LET s == Free(h, x)
           t == IF s.tag[y] = None THEN s ELSE ConstructCopy(s, x, y, throws)
       IN h' = [t EXCEPT !.want[x] = IF x = y \/ t.tag[x] = None THEN None ELSE h.want[y]]

MoveAssign(x, y) ==
    /\ Sane(x) /\ Sane(y)
    /\ LET s == Free(h, x)
           t == IF s.tag[y] = None THEN s ELSE ConstructMove(s, x, y)
       IN h' = [t EXCEPT !.want = [@ EXCEPT ![x] = h.want[y], ![y] = None]]

(* The constructors leave a holder behind only when they do not throw.       *)
CopyConstruct(x, y) ==
    /\ Sane(y) /\ x # y /\ h.tag[x] = None /\ h.tag[y] # None
    /\ h' = [ConstructCopy(h, x, y, FALSE) EXCEPT !.want[x] = h.want[y]]

MoveConstruct(x, y) ==
    /\ Sane(y) /\ x # y /\ h.tag[x] = None /\ h.tag[y] # None
    /\ h' = [ConstructMove(h, x, y) EXCEPT !.want = [@ EXCEPT ![x] = h.want[y], ![y] = None]]

Reset(x) == /\ Sane(x) /\ h' = [Free(h, x) EXCEPT !.want[x] = None]

(* Optional::release moves the value out; the Optional keeps the husk, and   *)
(* is not empty.                                                             *)
Release(x) == /\ Sane(x) /\ h.class = "optional" /\ h.tag[x] # None
              /\ h' = [h EXCEPT !.mem[x] = Husk(@), !.want[x] = <<h.tag[x], None>>]

Next == \/ \E x \in Slots : Reset(x) \/ Release(x)
        \/ \E x, y \in Slots : MoveAssign(x, y) \/ CopyConstruct(x, y) \/ MoveConstruct(x, y)
        \/ \E x, y \in Slots, throws \in BOOLEAN : CopyAssign(x, y, throws)
        \/ \E x \in Slots, t \in Types, c \in Vals, throws \in BOOLEAN : Emplace(x, t, c, throws)

Spec == Init /\ [][Next]_h

----------------------------------------------------------------------------
(* A holder has the value that assignments gave it, none when it was         *)
(* assigned to itself, and no object is used that is not there or            *)
(* overwritten while it lives. A tag claims an object that is not there only *)
(* when a constructor threw, in VariantRecursive only in emplace. Equality   *)
(* compares values, but for VariantRecursives of two types.                  *)
HoldersSound ==
    /\ ~h.bad /\ ~h.leak
    /\ h.class = "recursive" => \A x \in Slots : h.torn[x] # "copy"
    /\ \A x \in Slots : Sane(x) => Call(x) = h.want[x]
    /\ \A x, y \in Slots : Sane(x) /\ Sane(y) =>
         /\ h.class = "table" => EqualTable(x, y) = {h.want[x] = h.want[y]}
         /\ h.class = "recursive" /\ h.tag[x] = h.tag[y] =>
              EqualRecursive(x, y) = {h.want[x] = h.want[y]}
============================================================================
