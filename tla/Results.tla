------------------------------ MODULE Results ------------------------------
(* Result (result.hpp) and ResultStrict (resultstrict.hpp), as they are built *)
(* with their checks: values that must be looked at before they end. Slots   *)
(* are the variables and temporaries of a program, Ids the outcomes that its *)
(* calls return. Whoever calls a ResultStrict gets a Result in turn. That    *)
(* Result::operator= returns nothing is left out: its value is not used.     *)
EXTENDS Naturals, FiniteSets

CONSTANTS Slots, Ids, Unborn, None

(* No outcome is no outcome, and an unborn variable has no kind.             *)
Apart == None \notin Ids /\ Unborn \notin {"Result", "ResultStrict"}

VARIABLE n

(* kind: "Result" or "ResultStrict"; due: the outcome that is still to be    *)
(* looked at, None when _empty; unseen: outcomes nobody has looked at;       *)
(* over: those a ResultStrict was assigned over, copied: those that were     *)
(* copied; stopped: the outcome a check has stopped the program for.         *)
Init == n = [kind |-> [x \in Slots |-> Unborn], due |-> [x \in Slots |-> None],
             unseen |-> {}, made |-> {}, over |-> {}, copied |-> {}, stopped |-> None]

Runs == n.stopped = None
Born(x) == n.kind[x] # Unborn
Strict(x) == n.kind[x] = "ResultStrict"
Stop(s, x) == [s EXCEPT !.stopped = s.due[x]]

----------------------------------------------------------------------------
(* A function returns outcome i.                                             *)
Return(s, x, k, i) == [s EXCEPT !.kind[x] = k, !.due[x] = i,
                                !.unseen = @ \cup {i}, !.made = @ \cup {i}]

Construct(x, k, i) == /\ Runs /\ ~Born(x) /\ i \notin n.made
                      /\ n' = Return(n, x, k, i)

(* The move constructors, and the copy constructor of ResultStrict.          *)
MoveConstruct(x, y) ==
    /\ Runs /\ ~Born(x) /\ Born(y)
    /\ n' = [n EXCEPT !.kind[x] = n.kind[y], !.due[x] = n.due[y], !.due[y] = None]

CopyConstruct(x, y) ==
    /\ Runs /\ ~Born(x) /\ Born(y) /\ Strict(y)
    /\ n' = [n EXCEPT !.kind[x] = n.kind[y], !.due[x] = n.due[y],
                      !.copied = @ \cup ({n.due[y]} \ {None})]

(* Result::operator= first checks that nothing is lost.                      *)
MoveAssign(x, y) ==
    /\ Runs /\ Born(x) /\ Born(y) /\ ~Strict(x) /\ ~Strict(y)
    /\ n' = IF n.due[x] # None THEN Stop(n, x)
            ELSE [n EXCEPT !.due = [@ EXCEPT ![x] = n.due[y], ![y] = None]]

(* Those of ResultStrict are those of its variant, which empties itself.     *)
Overwrite(s, x) == [s EXCEPT !.due[x] = None, !.over = @ \cup ({s.due[x]} \ {None})]

AssignStrict(x, y, move) ==
    /\ Runs /\ Born(x) /\ Born(y) /\ Strict(x) /\ Strict(y)
    /\ LET s == Overwrite(n, x) IN
       n' = IF move THEN [s EXCEPT !.due = [@ EXCEPT ![x] = s.due[y], ![y] = None]]
            ELSE [s EXCEPT !.due[x] = s.due[y], !.copied = @ \cup ({s.due[y]} \ {None})]

(* unwrap, is, is_not, >> JINX_IGNORE_RESULT; abort_on and abort_except look *)
(* too, and end the program for what the value is.                           *)
Seen(s, x) == [s EXCEPT !.due[x] = None, !.unseen = @ \ {s.due[x]}]

Unwrap(x) == /\ Runs /\ Born(x) /\ ~Strict(x) /\ n' = Seen(n, x)

(* ResultStrict::operator(): whether a function took the value is a Result,  *)
(* here in y.                                                                *)
CallStrict(x, y, i) ==
    /\ Runs /\ Born(x) /\ Strict(x) /\ ~Born(y) /\ i \notin n.made
    /\ n' = Return(Seen(n, x), y, "Result", i)

(* The destructors.                                                          *)
Destroy(x) ==
    /\ Runs /\ Born(x)
    /\ n' = IF n.due[x] # None THEN Stop(n, x) ELSE [n EXCEPT !.kind[x] = Unborn]

Next == \/ \E x \in Slots : Unwrap(x) \/ Destroy(x)
        \/ \E x \in Slots, k \in {"Result", "ResultStrict"}, i \in Ids : Construct(x, k, i)
        \/ \E x, y \in Slots : MoveConstruct(x, y) \/ CopyConstruct(x, y) \/ MoveAssign(x, y)
        \/ \E x, y \in Slots, move \in BOOLEAN : AssignStrict(x, y, move)
        \/ \E x, y \in Slots, i \in Ids : CallStrict(x, y, i)

Spec == Init /\ [][Next]_n

----------------------------------------------------------------------------
(* No outcome is lost unseen: it is due in some variable, wherever it was    *)
(* moved, unless a ResultStrict was assigned over. And the checks stop the   *)
(* program for no outcome that was looked at, unless there is a copy of it.  *)
ResultsAreSeen ==
    /\ n.unseen \ n.over \subseteq {n.due[x] : x \in Slots}
    /\ n.stopped # None => n.stopped \in n.unseen \cup n.copied
============================================================================
