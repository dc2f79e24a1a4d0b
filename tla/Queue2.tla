------------------------------- MODULE Queue2 -------------------------------
(* The queue of include/jinx/queue2.hpp. Gets and Puts are those of Queue,   *)
(* but meet through callbacks in Queue2::get and Queue2::put, and the owner  *)
(* may also put and take values itself (emplace, front, pop are public),     *)
(* which leaves Gets waiting in front of a queue that is not empty. The      *)
(* variables are those of Queue.                                             *)
EXTENDS Queue

(* A slip: the waiting Get is given the new value and the older ones stay.   *)
PutOvertakes(p, v) ==
    IF pendGet # <<>>
    THEN LET g == Last(pendGet) IN
         /\ EraseGet(g)
         /\ value' = [value EXCEPT ![g] = v, ![p] = NoValue]
         /\ phase' = [phase EXCEPT ![g] = "done", ![p] = "idle"]
         /\ flying' = flying \cup {v}
         /\ UNCHANGED items
    ELSE PollPut(p, v)

(* Queue2::put: the waiting Gets, the last first, are given the values there *)
(* are, from the front; the next one is given v. Only when no Get is left v  *)
(* is put, if there is room.                                                 *)
Put2(p, v) ==
    LET n == IF Len(pendGet) < Len(items) THEN Len(pendGet) ELSE Len(items)
        rest == SubSeq(pendGet, 1, Len(pendGet) - n)
        served == [g \in {pendGet[Len(pendGet) + 1 - i] : i \in 1..n} |->
                     items[CHOOSE i \in 1..n : pendGet[Len(pendGet) + 1 - i] = g]]
        left == SubSeq(items, n + 1, Len(items))
        last == IF rest # <<>> THEN {Last(rest)} ELSE {}
        full == MaxSize > 0 /\ Len(left) >= MaxSize
        waits == rest = <<>> /\ full
    IN
    /\ pendGet' = IF rest # <<>> THEN Front(rest) ELSE <<>>
    /\ getHead' = (getHead /\ pendGet' # <<>>)
    /\ items' = IF rest = <<>> /\ ~full THEN Append(left, v) ELSE left
    /\ value' = [a \in GetsAndPuts |->
                    CASE a \in DOMAIN served -> served[a]
                      [] a = p -> IF waits THEN v ELSE NoValue
                      [] a \in last -> v
                      [] OTHER -> value[a]]
    /\ phase' = [a \in GetsAndPuts |->
                    CASE a \in DOMAIN served -> "done"
                      [] a = p -> IF waits THEN "waiting" ELSE "idle"
                      [] a \in last -> "done"
                      [] OTHER -> phase[a]]
    /\ pendPut' = IF waits THEN Append(pendPut, p) ELSE pendPut
    /\ flying' = IF waits THEN flying ELSE flying \cup {v}
    /\ UNCHANGED putHead

StartPut2(p, v) == /\ phase[p] = "idle" /\ v \notin flying \cup Pending
                   /\ Put2(p, v)

(* Queue2::get meets a waiting Put or the container as the Get of Queue does.*)
Get2(g) == PollGet(g)

StartGet2(g) == phase[g] = "idle" /\ Get2(g)

PollAgain2(a) == /\ phase[a] = "again"
                 /\ IF a \in Getters THEN Get2(a) ELSE Put2(a, value[a])

(* The finalizers, and reset(), which is deaf to a list without _head, too.  *)
CancelGet2(g) == Cancel(g)
CancelPut2(p) == Cancel(p)
Reset2 == Reset

(* The owner puts a value, where there is room, or takes the first.          *)
Emplace(v) == /\ ~Full /\ v \notin flying \cup Pending
              /\ items' = Append(items, v) /\ flying' = flying \cup {v}
              /\ UNCHANGED <<listVars, phase, value>>

Pop == /\ items # <<>>
       /\ items' = Tail(items) /\ flying' = flying \ {Head(items)}
       /\ UNCHANGED <<listVars, phase, value>>

Direct == Pop \/ \E v \in Values : Emplace(v)

Puts2 == \E p \in Putters, v \in Values : StartPut2(p, v)

Next2 ==
    \/ Puts2 \/ Direct \/ Reset2
    \/ \E g \in Getters : StartGet2(g) \/ CancelGet2(g)
    \/ \E p \in Putters : CancelPut2(p)
    \/ \E a \in GetsAndPuts : Return(a) \/ PollAgain2(a)

-----------------------------------------------------------------------------
(* As long as the owner keeps its hands off a Queue2 with waiting Gets, the  *)
(* Queue2 takes the steps of Queue and no others: the loop of put() hands    *)
(* out what was there first, and a Put leaves no Get waiting for it.         *)
ActsAsQueue == [][ \/ Direct \/ ~NoMissedMatch
                   \/ Next ]_vars /\ [][Puts2 => NoMissedMatch']_vars
=============================================================================
