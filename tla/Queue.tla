------------------------------- MODULE Queue --------------------------------
(* The awaitable queue of include/jinx/queue.hpp: Queue, Queue::Get and      *)
(* Queue::Put on one loop.  Every Get and Put lives in a task of its own; a  *)
(* step is what the task does between two returns to the loop.  A Get or Put *)
(* that cannot go on joins a list of the queue and suspends, and the other   *)
(* side completes it later: emplace_result stores the result and resumes the *)
(* task, which returns it when the loop gets to it.                          *)
EXTENDS Naturals, Sequences, FiniteSets, Functions, SequencesExt

CONSTANTS
    Getters, Putters,
    Values,     \* what may be in the queue or on its way at one time
    NoValue,
    MaxSize,    \* QueueBase::_max_size, 0: not limited
    Resets      \* TRUE: the program calls Queue::reset

VARIABLES
    items,     \* QueueBase::_container
    pendGet,   \* Queue::_pending_get, from its first to its last node
    pendPut,   \* Queue::_pending_put
    getHead,   \* TRUE: _head of _pending_get is its first node, FALSE: &_end
    putHead,
    phase,     \* of each Get and Put: "idle", "waiting" in its list, "done"
               \* (completed, its task is ready), "again" (resumed by reset)
    value,     \* Put::_value, or the result of a Get
    flying     \* values that a Put has handed over and no Get has returned

listVars == <<pendGet, pendPut, getHead, putHead>>
vars == <<items, listVars, phase, value, flying>>

GetsAndPuts == Getters \cup Putters

(* A Get is no Put, there are finitely many, and the limit is a size_t.      *)
QueueUse == /\ Getters \cap Putters = {} /\ IsFiniteSet(Getters)
            /\ NoValue \notin Values /\ MaxSize \in Nat

TypeOK ==
    /\ items \in Seq(Values)
    /\ pendGet \in Seq(Getters)
    /\ pendPut \in Seq(Putters)
    /\ getHead \in BOOLEAN /\ putHead \in BOOLEAN
    /\ phase \in [GetsAndPuts -> {"idle", "waiting", "done", "again"}]
    /\ value \in [GetsAndPuts -> Values \cup {NoValue}]
    /\ flying \subseteq Values

Init ==
    /\ items = <<>>
    /\ pendGet = <<>> /\ pendPut = <<>>
    /\ getHead = FALSE /\ putHead = FALSE
    /\ phase = [a \in GetsAndPuts |-> "idle"]
    /\ value = [a \in GetsAndPuts |-> NoValue]
    /\ flying = {}

-----------------------------------------------------------------------------
Full == MaxSize > 0 /\ Len(items) >= MaxSize

(* What LinkedList leaves in _head when a node of a list that is filled by   *)
(* push_back is erased: erasing the first node moves _head on to the second. *)
HeadAfter(list, head, a) == IF list[1] = a THEN Len(list) > 1 ELSE head

EraseGet(g) ==
    /\ pendGet' = RemoveFirst(pendGet, g)
    /\ getHead' = HeadAfter(pendGet, getHead, g)
    /\ UNCHANGED <<pendPut, putHead>>

ErasePut(p) ==
    /\ pendPut' = RemoveFirst(pendPut, p)
    /\ putHead' = HeadAfter(pendPut, putHead, p)
    /\ UNCHANGED <<pendGet, getHead>>

(* A mistaken Get::async_poll that does not look at the waiting Puts.        *)
PollGetNoPending(g) ==
    IF items # <<>>
    THEN /\ value' = [value EXCEPT ![g] = NoValue]
         /\ phase' = [phase EXCEPT ![g] = "idle"]
         /\ flying' = flying \ {Head(items)}
         /\ items' = Tail(items)
         /\ UNCHANGED listVars
    ELSE /\ pendGet' = Append(pendGet, g)
         /\ phase' = [phase EXCEPT ![g] = "waiting"]
         /\ UNCHANGED <<pendPut, getHead, putHead, value, flying, items>>

(* Get::async_poll with no result yet.  A Get that finds a value returns it  *)
(* in the same step; a waiting Put is served only when the queue is empty,   *)
(* the last of the list first.                                               *)
PollGet(g) ==
    IF items # <<>>
    THEN /\ value' = [value EXCEPT ![g] = NoValue]
         /\ phase' = [phase EXCEPT ![g] = "idle"]
         /\ flying' = flying \ {Head(items)}
         /\ items' = Tail(items)
         /\ UNCHANGED listVars
    ELSE IF pendPut # <<>>
    THEN LET p == Last(pendPut) IN
         /\ ErasePut(p)
         /\ value' = [value EXCEPT ![g] = NoValue, ![p] = NoValue]
         /\ phase' = [phase EXCEPT ![g] = "idle", ![p] = "done"]
         /\ UNCHANGED <<flying, items>>
    ELSE /\ pendGet' = Append(pendGet, g)
         /\ phase' = [phase EXCEPT ![g] = "waiting"]
         /\ UNCHANGED <<pendPut, getHead, putHead, value, flying, items>>

(* Put::async_poll with value v: to a waiting Get, the last one first, into  *)
(* the list when the queue is full, into the queue otherwise.                *)
PollPut(p, v) ==
    IF pendGet # <<>>
    THEN LET g == Last(pendGet) IN
         /\ EraseGet(g)
         /\ value' = [value EXCEPT ![g] = v, ![p] = NoValue]
         /\ phase' = [phase EXCEPT ![g] = "done", ![p] = "idle"]
         /\ flying' = flying \cup {v}
         /\ UNCHANGED items
    ELSE IF Full
    THEN /\ pendPut' = Append(pendPut, p)
         /\ value' = [value EXCEPT ![p] = v]
         /\ phase' = [phase EXCEPT ![p] = "waiting"]
         /\ UNCHANGED <<pendGet, getHead, putHead, items, flying>>
    ELSE /\ items' = Append(items, v)
         /\ value' = [value EXCEPT ![p] = NoValue]
         /\ phase' = [phase EXCEPT ![p] = "idle"]
         /\ flying' = flying \cup {v}
         /\ UNCHANGED listVars

-----------------------------------------------------------------------------
Pending == {value[a] : a \in GetsAndPuts} \ {NoValue}

(* async_await(_get(queue)): operator() and the first poll.                  *)
StartGet(g) ==
    /\ phase[g] = "idle"
    /\ PollGet(g)

(* async_await(_put(queue, v)) of a value that is not on its way already.    *)
StartPut(p, v) ==
    /\ phase[p] = "idle"
    /\ v \notin flying \cup Pending
    /\ PollPut(p, v)

(* The loop runs the task of a completed Get or Put: it returns.             *)
Return(a) ==
    /\ phase[a] = "done"
    /\ phase' = [phase EXCEPT ![a] = "idle"]
    /\ value' = [value EXCEPT ![a] = NoValue]
    /\ flying' = flying \ {value[a]}
    /\ UNCHANGED <<items, listVars>>

(* The loop runs the task of a Get or Put that reset() has resumed: the error*)
(* went into the task, so async_poll finds no result and starts over.        *)
PollAgain(a) ==
    /\ phase[a] = "again"
    /\ IF a \in Getters THEN PollGet(a) ELSE PollPut(a, value[a])

(* The task of a Get or Put is cancelled: async_finalize leaves the list.    *)
(* A completed Get takes the value it was given with it.                     *)
Cancel(a) ==
    /\ phase[a] # "idle"
    /\ IF phase[a] # "waiting" THEN UNCHANGED listVars
       ELSE IF a \in Getters THEN EraseGet(a) ELSE ErasePut(a)
    /\ phase' = [phase EXCEPT ![a] = "idle"]
    /\ value' = [value EXCEPT ![a] = NoValue]
    /\ flying' = flying \ {value[a]}
    /\ UNCHANGED items

(* Queue::reset: for_each and clear only find the nodes of a list whose      *)
(* _head is known; the container is emptied.                                 *)
Reset ==
    LET resumed == (IF getHead THEN Range(pendGet) ELSE {})
                   \cup (IF putHead THEN Range(pendPut) ELSE {})
    IN
    /\ Resets
    /\ phase' = [a \in GetsAndPuts |-> IF a \in resumed THEN "again" ELSE phase[a]]
    /\ pendGet' = IF getHead THEN <<>> ELSE pendGet
    /\ pendPut' = IF putHead THEN <<>> ELSE pendPut
    /\ getHead' = FALSE
    /\ putHead' = FALSE
    /\ flying' = flying \ Range(items)
    /\ items' = <<>>
    /\ UNCHANGED value

Puts == \E p \in Putters, v \in Values : StartPut(p, v)

Next ==
    \/ Puts \/ Reset
    \/ \E g \in Getters : StartGet(g)
    \/ \E a \in GetsAndPuts : Return(a) \/ PollAgain(a) \/ Cancel(a)

Spec == Init /\ [][Next]_vars

(* The loop runs every ready task, and the Gets are called again and again.  *)
Fairness ==
    /\ \A a \in GetsAndPuts : WF_vars(Return(a)) /\ WF_vars(PollAgain(a))
    /\ \A g \in Getters : WF_vars(StartGet(g))

FairSpec == Spec /\ Fairness

-----------------------------------------------------------------------------
(* The assertion in Put::async_poll, jinx_assert(_queue->empty()), and its   *)
(* mirror image: nobody waits for what is there.  Whenever a Get waits there *)
(* is neither a value nor a waiting Put.                                     *)
NoMissedMatch == pendGet # <<>> => items = <<>> /\ pendPut = <<>>

(* Nothing is lost or repeated on the way: the values handed over and not    *)
(* yet returned are those in the container and those in the results of       *)
(* completed Gets, each exactly once.                                        *)
FlyingExact ==
    LET results == {g \in Getters : phase[g] = "done"} IN
    /\ flying = Range(items) \cup {value[g] : g \in results}
    /\ Cardinality(flying) = Len(items) + Cardinality(results)

(* An awaitable is in its list exactly while it waits, once: a completed or  *)
(* cancelled one can be destroyed or called again.                           *)
ListsExact ==
    /\ IsInjective(pendGet) /\ IsInjective(pendPut)
    /\ Range(pendGet) \cup Range(pendPut) = {a \in GetsAndPuts : phase[a] = "waiting"}

(* The limit holds, values that waiting Puts bring included.                 *)
WithinLimit == MaxSize > 0 => Len(items) <= MaxSize

(* Once no new Put is called, every waiting Put is completed although the    *)
(* list is served last in, first out and only from an empty queue.           *)
PutServed ==
    \A p \in Putters :
        \/ []<><<Puts>>_vars
        \/ phase[p] = "waiting" ~> phase[p] # "waiting"
=============================================================================
