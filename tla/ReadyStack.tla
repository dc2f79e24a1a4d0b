----------------------------- MODULE ReadyStack -----------------------------
(* LinkedListThreadSafe (include/jinx/linkedlist.hpp), the ready list of     *)
(* TaskQueue, one step per access to shared memory.  Any thread pushes, a    *)
(* node it alone owns (TaskQueue::schedule has won the exchange of _state);  *)
(* only the threads in Poppers pop.  The counter _size, a plain size_t that  *)
(* every thread updates, is left out: no one reads it on the ready list.     *)
EXTENDS Naturals, Sequences, FiniteSets

CONSTANTS
    Nodes,
    Procs,     \* threads
    Poppers,   \* the threads that pop: the loop thread
    Null       \* nullptr

VARIABLES
    head,      \* _head
    succ,      \* Node::_next
    owned,     \* nodes that are in no list and not being pushed
    op         \* the push or pop each thread is in: its step, the node it
               \* pushes, and its locals old_head and new_head

vars == <<head, succ, owned, op>>

Idle == [step |-> "idle", node |-> Null, old |-> Null, new |-> Null]

Init ==
    /\ head = Null
    /\ succ = [n \in Nodes |-> Null]
    /\ owned = Nodes
    /\ op = [p \in Procs |-> Idle]

PushLoad(p, n) ==
    /\ op[p].step = "idle"
    /\ n \in owned
    /\ owned' = owned \ {n}
    /\ op' = [op EXCEPT ![p] = [Idle EXCEPT !.step = "link", !.node = n, !.old = head]]
    /\ UNCHANGED <<head, succ>>

PushLink(p) ==
    /\ op[p].step = "link"
    /\ succ' = [succ EXCEPT ![op[p].node] = op[p].old]
    /\ op' = [op EXCEPT ![p].step = "push"]
    /\ UNCHANGED <<head, owned>>

(* compare_exchange_weak fails, because the head has changed or spuriously.  *)
PushRetry(p) ==
    /\ op[p].step = "push"
    /\ op' = [op EXCEPT ![p].step = "link", ![p].old = head]
    /\ UNCHANGED <<head, succ, owned>>

(* A mistaken push that stores the head it linked to without comparing.      *)
PushStore(p) ==
    /\ op[p].step = "push"
    /\ head' = op[p].node
    /\ op' = [op EXCEPT ![p] = Idle]
    /\ UNCHANGED <<succ, owned>>

PushExchange(p) ==
    /\ op[p].step = "push"
    /\ head = op[p].old
    /\ head' = op[p].node
    /\ op' = [op EXCEPT ![p] = Idle]
    /\ UNCHANGED <<succ, owned>>

PopLoad(p) ==
    /\ op[p].step = "idle"
    /\ p \in Poppers
    /\ op' = [op EXCEPT ![p] = [Idle EXCEPT !.step = "next", !.old = head]]
    /\ UNCHANGED <<head, succ, owned>>

PopNext(p) ==
    /\ op[p].step = "next"
    /\ op' = [op EXCEPT ![p].step = "pop",
                        ![p].new = IF op[p].old = Null THEN Null ELSE succ[op[p].old]]
    /\ UNCHANGED <<head, succ, owned>>

PopRetry(p) ==
    /\ op[p].step = "pop"
    /\ op' = [op EXCEPT ![p].step = "next", ![p].old = head]
    /\ UNCHANGED <<head, succ, owned>>

PopExchange(p) ==
    /\ op[p].step = "pop"
    /\ head = op[p].old
    /\ head' = op[p].new
    /\ owned' = owned \cup ({op[p].old} \ {Null})
    /\ op' = [op EXCEPT ![p] = Idle]
    /\ UNCHANGED succ

Next ==
    \E p \in Procs :
        \/ \E n \in Nodes : PushLoad(p, n)
        \/ PushLink(p) \/ PushRetry(p) \/ PushExchange(p)
        \/ PopLoad(p) \/ PopNext(p) \/ PopRetry(p) \/ PopExchange(p)

Spec == Init /\ [][Next]_vars

-----------------------------------------------------------------------------
(* The nodes reached from _head, cut off after as many as there are.         *)
Linked ==
    LET chain[i \in 0 .. Cardinality(Nodes)] ==
            IF i = 0 THEN <<head>>
            ELSE LET s == chain[i - 1]
                     d == s[Len(s)]
                 IN  IF d = Null THEN s ELSE Append(s, succ[d])
    IN  SelectSeq(chain[Cardinality(Nodes)], LAMBDA n : n # Null)

BeingPushed == {op[p].node : p \in {q \in Procs : op[q].step \in {"link", "push"}}}
=============================================================================
