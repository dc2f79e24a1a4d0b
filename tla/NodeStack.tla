----------------------------- MODULE NodeStack ------------------------------
(* What LinkedListThreadSafe (include/jinx/linkedlist.hpp) promises: a stack *)
(* with atomic push and pop.  The scheduler is specified on top of it.       *)
EXTENDS Sequences

CONSTANT Nodes
VARIABLES
    stack,    \* the nodes in the list, the last one pushed first
    outside   \* the nodes in no list

Init == stack = <<>> /\ outside = Nodes

Push(n) ==
    /\ n \in outside
    /\ stack' = <<n>> \o stack
    /\ outside' = outside \ {n}

Pop ==
    /\ stack # <<>>
    /\ stack' = Tail(stack)
    /\ outside' = outside \cup {Head(stack)}

Next == Pop \/ \E n \in Nodes : Push(n)

Spec == Init /\ [][Next]_<<stack, outside>>
=============================================================================
