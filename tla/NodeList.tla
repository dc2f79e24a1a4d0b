------------------------------ MODULE NodeList ------------------------------
(* What LinkedList (include/jinx/linkedlist.hpp) promises: a finite list     *)
(* without repetition that grows at either end and shrinks anywhere.         *)
EXTENDS Sequences, SequencesExt

CONSTANT Nodes
VARIABLE list

Init == list = <<>>

PushFront(n) == ~Contains(list, n) /\ list' = <<n>> \o list
PushBack(n) == ~Contains(list, n) /\ list' = Append(list, n)
Erase(n) == Contains(list, n) /\ list' = RemoveFirst(list, n)

Next == \E n \in Nodes : PushFront(n) \/ PushBack(n) \/ Erase(n)

Spec == Init /\ [][Next]_list
=============================================================================
