----------------------------- MODULE LinkedList -----------------------------
(* The intrusive list of include/jinx/linkedlist.hpp at the level of its     *)
(* pointers.  Nodes are linked both ways, `end` is the list's own sentinel   *)
(* node, and a node knows that it is in a list by its two pointers only.     *)
(*                                                                           *)
(* The list's users keep to one end: TaskQueue and Lock push at the front,   *)
(* Queue, Queue2 and BufferPool at the back.  User code runs in the callback *)
(* of for_each, so its local `next` is state.                                *)
EXTENDS Naturals, Sequences, FiniteSets, Functions

CONSTANTS
    Nodes,
    End,      \* &_end
    Null,     \* nullptr
    PushEnds  \* the ends the users of lists push at, of "front" and "back"

VARIABLES
    prev,     \* Node::_prev of every node and of the sentinel
    succ,     \* Node::_next
    head,     \* _head
    size,     \* _size
    walk,     \* what runs: "idle", "each" (for_each) or "clear"
    at,       \* the node for_each visits next
    unseen,   \* nodes in the list since for_each began that it has not visited
    pushEnd   \* the end the user of this list pushes at

ptrVars == <<prev, succ, head, size>>
eachVars == <<walk, at, unseen>>
vars == <<ptrVars, eachVars, pushEnd>>

Cells == Nodes \cup {End}
Init ==
    /\ prev = [c \in Cells |-> Null]
    /\ succ = [c \in Cells |-> Null]
    /\ head = End
    /\ size = 0
    /\ walk = "idle"
    /\ at = Null
    /\ unseen = {}
    /\ pushEnd \in PushEnds

-----------------------------------------------------------------------------
IsInserted(n) == prev[n] # Null \/ succ[n] # Null

PushFront(n) ==
    /\ ~IsInserted(n)
    /\ prev' = [prev EXCEPT ![head] = n, ![n] = Null]
    /\ succ' = [succ EXCEPT ![n] = head]
    /\ head' = n
    /\ size' = size + 1

PushBack(n) ==
    /\ ~IsInserted(n)
    /\ prev' = [prev EXCEPT ![n] = prev[End], ![End] = n]
    /\ succ' = IF prev[End] = Null
               THEN [succ EXCEPT ![n] = End]
               ELSE [succ EXCEPT ![n] = End, ![prev[End]] = n]
    /\ size' = size + 1
    /\ UNCHANGED head

(* A mistaken erase that forgets to reset the pointers of an inner node.     *)
UnlinkStale(n) ==
    /\ IF prev[n] = Null
       THEN /\ head' = succ[n]
            /\ prev' = [prev EXCEPT ![succ[n]] = Null]
            /\ succ' = [succ EXCEPT ![n] = Null]
       ELSE /\ succ' = [succ EXCEPT ![prev[n]] = succ[n]]
            /\ prev' = [prev EXCEPT ![succ[n]] = prev[n]]
            /\ UNCHANGED head
    /\ size' = size - 1

(* erase() of a node that is in a list: unlinking the first node moves _head.*)
Unlink(n) ==
    /\ IF prev[n] = Null
       THEN /\ head' = succ[n]
            /\ prev' = [prev EXCEPT ![succ[n]] = Null]
            /\ succ' = [succ EXCEPT ![n] = Null]
       ELSE /\ succ' = [succ EXCEPT ![prev[n]] = succ[n], ![n] = Null]
            /\ prev' = [prev EXCEPT ![succ[n]] = prev[n], ![n] = Null]
            /\ UNCHANGED head
    /\ size' = size - 1

Front == head
Back == prev[End]

-----------------------------------------------------------------------------
(* Operations called outside the callback of a for_each.                     *)

Push(n) ==
    /\ walk = "idle"
    /\ \/ pushEnd = "front" /\ PushFront(n)
       \/ pushEnd = "back" /\ PushBack(n)
    /\ UNCHANGED <<eachVars, pushEnd>>

Erase(n) ==
    /\ walk = "idle"
    /\ IsInserted(n)
    /\ Unlink(n)
    /\ UNCHANGED <<eachVars, pushEnd>>

(* pop_front of an empty list fails: front() is the sentinel, in no list.    *)
PopFront ==
    /\ walk = "idle"
    /\ pushEnd = "front"
    /\ IsInserted(Front)
    /\ Unlink(Front)
    /\ UNCHANGED <<eachVars, pushEnd>>

(* The users call pop_back after empty().                                    *)
PopBack ==
    /\ walk = "idle"
    /\ pushEnd = "back"
    /\ size # 0
    /\ Unlink(Back)
    /\ UNCHANGED <<eachVars, pushEnd>>

(* for_each or clear begins.                                                 *)
Begin(w) ==
    /\ walk = "idle"
    /\ walk' = w
    /\ at' = head
    /\ unseen' = {n \in Nodes : IsInserted(n)}
    /\ UNCHANGED <<ptrVars, pushEnd>>

(* for_each has read the successor of the node it calls the callback on.     *)
Advance ==
    /\ at' = succ[at]
    /\ unseen' = {n \in unseen \ {at} : prev'[n] # Null \/ succ'[n] # Null}
    /\ UNCHANGED <<walk, pushEnd>>

Visiting == walk = "each" /\ at \in Nodes

(* The callback leaves the list alone, ...                                   *)
VisitOnly ==
    /\ Visiting
    /\ UNCHANGED ptrVars
    /\ Advance

(* ... or inserts another node at the front, ...                             *)
VisitPush(n) ==
    /\ Visiting
    /\ pushEnd = "front"
    /\ PushFront(n)
    /\ Advance

(* ... or erases the node it is called on.                                   *)
VisitErase ==
    /\ Visiting
    /\ IsInserted(at)
    /\ Unlink(at)
    /\ Advance

ClearStep ==
    /\ walk = "clear"
    /\ at \in Nodes
    /\ IF IsInserted(at) THEN Unlink(at) ELSE UNCHANGED ptrVars
    /\ Advance

(* The walk has reached the sentinel.                                        *)
Finish ==
    /\ walk # "idle"
    /\ at = End
    /\ walk' = "idle"
    /\ at' = Null
    /\ unseen' = {}
    /\ UNCHANGED <<ptrVars, pushEnd>>

Next ==
    \/ \E n \in Nodes : Push(n) \/ Erase(n) \/ VisitPush(n)
    \/ PopFront \/ PopBack
    \/ \E w \in {"each", "clear"} : Begin(w)
    \/ VisitOnly \/ VisitErase \/ ClearStep \/ Finish

Spec == Init /\ [][Next]_vars

-----------------------------------------------------------------------------
Bound == Cardinality(Nodes) + 1

(* The cells reached from c through the pointers p, up to the end of the     *)
(* chain; Bound cuts a cycle off.                                            *)
Chain(p, c) ==
    LET chain[i \in 0 .. Bound] ==
            IF i = 0 THEN <<c>>
            ELSE LET s == chain[i - 1]
                     d == s[Len(s)]
                 IN  IF d \in Cells THEN Append(s, p[d]) ELSE s
        full == chain[Bound]
    IN  SelectSeq(full, LAMBDA d : d \in Nodes)

Forward == Chain(succ, head)
Backward ==
    LET s == Chain(prev, End) IN [i \in 1 .. Len(s) |-> s[Len(s) + 1 - i]]

(* The list as its user sees it: from the end the user works at.             *)
Contents == IF pushEnd = "front" THEN Forward ELSE Backward

(* The two pointers of a node and _size tell the truth: is_inserted(), on    *)
(* which push and the finalizers of Get, Put and AsyncLock decide, holds for *)
(* the nodes in the list and only for them.                                  *)
MembershipExact ==
    /\ size = Len(Contents)
    /\ {n \in Nodes : IsInserted(n)} = Range(Contents)

(* for_each never stands on a node that has left the list (it would read a   *)
(* null successor next).                                                     *)
CursorValid == walk # "idle" => at = End \/ (at \in Nodes /\ IsInserted(at))

(* for_each visits every node that stays in the list, and clear leaves none: *)
(* what TaskQueue::exit needs of the list of all tasks.                      *)
VisitsAllFront == [][pushEnd = "front" /\ Finish => unseen = {}]_vars

(* The same for every list, as the tests of for_each have it, those filled   *)
(* by push_back included: what Queue::reset needs of its lists.              *)
VisitsAll == [][Finish => unseen = {}]_vars
=============================================================================
