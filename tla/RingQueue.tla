----------------------------- MODULE RingQueue ------------------------------
(* QueueBase<std::array<T, N>> of include/jinx/queue.hpp: a ring of N cells. *)
(* _begin wraps around as it reaches the end of the memory, _end only when   *)
(* the next value is stored.                                                 *)
EXTENDS Integers, Sequences

CONSTANTS
    Values,
    NoValue,   \* raw memory: no object lives in the cell
    N          \* number of cells

ASSUME RingAssumption == N \in Nat \ {0} /\ NoValue \notin Values

VARIABLES
    cells,     \* _memory
    begin,     \* _begin, as an index
    end,       \* _end, N: one past the last cell
    size       \* _size

vars == <<cells, begin, end, size>>

TypeOK ==
    /\ cells \in [0 .. N - 1 -> Values \cup {NoValue}]
    /\ begin \in 0 .. N - 1
    /\ end \in 0 .. N
    /\ size \in 0 .. N

Init ==
    /\ cells = [i \in 0 .. N - 1 |-> NoValue]
    /\ begin = 0
    /\ end = 0
    /\ size = 0

(* The cell k places behind _begin.                                          *)
Cell(k) == IF begin + k < N THEN begin + k ELSE begin + k - N

Empty == size = 0
Full == size > 0 /\ size = N

(* A mistaken emplace that wraps _end one cell too late.                     *)
EmplaceNoWrap(v) ==
    /\ ~Full
    /\ LET at == IF end = N THEN N - 1 ELSE end IN
       /\ cells' = [cells EXCEPT ![at] = v]
       /\ end' = at + 1
    /\ size' = size + 1
    /\ UNCHANGED begin

(* Put and Queue2::put emplace after full().                                 *)
Emplace(v) ==
    /\ ~Full
    /\ LET at == IF end = N THEN 0 ELSE end IN
       /\ cells' = [cells EXCEPT ![at] = v]
       /\ end' = at + 1
    /\ size' = size + 1
    /\ UNCHANGED begin

(* Get and Queue2::get pop after empty().                                    *)
Pop ==
    /\ ~Empty
    /\ cells' = [cells EXCEPT ![begin] = NoValue]
    /\ begin' = IF begin + 1 = N THEN 0 ELSE begin + 1
    /\ size' = size - 1
    /\ UNCHANGED end

(* A mistaken reset that forgets where the first value would go.             *)
ResetBegin ==
    /\ cells' = [i \in 0 .. N - 1 |-> NoValue]
    /\ begin' = 0
    /\ size' = 0
    /\ UNCHANGED end

(* reset() pops until the ring is empty: _begin moves on by size cells.      *)
Reset ==
    /\ cells' = [i \in 0 .. N - 1 |-> NoValue]
    /\ begin' = Cell(size)
    /\ size' = 0
    /\ UNCHANGED end

Next == (\E v \in Values : Emplace(v)) \/ Pop \/ Reset

Spec == Init /\ [][Next]_vars

-----------------------------------------------------------------------------
Contents == [i \in 1 .. size |-> cells[Cell(i - 1)]]

Abstract == INSTANCE Fifo WITH queue <- Contents, Limit <- N

(* The ring is a bounded first-in first-out queue: no value is overwritten,  *)
(* skipped or returned out of turn, wherever the two ends meet or wrap.      *)
ImplementsFifo == Abstract!Spec

(* Objects live in the occupied cells and only there: pop() destroys what    *)
(* emplace() constructed, and no value is constructed over a living one.     *)
CellsExact ==
    {i \in 0 .. N - 1 : cells[i] # NoValue} = {Cell(k) : k \in 0 .. size - 1}

(* The two ends and the size agree, up to the wrap that _end has yet to do;  *)
(* with the types and CellsExact, an inductive invariant.                    *)
EndsMeet == Cell(size) = IF end = N THEN 0 ELSE end
RingInv == TypeOK /\ EndsMeet /\ CellsExact
=============================================================================
