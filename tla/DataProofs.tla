----------------------------- MODULE DataProofs ------------------------------
(* What MCData checks on small instances of the data structures, proved for  *)
(* all of them: the ring of QueueBase<std::array<T, N>>, results, addresses, *)
(* holders of values, options and owners. The other parts leave the          *)
(* variables of a part alone.                                                *)
EXTENDS MCData, SequenceTheorems, FiniteSetTheorems, TLAPS

allVars == <<part, vars, listVars, readyVars, m, o, a, h, c, n>>

-----------------------------------------------------------------------------
(* The ring keeps its cells in order and implements a first-in first-out     *)
(* queue, for every N.                                                       *)

(* Cell numbers the cells from _begin on, each once.                         *)
LEMMA CellFacts ==
    ASSUME TypeOK
    PROVE  /\ \A k \in 0 .. N : Cell(k) \in 0 .. N - 1
           /\ \A j, k \in 0 .. N - 1 : Cell(j) = Cell(k) => j = k
           /\ Cell(0) = begin
BY RingAssumption DEF TypeOK, Cell

LEMMA RingInvInit == Init => RingInv
<1> SUFFICES ASSUME Init PROVE RingInv
  OBVIOUS
<1>1. TypeOK
  BY RingAssumption DEF Init, TypeOK
<1>2. EndsMeet
  BY RingAssumption DEF Init, EndsMeet, Cell
<1>3. CellsExact
  BY RingAssumption DEF Init, CellsExact
<1> QED BY <1>1, <1>2, <1>3 DEF RingInv

(* emplace() writes the cell behind the last one.                            *)
LEMMA EmplaceFacts ==
    ASSUME RingInv, NEW v \in Values, Emplace(v)
    PROVE  /\ size \in 0 .. N - 1 /\ size' = size + 1 /\ begin' = begin
           /\ Cell(size) \in 0 .. N - 1
           /\ cells' = [cells EXCEPT ![Cell(size)] = v]
           /\ end' = Cell(size) + 1
<1>1. size \in 0 .. N - 1
  BY RingAssumption DEF RingInv, TypeOK, Emplace, Full
<1>2. Cell(size) \in 0 .. N - 1
  BY <1>1, RingAssumption DEF RingInv, TypeOK, Cell
<1> QED BY <1>1, <1>2 DEF Emplace, RingInv, EndsMeet

LEMMA RingInvStep == RingInv /\ [Next]_vars => RingInv'
<1> SUFFICES ASSUME RingInv, [Next]_vars PROVE RingInv'
  OBVIOUS
<1> USE RingAssumption
<1>1. ASSUME NEW v \in Values, Emplace(v) PROVE RingInv'
  <2>1. /\ size \in 0 .. N - 1 /\ size' = size + 1 /\ begin' = begin
        /\ Cell(size) \in 0 .. N - 1
        /\ cells' = [cells EXCEPT ![Cell(size)] = v]
        /\ end' = Cell(size) + 1
    BY <1>1, EmplaceFacts
  <2>2. TypeOK'
    BY <2>1 DEF RingInv, TypeOK
  <2>3. EndsMeet'
    BY <2>1 DEF RingInv, TypeOK, EndsMeet, Cell
  <2>4. CellsExact'
    <3>1. \A k \in 0 .. N : Cell(k)' = Cell(k)
      BY <2>1 DEF Cell
    <3>2. {Cell(k) : k \in 0 .. size}
            = {Cell(k) : k \in 0 .. size - 1} \cup {Cell(size)}
      BY <2>1
    <3>3. {i \in 0 .. N - 1 : cells'[i] # NoValue}
            = {i \in 0 .. N - 1 : cells[i] # NoValue} \cup {Cell(size)}
      <4>1. PICK j \in 0 .. N - 1 : j = Cell(size)
        BY <2>1
      <4>2. cells \in [0 .. N - 1 -> Values \cup {NoValue}] /\ cells' = [cells EXCEPT ![j] = v]
        BY <2>1, <4>1 DEF RingInv, TypeOK
      <4>3. cells'[j] # NoValue /\ \A i \in 0 .. N - 1 : i # j => cells'[i] = cells[i]
        BY <4>2
      <4> QED BY <4>1, <4>3
    <3>4. {Cell(k)' : k \in 0 .. size' - 1} = {Cell(k) : k \in 0 .. size}
      BY <2>1, <3>1
    <3> QED BY <3>2, <3>3, <3>4 DEF RingInv, CellsExact
  <2> QED BY <2>2, <2>3, <2>4 DEF RingInv
<1>2. CASE Pop
  <2>1. TypeOK'
    BY <1>2 DEF RingInv, TypeOK, Pop, Empty
  <2>2. /\ size \in 1 .. N
        /\ size' = size - 1
        /\ \A k \in 0 .. N - 1 : Cell(k)' = Cell(k + 1)
    BY <1>2 DEF RingInv, TypeOK, Pop, Empty, Cell
  <2>3. EndsMeet'
    BY <1>2, <2>2 DEF RingInv, TypeOK, Pop, Empty, EndsMeet, Cell
  <2>4. CellsExact'
    <3>1. {Cell(k)' : k \in 0 .. size' - 1} = {Cell(k) : k \in 1 .. size - 1}
      <4>1. \A k \in 0 .. size' - 1 : k + 1 \in 1 .. size - 1 /\ Cell(k)' = Cell(k + 1)
        BY <2>2
      <4>2. \A k \in 1 .. size - 1 : k - 1 \in 0 .. size' - 1 /\ Cell(k - 1)' = Cell(k)
        <5>1. \A k \in 1 .. size - 1 : k - 1 \in 0 .. size' - 1 /\ (k - 1) + 1 = k
          BY <2>2
        <5> QED BY <4>1, <5>1
      <4> QED BY <4>1, <4>2
    <3>2. {Cell(k) : k \in 1 .. size - 1}
            = {Cell(k) : k \in 0 .. size - 1} \ {Cell(0)}
      <4>1. \A k \in 1 .. size - 1 : Cell(k) # Cell(0)
        BY <2>2 DEF RingInv, TypeOK, Cell
      <4>2. 0 .. size - 1 = {0} \cup (1 .. size - 1)
        BY <2>2
      <4> QED BY <4>1, <4>2
    <3>3. {i \in 0 .. N - 1 : cells'[i] # NoValue}
            = {i \in 0 .. N - 1 : cells[i] # NoValue} \ {begin}
      BY <1>2 DEF RingInv, TypeOK, Pop
    <3> QED BY <3>1, <3>2, <3>3, CellFacts DEF RingInv, CellsExact
  <2> QED BY <2>1, <2>3, <2>4 DEF RingInv
<1>3. CASE Reset
  <2>1. Cell(size) \in 0 .. N - 1
    BY CellFacts DEF RingInv, TypeOK
  <2>2. TypeOK'
    BY <1>3, <2>1 DEF RingInv, TypeOK, Reset
  <2>3. EndsMeet'
    BY <1>3, <2>1 DEF RingInv, TypeOK, Reset, EndsMeet, Cell
  <2>4. CellsExact'
    BY <1>3 DEF Reset, CellsExact
  <2> QED BY <2>2, <2>3, <2>4 DEF RingInv
<1>4. CASE UNCHANGED vars
  BY <1>4 DEF vars, RingInv, TypeOK, EndsMeet, CellsExact, Cell
<1> QED BY <1>1, <1>2, <1>3, <1>4 DEF Next

(* RingInv, with the agreement of the two ends and the size that emplace()   *)
(* and pop() rely on, holds in every reachable state.                        *)
THEOREM RingInvariant == Spec => []RingInv
<1> QED BY RingInvInit, RingInvStep, PTL DEF Spec

(* The ends of the ring stay within the memory and the size within N.        *)
THEOREM RingTypes == Spec => []TypeOK
<1>1. RingInv => TypeOK
  BY DEF RingInv
<1> QED BY <1>1, RingInvariant, PTL

(* emplace() constructs an object in a free cell only, and pop() and reset() *)
(* destroy those there are: objects live exactly in the occupied cells.      *)
THEOREM RingCells == Spec => []CellsExact
<1>1. RingInv => CellsExact
  BY DEF RingInv
<1> QED BY <1>1, RingInvariant, PTL

-----------------------------------------------------------------------------
LEMMA ContentsType == RingInv => Contents \in Seq(Values) /\ Len(Contents) = size
<1> SUFFICES ASSUME RingInv PROVE Contents \in Seq(Values) /\ Len(Contents) = size
  OBVIOUS
<1>1. \A i \in 1 .. size : cells[Cell(i - 1)] \in Values
  <2> SUFFICES ASSUME NEW i \in 1 .. size PROVE cells[Cell(i - 1)] \in Values
    OBVIOUS
  <2>1. i - 1 \in 0 .. size - 1 /\ Cell(i - 1) \in 0 .. N - 1
    BY RingAssumption DEF RingInv, TypeOK, Cell
  <2>2. cells[Cell(i - 1)] # NoValue
    BY <2>1 DEF RingInv, CellsExact
  <2> QED BY <2>1, <2>2 DEF RingInv, TypeOK
<1>2. size \in Nat
  BY DEF RingInv, TypeOK
<1> QED BY <1>1, <1>2 DEF Contents

(* Append leaves the elements where they are.                                *)
LEMMA AppendedAt ==
    ASSUME NEW s \in Seq(Values), NEW v \in Values
    PROVE  /\ Append(s, v) \in Seq(Values)
           /\ Len(Append(s, v)) = Len(s) + 1
           /\ \A i \in 1 .. Len(s) + 1 : Append(s, v)[i] = IF i <= Len(s) THEN s[i] ELSE v
OBVIOUS

(* Every step of the ring is one of the abstract queue, or none.             *)
LEMMA RingSimulates ==
    RingInv /\ RingInv' /\ [Next]_vars
        => [Abstract!Emplace \/ Abstract!Pop \/ Abstract!Reset]_Contents
<1> SUFFICES ASSUME RingInv, RingInv', [Next]_vars
             PROVE  Abstract!Emplace \/ Abstract!Pop \/ Abstract!Reset \/ Contents' = Contents
  OBVIOUS
<1> USE RingAssumption
<1>old. /\ Contents \in Seq(Values) /\ Len(Contents) = size
      /\ \A i \in 1 .. size : Contents[i] = cells[Cell(i - 1)]
  BY ContentsType DEF Contents
<1>new. (Contents \in Seq(Values) /\ Len(Contents) = size)'
  BY ContentsType, PTL
<1>1. ASSUME NEW v \in Values, Emplace(v) PROVE Abstract!Emplace
  <2>1. /\ size \in 0 .. N - 1 /\ size' = size + 1 /\ begin' = begin
        /\ Cell(size) \in 0 .. N - 1
        /\ cells' = [cells EXCEPT ![Cell(size)] = v]
    BY <1>1, EmplaceFacts
  <2>2. \A i \in 1 .. size + 1 : Cell(i - 1)' = Cell(i - 1) /\ Cell(i - 1) \in 0 .. N - 1
    BY <2>1 DEF Cell, RingInv, TypeOK
  <2>3. \A i \in 1 .. size : Cell(i - 1) # Cell(size)
    BY <2>1, CellFacts DEF RingInv
  <2>4. \A i \in 1 .. size : cells'[Cell(i - 1)] = Contents[i]
    BY <1>old, <2>1, <2>2, <2>3 DEF RingInv, TypeOK
  <2>5. cells'[Cell(size)] = v
    BY <2>1 DEF RingInv, TypeOK
  <2>6. \A i \in 1 .. size + 1 : Contents'[i] = IF i <= size THEN Contents[i] ELSE v
    BY <2>1, <2>2, <2>4, <2>5 DEF Contents
  <2>7. /\ Append(Contents, v) \in Seq(Values)
        /\ Len(Append(Contents, v)) = size + 1
        /\ \A i \in 1 .. size + 1 :
              Append(Contents, v)[i] = IF i <= size THEN Contents[i] ELSE v
    BY <1>old, AppendedAt
  <2>8. Contents' = Append(Contents, v)
    BY <1>new, <2>1, <2>6, <2>7, SeqEqual
  <2> QED BY <1>old, <2>1, <2>8 DEF Abstract!Emplace
<1>2. CASE Pop
  <2>1. /\ size \in 1 .. N
        /\ size' = size - 1
        /\ cells' = [cells EXCEPT ![begin] = NoValue]
        /\ \A k \in 0 .. N - 1 : Cell(k)' = Cell(k + 1)
    BY <1>2 DEF RingInv, TypeOK, Pop, Empty, Cell
  <2>2. \A i \in 1 .. size - 1 : Cell(i) # begin /\ Cell(i) \in 0 .. N - 1
    BY <2>1 DEF RingInv, TypeOK, Cell
  <2>3. \A i \in 1 .. size - 1 : cells'[Cell(i)] = Contents[i + 1]
    BY <1>old, <2>1, <2>2 DEF RingInv, TypeOK
  <2>4. \A i \in 1 .. size - 1 : Contents'[i] = Contents[i + 1]
    BY <2>1, <2>3 DEF Contents
  <2>5. Contents # <<>>
    BY <1>old, <2>1
  <2>6. /\ Tail(Contents) \in Seq(Values)
        /\ Len(Tail(Contents)) = size - 1
        /\ \A i \in 1 .. size - 1 : Tail(Contents)[i] = Contents[i + 1]
    BY <1>old, <2>1, <2>5, HeadTailProperties
  <2>7. Contents' = Tail(Contents)
    BY <1>new, <2>1, <2>4, <2>6, SeqEqual
  <2> QED BY <2>5, <2>7 DEF Abstract!Pop
<1>3. CASE Reset
  <2>1. Contents' = <<>>
    BY <1>3, ContentsType DEF Reset, Contents
  <2> QED BY <2>1 DEF Abstract!Reset
<1>4. CASE UNCHANGED vars
  BY <1>4 DEF vars, Contents, Cell
<1> QED BY <1>1, <1>2, <1>3, <1>4 DEF Next

(* The ring implements the bounded first-in first-out queue that Queue,      *)
(* Queue2 and their users rely on, for every number of cells and all values. *)
THEOREM RingIsFifo == Spec => ImplementsFifo
<1>1. Init => Abstract!Init
  BY DEF Init, Abstract!Init, Contents
<1>2. RingInv /\ RingInv' /\ [Next]_vars
        => [Abstract!Emplace \/ Abstract!Pop \/ Abstract!Reset]_Contents
  BY RingSimulates
<1> QED BY <1>1, <1>2, RingInvariant, PTL DEF Spec, ImplementsFifo, Abstract!Spec

-----------------------------------------------------------------------------
(* Results. An outcome is due in several variables only when it was copied,  *)
(* and what is due was made and not yet looked at, or copied.                *)
ResRecords ==
    [kind : [Slots -> {Unborn, "Result", "ResultStrict"}], due : [Slots -> Ids \cup {None}],
     unseen : SUBSET Ids, made : SUBSET Ids, over : SUBSET Ids, copied : SUBSET Ids,
     stopped : Ids \cup {None}]

DueInv(s) ==
    /\ \A x \in Slots : s.kind[x] = Unborn => s.due[x] = None
    /\ \A x \in Slots : s.due[x] # None => s.due[x] \in s.unseen \cup s.copied
    /\ \A x, y \in Slots : x # y /\ s.due[x] = s.due[y] /\ s.due[x] # None
                             => s.due[x] \in s.copied
    /\ s.unseen \subseteq s.made /\ s.copied \subseteq s.made

UnseenInv(s) == \A i \in s.unseen \ s.over : \E x \in Slots : s.due[x] = i

StoppedInv(s) == s.stopped # None => s.stopped \in s.unseen \cup s.copied

ResInv(s) == s \in ResRecords /\ DueInv(s) /\ UnseenInv(s) /\ StoppedInv(s)

(* A function returns an outcome that was not made before, into a variable   *)
(* that has none.                                                            *)
LEMMA ResultReturn ==
    ASSUME NEW s, ResInv(s), NEW x \in Slots, NEW k \in {"Result", "ResultStrict"}, NEW i \in Ids,
           s.due[x] = None, i \notin s.made, s.stopped = None
    PROVE  ResInv(Res!Return(s, x, k, i))
<1> DEFINE t == Res!Return(s, x, k, i)
<1> USE DataAssumption DEF Res!Apart
<1>1. /\ t \in ResRecords
      /\ t.due = [s.due EXCEPT ![x] = i] /\ t.kind = [s.kind EXCEPT ![x] = k]
      /\ t.unseen = s.unseen \cup {i} /\ t.made = s.made \cup {i}
      /\ t.over = s.over /\ t.copied = s.copied /\ t.stopped = s.stopped
  BY DEF ResInv, ResRecords, Res!Return
<1> HIDE DEF t
<1>2. DueInv(t)
  BY <1>1 DEF ResInv, ResRecords, DueInv
<1>3. UnseenInv(t)
  BY <1>1 DEF ResInv, ResRecords, DueInv, UnseenInv
<1>4. StoppedInv(t)
  BY <1>1 DEF StoppedInv
<1>5. ResInv(t)
  BY <1>1, <1>2, <1>3, <1>4 DEF ResInv
<1> QED BY <1>5 DEF t

(* Outcomes change places: x takes what y has, or a copy of it.              *)
Takes(s, t, x, y) ==
    /\ x # y /\ s.due[x] = None
    /\ t.unseen = s.unseen /\ t.made = s.made /\ t.over = s.over /\ t.stopped = s.stopped
    /\ \A z \in Slots \ {x} : t.kind[z] = s.kind[z]
    /\ t.kind[x] = Unborn => s.kind[y] = Unborn
    /\ \/ /\ t.due = [s.due EXCEPT ![x] = s.due[y], ![y] = None]
          /\ t.copied = s.copied
       \/ /\ t.due = [s.due EXCEPT ![x] = s.due[y]]
          /\ t.copied = s.copied \cup ({s.due[y]} \ {None})

LEMMA ResultTakes ==
    ASSUME NEW s, NEW t \in ResRecords, NEW x \in Slots, NEW y \in Slots, ResInv(s),
           Takes(s, t, x, y)
    PROVE  ResInv(t)
<1> USE DataAssumption DEF Res!Apart, Takes
<1>1. DueInv(t)
  BY DEF ResInv, ResRecords, DueInv
<1>2. UnseenInv(t)
  BY DEF ResInv, ResRecords, DueInv, UnseenInv
<1>3. StoppedInv(t)
  BY DEF ResInv, StoppedInv
<1> QED BY <1>1, <1>2, <1>3 DEF ResInv

(* An outcome is looked at: it is due nowhere else, unless it was copied.    *)
LEMMA ResultSeen ==
    ASSUME NEW s, ResInv(s), NEW x \in Slots, s.stopped = None
    PROVE  /\ ResInv(Res!Seen(s, x))
           /\ Res!Seen(s, x).due = [s.due EXCEPT ![x] = None]
           /\ Res!Seen(s, x).kind = s.kind /\ Res!Seen(s, x).made = s.made
           /\ Res!Seen(s, x).stopped = None
<1> DEFINE t == Res!Seen(s, x)
<1> USE DataAssumption DEF Res!Apart
<1>1. /\ t \in ResRecords
      /\ t.due = [s.due EXCEPT ![x] = None] /\ t.kind = s.kind
      /\ t.unseen = s.unseen \ {s.due[x]} /\ t.made = s.made
      /\ t.over = s.over /\ t.copied = s.copied /\ t.stopped = s.stopped
  BY DEF ResInv, ResRecords, Res!Seen
<1> HIDE DEF t
<1>2. DueInv(t)
  BY <1>1 DEF ResInv, ResRecords, DueInv
<1>3. UnseenInv(t)
  BY <1>1 DEF ResInv, ResRecords, DueInv, UnseenInv
<1>4. StoppedInv(t)
  BY <1>1 DEF StoppedInv
<1>5. ResInv(t)
  BY <1>1, <1>2, <1>3, <1>4 DEF ResInv
<1> QED BY <1>1, <1>5 DEF t

(* A ResultStrict that is assigned over empties itself.                      *)
LEMMA ResultOverwritten ==
    ASSUME NEW s, ResInv(s), NEW x \in Slots, s.stopped = None
    PROVE  /\ ResInv(Res!Overwrite(s, x))
           /\ Res!Overwrite(s, x).due = [s.due EXCEPT ![x] = None]
           /\ Res!Overwrite(s, x).kind = s.kind
<1> DEFINE t == Res!Overwrite(s, x)
<1> USE DataAssumption DEF Res!Apart
<1>a. s.over \subseteq Ids /\ s.due[x] \in Ids \cup {None}
  BY DEF ResInv, ResRecords
<1>0. PICK e \in SUBSET Ids : e = s.over \cup ({s.due[x]} \ {None})
  BY <1>a
<1>1. /\ t \in ResRecords
      /\ t.due = [s.due EXCEPT ![x] = None] /\ t.kind = s.kind
      /\ t.unseen = s.unseen /\ t.made = s.made
      /\ t.over = e
      /\ t.copied = s.copied /\ t.stopped = s.stopped
  <2>1. t = [s EXCEPT !.due[x] = None, !.over = e]
    BY <1>0 DEF Res!Overwrite, ResInv, ResRecords
  <2> HIDE DEF t
  <2> QED BY <2>1 DEF ResInv, ResRecords
<1> HIDE DEF t
<1>2. DueInv(t)
  BY <1>0, <1>1 DEF ResInv, ResRecords, DueInv
<1>3. UnseenInv(t)
  BY <1>0, <1>1 DEF ResInv, ResRecords, DueInv, UnseenInv
<1>4. StoppedInv(t)
  BY <1>1 DEF StoppedInv
<1>5. ResInv(t)
  BY <1>1, <1>2, <1>3, <1>4 DEF ResInv
<1> QED BY <1>1, <1>5 DEF t

(* A check stops the program for what is due.                                *)
LEMMA ResultStop ==
    ASSUME NEW s, ResInv(s), NEW x \in Slots, s.due[x] # None
    PROVE  ResInv(Res!Stop(s, x))
<1> DEFINE t == Res!Stop(s, x)
<1>1. /\ t \in ResRecords
      /\ t.due = s.due /\ t.kind = s.kind /\ t.unseen = s.unseen /\ t.made = s.made
      /\ t.over = s.over /\ t.copied = s.copied /\ t.stopped = s.due[x]
  BY DEF ResInv, ResRecords, Res!Stop
<1>2. s.due[x] \in s.unseen \cup s.copied
  BY DEF ResInv, DueInv
<1> HIDE DEF t
<1>3. ResInv(t)
  BY <1>1, <1>2 DEF ResInv, DueInv, UnseenInv, StoppedInv
<1> QED BY <1>3 DEF t

(* Every step of Results keeps the invariant.                                *)
LEMMA ResStep == ResInv(n) /\ [Res!Next]_n => ResInv(n')
<1> SUFFICES ASSUME ResInv(n), [Res!Next]_n PROVE ResInv(n')
  OBVIOUS
<1> USE DataAssumption DEF Res!Apart, Res!Runs, Res!Born, Res!Strict
<1>0. /\ n \in ResRecords /\ n.due \in [Slots -> Ids \cup {None}]
      /\ n.kind \in [Slots -> {Unborn, "Result", "ResultStrict"}] /\ n.copied \subseteq Ids
      /\ \A x \in Slots : n.kind[x] = Unborn => n.due[x] = None
  BY DEF ResInv, ResRecords, DueInv
<1>1. CASE UNCHANGED n
  BY <1>1
<1>2. ASSUME NEW x \in Slots, Res!Unwrap(x) PROVE ResInv(n')
  BY <1>2, ResultSeen DEF Res!Unwrap
<1>3. ASSUME NEW x \in Slots, Res!Destroy(x) PROVE ResInv(n')
  <2>1. CASE n.due[x] # None
    BY <1>3, <2>1, ResultStop DEF Res!Destroy
  <2>2. CASE n.due[x] = None
    <3>1. n' = [n EXCEPT !.kind[x] = Unborn]
      BY <1>3, <2>2 DEF Res!Destroy
    <3>2. /\ n' \in ResRecords /\ n'.kind = [n.kind EXCEPT ![x] = Unborn] /\ n'.due = n.due
          /\ n'.unseen = n.unseen /\ n'.made = n.made /\ n'.over = n.over
          /\ n'.copied = n.copied /\ n'.stopped = n.stopped
      BY <3>1, <1>0 DEF ResRecords
    <3>3. DueInv(n')
      BY <1>0, <3>2, <2>2 DEF ResInv, DueInv
    <3> QED BY <3>2, <3>3 DEF ResInv, UnseenInv, StoppedInv
  <2> QED BY <2>1, <2>2
<1>4. ASSUME NEW x \in Slots, NEW k \in {"Result", "ResultStrict"}, NEW i \in Ids,
             Res!Construct(x, k, i)
      PROVE  ResInv(n')
  BY <1>0, <1>4, ResultReturn DEF Res!Construct
<1>5. ASSUME NEW x \in Slots, NEW y \in Slots, Res!MoveConstruct(x, y) PROVE ResInv(n')
  <2>1. n.due[x] = None /\ x # y
    BY <1>0, <1>5 DEF Res!MoveConstruct
  <2>2. n' = [n EXCEPT !.kind[x] = n.kind[y], !.due[x] = n.due[y], !.due[y] = None]
    BY <1>5 DEF Res!MoveConstruct
  <2>3. /\ n' \in ResRecords /\ n'.due = [n.due EXCEPT ![x] = n.due[y], ![y] = None]
        /\ n'.kind = [n.kind EXCEPT ![x] = n.kind[y]] /\ n'.unseen = n.unseen
        /\ n'.made = n.made /\ n'.over = n.over
        /\ n'.copied = n.copied /\ n'.stopped = n.stopped
    BY <1>0, <2>2 DEF ResRecords
  <2>4. /\ \A z \in Slots \ {x} : n'.kind[z] = n.kind[z]
        /\ n'.kind[x] = n.kind[y]
    BY <1>0, <2>3
  <2>5. Takes(n, n', x, y)
    BY <2>1, <2>3, <2>4 DEF Takes
  <2> QED BY <2>3, <2>5, ResultTakes
<1>6. ASSUME NEW x \in Slots, NEW y \in Slots, Res!CopyConstruct(x, y) PROVE ResInv(n')
  <2>1. n.due[x] = None /\ x # y
    BY <1>0, <1>6 DEF Res!CopyConstruct
  <2>2. n' = [n EXCEPT !.kind[x] = n.kind[y], !.due[x] = n.due[y],
                       !.copied = @ \cup ({n.due[y]} \ {None})]
    BY <1>6 DEF Res!CopyConstruct
  <2>3. PICK e \in SUBSET Ids : e = n.copied \cup ({n.due[y]} \ {None})
    BY <1>0
  <2>4. /\ n' \in ResRecords /\ n'.due = [n.due EXCEPT ![x] = n.due[y]]
        /\ n'.kind = [n.kind EXCEPT ![x] = n.kind[y]] /\ n'.unseen = n.unseen
        /\ n'.made = n.made /\ n'.over = n.over
        /\ n'.copied = e /\ n'.stopped = n.stopped
    BY <1>0, <2>2, <2>3 DEF ResRecords
  <2>5. /\ \A z \in Slots \ {x} : n'.kind[z] = n.kind[z]
        /\ n'.kind[x] = n.kind[y]
    BY <1>0, <2>4
  <2>6. Takes(n, n', x, y)
    BY <2>1, <2>3, <2>4, <2>5 DEF Takes
  <2> QED BY <2>4, <2>6, ResultTakes
<1>7. ASSUME NEW x \in Slots, NEW y \in Slots, Res!MoveAssign(x, y) PROVE ResInv(n')
  <2>1. CASE n.due[x] # None
    BY <1>7, <2>1, ResultStop DEF Res!MoveAssign
  <2>2. CASE n.due[x] = None /\ x # y
    <3>1. /\ n' = [n EXCEPT !.due = [@ EXCEPT ![x] = n.due[y], ![y] = None]]
          /\ n.kind[x] # Unborn
      BY <1>7, <2>2 DEF Res!MoveAssign
    <3>2. [n.due EXCEPT ![x] = n.due[y], ![y] = None] \in [Slots -> Ids \cup {None}]
      BY <1>0
    <3>3. /\ n' \in ResRecords /\ n'.due = [n.due EXCEPT ![x] = n.due[y], ![y] = None]
          /\ n'.kind = n.kind /\ n'.unseen = n.unseen /\ n'.made = n.made /\ n'.over = n.over
          /\ n'.copied = n.copied /\ n'.stopped = n.stopped
      BY <1>0, <3>1, <3>2 DEF ResRecords
    <3>4. Takes(n, n', x, y)
      BY <3>1, <3>3, <2>2 DEF Takes
    <3> QED BY <3>3, <3>4, ResultTakes
  <2>3. CASE n.due[x] = None /\ x = y
    <3>1. n' = n
      BY <1>0, <1>7, <2>3 DEF Res!MoveAssign, ResRecords
    <3> QED BY <3>1
  <2> QED BY <2>1, <2>2, <2>3
<1>8. ASSUME NEW x \in Slots, NEW y \in Slots, NEW move \in BOOLEAN, Res!AssignStrict(x, y, move)
      PROVE  ResInv(n')
  <2>1. PICK s : s = Res!Overwrite(n, x)
    OBVIOUS
  <2>2. /\ ResInv(s) /\ s.due = [n.due EXCEPT ![x] = None] /\ s.kind = n.kind
        /\ s.kind[x] # Unborn
    BY <1>8, <2>1, ResultOverwritten DEF Res!AssignStrict
  <2>3. /\ s \in ResRecords /\ s.due \in [Slots -> Ids \cup {None}] /\ s.due[x] = None
        /\ s.copied \subseteq Ids
    BY <1>0, <2>2 DEF ResInv, ResRecords
  <2>4. n' = IF move THEN [s EXCEPT !.due = [@ EXCEPT ![x] = s.due[y], ![y] = None]]
             ELSE [s EXCEPT !.due[x] = s.due[y], !.copied = @ \cup ({s.due[y]} \ {None})]
    BY <1>8, <2>1 DEF Res!AssignStrict
  <2>5. CASE x = y
    <3>1. s.copied \cup ({s.due[y]} \ {None}) = s.copied
      BY <2>3, <2>5
    <3>2. [s.due EXCEPT ![x] = s.due[y]] = s.due
          /\ [s.due EXCEPT ![x] = s.due[y], ![y] = None] = s.due
      BY <2>3, <2>5
    <3>3. n' = IF move THEN [s EXCEPT !.due = s.due]
               ELSE [s EXCEPT !.due = s.due, !.copied = s.copied]
      BY <2>4, <3>1, <3>2
    <3>4. [s EXCEPT !.due = s.due] = s /\ [s EXCEPT !.due = s.due, !.copied = s.copied] = s
      BY <2>3 DEF ResRecords
    <3>5. n' = s
      BY <3>3, <3>4, Zenon
    <3> QED BY <2>2, <3>5
  <2>6. CASE x # y /\ move
    <3>1. n' = [s EXCEPT !.due = [@ EXCEPT ![x] = s.due[y], ![y] = None]]
      BY <2>4, <2>6
    <3>2. [s.due EXCEPT ![x] = s.due[y], ![y] = None] \in [Slots -> Ids \cup {None}]
      BY <2>3
    <3>3. /\ n' \in ResRecords /\ n'.due = [s.due EXCEPT ![x] = s.due[y], ![y] = None]
          /\ n'.kind = s.kind /\ n'.unseen = s.unseen /\ n'.made = s.made /\ n'.over = s.over
          /\ n'.copied = s.copied /\ n'.stopped = s.stopped
      BY <2>3, <3>1, <3>2 DEF ResRecords
    <3>4. Takes(s, n', x, y)
      BY <2>2, <2>3, <3>3, <2>6 DEF Takes
    <3> QED BY <2>2, <3>3, <3>4, ResultTakes
  <2>7. CASE x # y /\ ~move
    <3>1. n' = [s EXCEPT !.due[x] = s.due[y], !.copied = @ \cup ({s.due[y]} \ {None})]
      BY <2>4, <2>7
    <3>2. PICK e \in SUBSET Ids : e = s.copied \cup ({s.due[y]} \ {None})
      BY <2>3
    <3>3. /\ n' \in ResRecords /\ n'.due = [s.due EXCEPT ![x] = s.due[y]]
          /\ n'.copied = e
          /\ n'.kind = s.kind /\ n'.unseen = s.unseen /\ n'.made = s.made /\ n'.over = s.over
          /\ n'.stopped = s.stopped
      BY <2>3, <3>1, <3>2 DEF ResRecords
    <3>4. Takes(s, n', x, y)
      BY <2>2, <2>3, <3>2, <3>3, <2>7 DEF Takes
    <3> QED BY <2>2, <3>3, <3>4, ResultTakes
  <2> QED BY <2>5, <2>6, <2>7
<1>9. ASSUME NEW x \in Slots, NEW y \in Slots, NEW i \in Ids, Res!CallStrict(x, y, i)
      PROVE  ResInv(n')
  <2>1. PICK s : s = Res!Seen(n, x)
    OBVIOUS
  <2>2. /\ ResInv(s) /\ s.due = [n.due EXCEPT ![x] = None] /\ s.made = n.made /\ s.stopped = None
    BY <1>9, <2>1, ResultSeen DEF Res!CallStrict
  <2>3. s.due[y] = None /\ i \notin s.made
    BY <1>0, <1>9, <2>2 DEF Res!CallStrict
  <2>4. n' = Res!Return(s, y, "Result", i)
    BY <1>9, <2>1 DEF Res!CallStrict
  <2> QED BY <2>2, <2>3, <2>4, ResultReturn
<1> QED BY <1>1, <1>2, <1>3, <1>4, <1>5, <1>6, <1>7, <1>8, <1>9 DEF Res!Next

(* No outcome of a Result or ResultStrict is lost unseen, and the checks     *)
(* stop the program for none that was looked at, whatever moves, copies and  *)
(* assignments a program makes with any number of variables.                 *)
THEOREM ResultsAreSound == MCSpec => [](Res!ResultsAreSeen)
<1>1. MCInit => ResInv(n)
  <2> SUFFICES ASSUME MCInit PROVE ResInv(n)
    OBVIOUS
  <2>1. n = [kind |-> [x \in Slots |-> Unborn], due |-> [x \in Slots |-> None],
             unseen |-> {}, made |-> {}, over |-> {}, copied |-> {}, stopped |-> None]
    BY DEF MCInit, Res!Init
  <2>2. n \in ResRecords
    BY <2>1 DEF ResRecords
  <2> QED BY <2>1, <2>2 DEF ResInv, DueInv, UnseenInv, StoppedInv
<1>2. ResInv(n) /\ [MCNext]_allVars => ResInv(n)'
  BY ResStep DEF MCNext, allVars
<1>3. ResInv(n) => Res!ResultsAreSeen
  BY DEF ResInv, UnseenInv, StoppedInv, Res!ResultsAreSeen
<1> QED BY <1>1, <1>2, <1>3, PTL DEF MCSpec, allVars

-----------------------------------------------------------------------------
(* Addresses. Unless a call has failed since, the memory has the family, the *)
(* length and the part of the address that was last asked for.               *)
AddrRecords ==
    [family : {"UNSPEC", "INET", "INET6", "UNIX", "none"}, port : Ports \cup {0},
     word : Words \cup {0}, wide : Wides \cup {0}, size : {0, 16, 28}]

Is(s, w) ==
    /\ s.family = w.family /\ s.port = w.port /\ s.size = w.size
    /\ \/ s.family = "INET" /\ s.word = w.word /\ s.size = 16
       \/ s.family = "INET6" /\ s.wide = w.wide /\ s.size = 28

AddrInv ==
    /\ a \in [addr : AddrRecords, want : AddrRecords, spoiled : BOOLEAN, checker : BOOLEAN,
              bound : AddrRecords, for : AddrRecords]
    /\ ~a.spoiled => IF a.want.size = 0 THEN a.addr.family = "UNSPEC" ELSE Is(a.addr, a.want)
    /\ a.bound.size > 0 => Is(a.bound, a.for)

(* What the calls on an address return.                                      *)
LEMMA SetPortFacts ==
    ASSUME NEW s \in AddrRecords, NEW port \in Ports, NEW r, r = Addr!SetPort(s, port)
    PROVE  /\ r.addr \in AddrRecords
           /\ r.status = "Ok" <=> s.family \in {"INET", "INET6"}
           /\ r.status = "Ok" => /\ r.addr.family = s.family /\ r.addr.port = port
                                 /\ r.addr.word = s.word /\ r.addr.wide = s.wide
                                 /\ r.addr.size = IF s.family = "INET" THEN 16 ELSE 28
           /\ r.status # "Ok" => r.addr = s
BY DEF AddrRecords, Addr!SetPort, Addr!Commit, Addr!Fail, Addr!SizeOf

LEMMA SetAddressFacts ==
    ASSUME NEW s \in AddrRecords, NEW text \in Addr!Spellings,
           NEW r, r = Addr!SetAddress(s, text)
    PROVE  /\ r.addr \in AddrRecords
           /\ r.status = "Ok" <=> text.family # "none"
           /\ r.status = "Ok" =>
                /\ r.addr.family = text.family /\ r.addr.port = s.port
                /\ \/ text.family = "INET" /\ r.addr.word = text.at /\ r.addr.size = 16
                   \/ text.family = "INET6" /\ r.addr.wide = text.at /\ r.addr.size = 28
           /\ r.status # "Ok" => r.addr.size = s.size
<1>1. CASE text.family = "INET"
  <2>1. text.at \in Words
    BY <1>1 DEF Addr!Spellings
  <2>2. r = [addr |-> [s EXCEPT !.family = "INET", !.word = text.at, !.size = 16],
             status |-> "Ok"]
    BY <1>1 DEF AddrRecords, Addr!SetAddress, Addr!Commit, Addr!SizeOf
  <2>3. PICK q \in AddrRecords : q = [s EXCEPT !.family = "INET", !.word = text.at, !.size = 16]
    BY <2>1 DEF AddrRecords
  <2>4. /\ q.family = "INET" /\ q.word = text.at /\ q.size = 16 /\ q.port = s.port
    BY <2>3 DEF AddrRecords
  <2>5. r.addr = q /\ r.status = "Ok"
    BY <2>2, <2>3
  <2> QED BY <1>1, <2>4, <2>5
<1>2. CASE text.family = "INET6"
  <2>1. text.at \in Wides
    BY <1>2 DEF Addr!Spellings
  <2>2. r = [addr |-> [s EXCEPT !.family = "INET6", !.wide = text.at, !.size = 28],
             status |-> "Ok"]
    BY <1>2 DEF AddrRecords, Addr!SetAddress, Addr!Commit, Addr!SizeOf
  <2>3. PICK q \in AddrRecords : q = [s EXCEPT !.family = "INET6", !.wide = text.at, !.size = 28]
    BY <2>1 DEF AddrRecords
  <2>4. /\ q.family = "INET6" /\ q.wide = text.at /\ q.size = 28 /\ q.port = s.port
    BY <2>3 DEF AddrRecords
  <2>5. r.addr = q /\ r.status = "Ok"
    BY <2>2, <2>3
  <2> QED BY <1>2, <2>4, <2>5
<1>3. CASE text.family = "none"
  BY <1>3 DEF AddrRecords, Addr!SetAddress, Addr!Fail, Addr!Spellings
<1> QED BY <1>1, <1>2, <1>3 DEF Addr!Spellings

LEMMA SetAddressPortFacts ==
    ASSUME NEW s \in AddrRecords, NEW text \in Addr!Spellings, NEW port \in Ports,
           NEW r, r = Addr!SetAddressPort(s, text, port)
    PROVE  /\ r.addr \in AddrRecords
           /\ r.status = "Ok" <=> text.family # "none"
           /\ r.status = "Ok" =>
                /\ r.addr.family = text.family /\ r.addr.port = port
                /\ \/ text.family = "INET" /\ r.addr.word = text.at /\ r.addr.size = 16
                   \/ text.family = "INET6" /\ r.addr.wide = text.at /\ r.addr.size = 28
           /\ r.status # "Ok" => r.addr.size = s.size
<1>1. PICK q : q = Addr!SetAddress(s, text)
  OBVIOUS
<1>2. r = IF q.status # "Ok" THEN q ELSE Addr!SetPort(q.addr, port)
  BY <1>1 DEF Addr!SetAddressPort
<1>3. CASE q.status # "Ok"
  BY <1>1, <1>2, <1>3, SetAddressFacts
<1>4. CASE q.status = "Ok"
  <2>1. r = Addr!SetPort(q.addr, port) /\ q.addr \in AddrRecords
    BY <1>1, <1>2, <1>4, SetAddressFacts
  <2>2. /\ q.addr.family = text.family /\ text.family # "none"
        /\ \/ text.family = "INET" /\ q.addr.word = text.at
           \/ text.family = "INET6" /\ q.addr.wide = text.at
    BY <1>1, <1>4, SetAddressFacts
  <2>3. r.addr \in AddrRecords /\ r.status = "Ok"
    BY <2>1, <2>2, SetPortFacts
  <2> QED BY <2>1, <2>2, <2>3, SetPortFacts
<1> QED BY <1>3, <1>4

LEMMA WantedFacts ==
    ASSUME NEW family \in {"INET", "INET6", "UNIX", "none"}, NEW to, NEW port \in Ports \cup {0},
           family = "INET" => to \in Words, family = "INET6" => to \in Wides,
           NEW w, w = Addr!Wanted(family, to, port)
    PROVE  /\ w \in AddrRecords /\ w.family = family /\ w.port = port
           /\ family = "INET" => w.word = to /\ w.size = 16
           /\ family = "INET6" => w.wide = to /\ w.size = 28
BY DEF AddrRecords, Addr!Wanted, Addr!Blank, Addr!Zero, Addr!SizeOf

LEMMA SetRawFacts ==
    ASSUME NEW s \in AddrRecords, NEW family \in {"INET", "INET6", "UNIX"}, NEW to,
           NEW port \in Ports, NEW fits \in BOOLEAN,
           family = "INET" => to \in Words, family = "INET6" => to \in Wides,
           NEW r, r = Addr!SetRaw(s, family, to, fits, port)
    PROVE  /\ r.addr \in AddrRecords
           /\ r.status = "Ok" =>
                /\ r.addr.family = family /\ r.addr.port = port
                /\ \/ family = "INET" /\ r.addr.word = to /\ r.addr.size = 16
                   \/ family = "INET6" /\ r.addr.wide = to /\ r.addr.size = 28
<1>1. CASE family = "UNIX" \/ ~fits
  <2>1. PICK q \in AddrRecords : q = [s EXCEPT !.family = family]
    BY DEF AddrRecords
  <2>2. r.addr = q /\ r.status # "Ok"
    BY <1>1, <2>1 DEF Addr!SetRaw, Addr!Fail
  <2> QED BY <2>2
<1>2. CASE family = "INET" /\ fits
  <2>1. PICK q \in AddrRecords :
           q = [s EXCEPT !.family = "INET", !.port = port, !.word = to, !.size = 16]
    BY <1>2 DEF AddrRecords
  <2>2. q.family = "INET" /\ q.port = port /\ q.word = to /\ q.size = 16
    BY <2>1 DEF AddrRecords
  <2>3. r.addr = q
    BY <1>2, <2>1 DEF Addr!SetRaw, Addr!Commit, Addr!SizeOf, AddrRecords
  <2> QED BY <1>2, <2>2, <2>3
<1>3. CASE family = "INET6" /\ fits
  <2>1. PICK q \in AddrRecords :
           q = [s EXCEPT !.family = "INET6", !.port = port, !.wide = to, !.size = 28]
    BY <1>3 DEF AddrRecords
  <2>2. q.family = "INET6" /\ q.port = port /\ q.wide = to /\ q.size = 28
    BY <2>1 DEF AddrRecords
  <2>3. r.addr = q
    BY <1>3, <2>1 DEF Addr!SetRaw, Addr!Commit, Addr!SizeOf, AddrRecords
  <2> QED BY <1>3, <2>2, <2>3
<1> QED BY <1>1, <1>2, <1>3

(* A call returns: with what was wanted, or having spoiled the address. The  *)
(* port alone is as wanted only if the rest was before.                      *)
LEMMA DoneKeeps ==
    ASSUME AddrInv, NEW r, NEW w \in AddrRecords, NEW whole \in BOOLEAN,
           r.addr \in AddrRecords,
           r.status = "Ok" /\ (whole \/ ~a.spoiled) => Is(r.addr, w),
           Addr!Done(r, w, whole)
    PROVE  AddrInv'
<1>1. CASE r.status = "Ok"
  <2>1. PICK b \in BOOLEAN : b = (a.spoiled /\ ~whole)
    OBVIOUS
  <2>2. a' = [a EXCEPT !.addr = r.addr, !.want = w, !.spoiled = b]
    BY <1>1, <2>1 DEF Addr!Done, AddrInv
  <2>3. /\ a' \in [addr : AddrRecords, want : AddrRecords, spoiled : BOOLEAN,
                   checker : BOOLEAN, bound : AddrRecords, for : AddrRecords]
        /\ a'.addr = r.addr /\ a'.want = w /\ a'.spoiled = b /\ a'.bound = a.bound
        /\ a'.for = a.for
    BY <2>2 DEF AddrInv
  <2>4. a.spoiled \in BOOLEAN
    BY DEF AddrInv
  <2>5. ~b => Is(r.addr, w) /\ w.size # 0
    BY <1>1, <2>1, <2>4 DEF Is
  <2> QED BY <2>3, <2>5 DEF AddrInv
<1>2. CASE r.status # "Ok"
  <2>1. a' = [a EXCEPT !.addr = r.addr, !.spoiled = TRUE]
    BY <1>2 DEF Addr!Done
  <2> QED BY <2>1 DEF AddrInv
<1> QED BY <1>1, <1>2

(* Every step of Address keeps the invariant.                                *)
LEMMA AddrStep == AddrInv /\ [Addr!Next]_a => AddrInv'
<1> SUFFICES ASSUME AddrInv, [Addr!Next]_a PROVE AddrInv'
  OBVIOUS
<1>0. a.addr \in AddrRecords /\ a.want \in AddrRecords /\ a.spoiled \in BOOLEAN
  BY DEF AddrInv
<1>b. PICK blank \in AddrRecords : blank = Addr!Blank
  BY DEF AddrRecords, Addr!Blank, Addr!Zero
<1>c. blank.family = "UNSPEC" /\ blank.size = 0
  BY <1>b DEF Addr!Blank
<1>1. CASE UNCHANGED a
  BY <1>1 DEF AddrInv
<1>2. CASE Addr!Clear
  <2>1. a' = [a EXCEPT !.addr = blank, !.want = blank, !.spoiled = FALSE]
    BY <1>2, <1>b DEF Addr!Clear
  <2> QED BY <2>1, <1>c DEF AddrInv
<1>3. CASE Addr!Ask
  BY <1>3 DEF Addr!Ask, AddrInv
<1>4. CASE Addr!Refused
  BY <1>4 DEF Addr!Refused, AddrInv
<1>5. ASSUME NEW port \in Ports, Addr!PortCall(port) PROVE AddrInv'
  <2>1. PICK r : r = Addr!SetPort(a.addr, port)
    OBVIOUS
  <2>2. PICK w \in AddrRecords : w = [a.want EXCEPT !.port = port]
    BY <1>0 DEF AddrRecords
  <2>3. w.family = a.want.family /\ w.port = port /\ w.word = a.want.word
        /\ w.wide = a.want.wide /\ w.size = a.want.size
    BY <1>0, <2>2 DEF AddrRecords
  <2>4. /\ r.addr \in AddrRecords
        /\ r.status = "Ok" <=> a.addr.family \in {"INET", "INET6"}
        /\ r.status = "Ok" => /\ r.addr.family = a.addr.family /\ r.addr.port = port
                              /\ r.addr.word = a.addr.word /\ r.addr.wide = a.addr.wide
                              /\ r.addr.size = IF a.addr.family = "INET" THEN 16 ELSE 28
    BY <1>0, <2>1, SetPortFacts
  <2>5. r.status = "Ok" /\ ~a.spoiled => Is(r.addr, w)
    BY <2>3, <2>4 DEF AddrInv, Is
  <2>6. Addr!Done(r, w, FALSE)
    BY <1>5, <2>1, <2>2 DEF Addr!PortCall
  <2> QED BY <2>4, <2>5, <2>6, DoneKeeps
<1>6. ASSUME NEW text \in Addr!Spellings, Addr!AddressCall(text) PROVE AddrInv'
  <2>1. PICK r : r = Addr!SetAddress(a.addr, text)
    OBVIOUS
  <2>2. PICK w : w = Addr!Wanted(text.family, text.at, a.addr.port)
    OBVIOUS
  <2>3. /\ text.family \in {"INET", "INET6", "none"} /\ a.addr.port \in Ports \cup {0}
        /\ text.family = "INET" => text.at \in Words
        /\ text.family = "INET6" => text.at \in Wides
    BY <1>0 DEF AddrRecords, Addr!Spellings
  <2>4. /\ w \in AddrRecords /\ w.family = text.family /\ w.port = a.addr.port
        /\ text.family = "INET" => w.word = text.at /\ w.size = 16
        /\ text.family = "INET6" => w.wide = text.at /\ w.size = 28
    BY <2>2, <2>3, WantedFacts
  <2>5. /\ r.addr \in AddrRecords
        /\ r.status = "Ok" => Is(r.addr, w)
    BY <1>0, <2>1, <2>4, SetAddressFacts DEF Is
  <2>6. Addr!Done(r, w, TRUE)
    BY <1>6, <2>1, <2>2 DEF Addr!AddressCall
  <2> QED BY <2>4, <2>5, <2>6, DoneKeeps
<1>7. ASSUME NEW text \in Addr!Spellings, NEW port \in Ports, Addr!AddressPortCall(text, port)
      PROVE  AddrInv'
  <2>1. PICK r : r = Addr!SetAddressPort(a.addr, text, port)
    OBVIOUS
  <2>2. PICK w : w = Addr!Wanted(text.family, text.at, port)
    OBVIOUS
  <2>3. /\ text.family \in {"INET", "INET6", "none"}
        /\ text.family = "INET" => text.at \in Words
        /\ text.family = "INET6" => text.at \in Wides
    BY DEF Addr!Spellings
  <2>4. /\ w \in AddrRecords /\ w.family = text.family /\ w.port = port
        /\ text.family = "INET" => w.word = text.at /\ w.size = 16
        /\ text.family = "INET6" => w.wide = text.at /\ w.size = 28
    BY <2>2, <2>3, WantedFacts
  <2>5. /\ r.addr \in AddrRecords
        /\ r.status = "Ok" => Is(r.addr, w)
    BY <1>0, <2>1, <2>4, SetAddressPortFacts DEF Is
  <2>6. Addr!Done(r, w, TRUE)
    BY <1>7, <2>1, <2>2 DEF Addr!AddressPortCall
  <2> QED BY <2>4, <2>5, <2>6, DoneKeeps
<1>8. ASSUME NEW text \in Addr!Spellings, NEW port \in Ports, Addr!Bind(text, port)
      PROVE  AddrInv'
  <2>1. PICK r : r = Addr!SetAddressPort(blank, text, port)
    OBVIOUS
  <2>2. PICK w : w = Addr!Wanted(text.family, text.at, port)
    OBVIOUS
  <2>3. /\ text.family \in {"INET", "INET6", "none"}
        /\ text.family = "INET" => text.at \in Words
        /\ text.family = "INET6" => text.at \in Wides
    BY DEF Addr!Spellings
  <2>4. /\ w \in AddrRecords /\ w.family = text.family /\ w.port = port
        /\ text.family = "INET" => w.word = text.at /\ w.size = 16
        /\ text.family = "INET6" => w.wide = text.at /\ w.size = 28
    BY <2>2, <2>3, WantedFacts
  <2>5. /\ r.addr \in AddrRecords
        /\ r.addr.size > 0 => Is(r.addr, w)
    BY <1>c, <2>1, <2>4, SetAddressPortFacts DEF Is
  <2>6. a' = [a EXCEPT !.bound = r.addr, !.for = w]
    BY <1>8, <1>b, <2>1, <2>2 DEF Addr!Bind
  <2> QED BY <2>4, <2>5, <2>6 DEF AddrInv
<1>9. ASSUME NEW text \in Addr!Spellings, NEW port \in Ports, Addr!Answer(text, port)
      PROVE  AddrInv'
  <2>2. PICK w : w = Addr!Wanted(text.family, text.at, port)
    OBVIOUS
  <2>3. /\ text.family \in {"INET", "INET6"}
        /\ text.family = "INET" => text.at \in Words
        /\ text.family = "INET6" => text.at \in Wides
    BY <1>9 DEF Addr!Spellings, Addr!Answer
  <2>4. /\ w \in AddrRecords /\ w.family = text.family /\ w.port = port
        /\ text.family = "INET" => w.word = text.at /\ w.size = 16
        /\ text.family = "INET6" => w.wide = text.at /\ w.size = 28
    BY <2>2, <2>3, WantedFacts
  <2>5. Addr!Commit(w, Addr!SizeOf(text.family)).addr = w
    BY <2>3, <2>4 DEF Addr!Commit, Addr!SizeOf, AddrRecords
  <2>6. a' = [a EXCEPT !.addr = w, !.want = w, !.spoiled = FALSE, !.checker = FALSE]
    BY <1>9, <2>2, <2>5 DEF Addr!Answer
  <2>7. Is(w, w) /\ w.size # 0
    BY <2>3, <2>4 DEF Is
  <2> QED BY <2>4, <2>6, <2>7 DEF AddrInv
<1>10. ASSUME NEW family \in {"INET", "INET6", "UNIX"}, NEW to, NEW fits \in BOOLEAN,
              NEW port \in Ports, family = "INET" => to \in Words,
              family = "INET6" => to \in Wides, Addr!RawCall(family, to, fits, port)
       PROVE  AddrInv'
  <2>1. PICK r : r = Addr!SetRaw(a.addr, family, to, fits, port)
    OBVIOUS
  <2>2. PICK w : w = Addr!Wanted(family, to, port)
    OBVIOUS
  <2>4. /\ w \in AddrRecords /\ w.family = family /\ w.port = port
        /\ family = "INET" => w.word = to /\ w.size = 16
        /\ family = "INET6" => w.wide = to /\ w.size = 28
    BY <1>10, <2>2, WantedFacts
  <2>5. /\ r.addr \in AddrRecords
        /\ r.status = "Ok" => Is(r.addr, w)
    BY <1>0, <1>10, <2>1, <2>4, SetRawFacts DEF Is
  <2>6. Addr!Done(r, w, TRUE)
    BY <1>10, <2>1, <2>2 DEF Addr!RawCall
  <2> QED BY <2>4, <2>5, <2>6, DoneKeeps
<1> QED BY <1>1, <1>2, <1>3, <1>4, <1>5, <1>6, <1>7, <1>8, <1>9, <1>10 DEF Addr!Next

(* A call on an address that returns Ok leaves the address it was given,     *)
(* with the length of its family, whatever the memory held before, and what  *)
(* Socket::bind gets is what its text spells or has no length, for all ports *)
(* and addresses (AddressINet, PosixRecvFrom, get_socket_name).              *)
THEOREM AddressesAreSound == MCSpec => []AddressSound
<1>1. MCInit => AddrInv
  <2> SUFFICES ASSUME MCInit PROVE AddrInv
    OBVIOUS
  <2>1. PICK blank \in AddrRecords : blank = Addr!Blank
    BY DEF AddrRecords, Addr!Blank, Addr!Zero
  <2>2. blank.family = "UNSPEC" /\ blank.size = 0
    BY <2>1 DEF Addr!Blank
  <2>3. a = [addr |-> blank, want |-> blank, spoiled |-> FALSE, checker |-> FALSE,
             bound |-> blank, for |-> blank]
    BY <2>1 DEF MCInit, Addr!Init
  <2> QED BY <2>2, <2>3 DEF AddrInv
<1>2. AddrInv /\ [MCNext]_allVars => AddrInv'
  <2> SUFFICES ASSUME AddrInv, [MCNext]_allVars PROVE AddrInv'
    OBVIOUS
  <2>1. [Addr!Next]_a
    BY DEF MCNext, allVars
  <2> QED BY <2>1, AddrStep
<1>3. AddrInv => AddressSound
  <2> SUFFICES ASSUME AddrInv PROVE Addr!AddressSound
    BY DEF AddressSound
  <2>0. /\ a.addr \in AddrRecords /\ a.want \in AddrRecords /\ a.bound \in AddrRecords
        /\ a.for \in AddrRecords
    BY DEF AddrInv
  <2>1. ASSUME NEW s \in AddrRecords, NEW w \in AddrRecords, Is(s, w)
        PROVE  /\ Addr!Named(s) = Addr!Named(w) /\ Addr!Check(s)
               /\ Addr!GetPort(s) = <<w.port>>
               /\ s.family = "INET" => Addr!Compare(s, w)
    <3>1. CASE s.family = "INET"
      BY <2>1, <3>1 DEF Is, Addr!Named, Addr!Check, Addr!SizeOf, Addr!GetPort, Addr!Compare
    <3>2. CASE s.family = "INET6"
      BY <2>1, <3>2 DEF Is, Addr!Named, Addr!Check, Addr!SizeOf, Addr!GetPort
    <3> QED BY <2>1, <3>1, <3>2 DEF Is
  <2>2. ~a.spoiled /\ a.want.size > 0 => Is(a.addr, a.want)
    BY DEF AddrInv
  <2>3. a.bound.size > 0 => Is(a.bound, a.for)
    BY DEF AddrInv
  <2> QED BY <2>0, <2>1, <2>2, <2>3 DEF Addr!AddressSound
<1> QED BY <1>1, <1>2, <1>3, PTL DEF MCSpec, allVars

-----------------------------------------------------------------------------
(* Holders. A holder whose tag is to be trusted has an object of that type,  *)
(* with the value it was given, or is empty and has none that lives; a tag   *)
(* that is not to be trusted is never that of an empty holder.               *)
Memory == [is : {"raw", "live", "husk"}, type : Types \cup {None}, val : Vals \cup {None}]

HoldRecords ==
    [class : Classes, tag : [Slots -> Types \cup {None}], mem : [Slots -> Memory],
     want : [Slots -> {None} \cup (Types \X (Vals \cup {None}))],
     torn : [Slots -> {None, "copy", "emplace"}], bad : BOOLEAN, leak : BOOLEAN]

SlotInv(s, x) ==
    /\ s.torn[x] # None => s.tag[x] # None
    /\ s.torn[x] = None /\ s.tag[x] = None => s.want[x] = None /\ s.mem[x].is # "live"
    /\ s.torn[x] = None /\ s.tag[x] # None =>
         /\ s.mem[x].is # "raw" /\ s.mem[x].type = s.tag[x]
         /\ s.want[x] = <<s.mem[x].type, s.mem[x].val>>

HoldInv(s) ==
    /\ s \in HoldRecords /\ ~s.bad /\ ~s.leak
    /\ s.class = "recursive" => \A x \in Slots : s.torn[x] # "copy"
    /\ \A x \in Slots : SlotInv(s, x)

(* What Free leaves: an empty holder, whose want is still the old one.       *)
Freed(s, t, x) ==
    /\ t \in HoldRecords /\ ~t.bad /\ ~t.leak /\ t.class = s.class
    /\ t.tag = [s.tag EXCEPT ![x] = None] /\ t.want = s.want /\ t.torn = s.torn
    /\ t.mem[x].is # "live" /\ \A z \in Slots \ {x} : t.mem[z] = s.mem[z]

LEMMA FreeFacts ==
    ASSUME NEW s, HoldInv(s), NEW x \in Slots, s.torn[x] = None
    PROVE  Freed(s, Hold!Free(s, x), x)
<1>0. /\ s \in HoldRecords /\ s.tag \in [Slots -> Types \cup {None}]
      /\ s.mem \in [Slots -> Memory] /\ SlotInv(s, x) /\ ~s.bad /\ ~s.leak
  BY DEF HoldInv, HoldRecords
<1>1. CASE s.tag[x] = None
  <2>1. Hold!Free(s, x) = s /\ [s.tag EXCEPT ![x] = None] = s.tag
    BY <1>0, <1>1 DEF Hold!Free
  <2> QED BY <1>0, <1>1, <2>1 DEF Freed, SlotInv
<1>2. CASE s.tag[x] # None
  <2>1. Hold!There(s, x)
    BY <1>0, <1>2 DEF SlotInv, Hold!There
  <2>2. PICK raw \in Memory : raw = Hold!Raw
    BY DEF Memory, Hold!Raw
  <2>3. raw.is = "raw"
    BY <2>2 DEF Hold!Raw
  <2>4. PICK t : t = Hold!Free(s, x)
    OBVIOUS
  <2>5. t = [s EXCEPT !.tag[x] = None, !.mem[x] = raw, !.bad = FALSE]
    BY <1>0, <1>2, <2>1, <2>2, <2>4 DEF Hold!Free, HoldRecords
  <2>6. /\ t \in HoldRecords /\ ~t.bad /\ t.leak = s.leak /\ t.class = s.class
        /\ t.tag = [s.tag EXCEPT ![x] = None] /\ t.want = s.want /\ t.torn = s.torn
        /\ t.mem = [s.mem EXCEPT ![x] = raw]
    BY <1>0, <2>5 DEF HoldRecords
  <2>7. t.mem[x] = raw /\ \A z \in Slots \ {x} : t.mem[z] = s.mem[z]
    BY <1>0, <2>6
  <2> QED BY <1>0, <2>3, <2>4, <2>6, <2>7 DEF Freed
<1> QED BY <1>1, <1>2

(* A step that leaves two slots sound and does not touch the others.         *)
Changes(s, t, x, y) ==
    /\ t \in HoldRecords /\ ~t.bad /\ ~t.leak /\ t.class = s.class
    /\ \A z \in Slots \ {x, y} : /\ t.tag[z] = s.tag[z] /\ t.mem[z] = s.mem[z]
                                 /\ t.want[z] = s.want[z] /\ t.torn[z] = s.torn[z]
    /\ SlotInv(t, x) /\ SlotInv(t, y)
    /\ t.class = "recursive" => t.torn[x] # "copy" /\ t.torn[y] # "copy"

LEMMA ChangeKeeps ==
    ASSUME NEW s, NEW t, HoldInv(s), NEW x \in Slots, NEW y \in Slots, Changes(s, t, x, y)
    PROVE  HoldInv(t)
<1>1. ASSUME NEW z \in Slots PROVE SlotInv(t, z)
  <2>1. CASE z \in {x, y}
    BY <2>1 DEF Changes
  <2>2. CASE z \notin {x, y}
    BY <2>2 DEF Changes, HoldInv, SlotInv
  <2> QED BY <2>1, <2>2
<1>2. t.class = "recursive" => \A z \in Slots : t.torn[z] # "copy"
  BY DEF Changes, HoldInv
<1> QED BY <1>1, <1>2 DEF Changes, HoldInv

(* A placement new where no object lives.                                    *)
LEMMA BuildFacts ==
    ASSUME NEW s \in HoldRecords, ~s.leak, NEW x \in Slots, s.mem[x].is # "live",
           NEW obj \in Memory, NEW t, t = Hold!Build(s, x, obj)
    PROVE  /\ t \in HoldRecords /\ ~t.leak /\ t.mem = [s.mem EXCEPT ![x] = obj]
           /\ t.class = s.class /\ t.tag = s.tag /\ t.want = s.want /\ t.torn = s.torn
           /\ t.bad = s.bad
<1>1. PICK f \in [Slots -> Memory] : f = [s.mem EXCEPT ![x] = obj]
  BY DEF HoldRecords
<1>2. t = [s EXCEPT !.mem = f, !.leak = FALSE]
  BY <1>1 DEF Hold!Build, HoldRecords
<1> QED BY <1>1, <1>2 DEF HoldRecords

(* The copy of y's object into x, which is empty.                            *)
Copied(s, t, x, y, throws) ==
    /\ t \in HoldRecords /\ ~t.bad /\ ~t.leak /\ t.class = s.class /\ t.want = s.want
    /\ throws =>
         /\ t.mem = s.mem
         /\ IF s.class = "recursive" THEN t.tag = s.tag /\ t.torn = s.torn
            ELSE /\ t.tag = [s.tag EXCEPT ![x] = s.tag[y]]
                 /\ t.torn = [s.torn EXCEPT ![x] = "copy"]
    /\ ~throws =>
         /\ t.mem = [s.mem EXCEPT ![x] = s.mem[y]]
         /\ t.tag = [s.tag EXCEPT ![x] = s.tag[y]] /\ t.torn = s.torn

LEMMA CopyFacts ==
    ASSUME NEW s \in HoldRecords, ~s.bad, ~s.leak, NEW x \in Slots, NEW y \in Slots, x # y,
           Hold!There(s, y), s.mem[x].is # "live", NEW throws \in BOOLEAN
    PROVE  Copied(s, Hold!ConstructCopy(s, x, y, throws), x, y, throws)
<1>0. /\ s.class \in {"optional", "recursive", "table"} /\ s.mem[y] \in Memory
      /\ s.tag[y] \in Types \cup {None}
  BY DataAssumption DEF Hold!Apart, HoldRecords
<1>1. PICK t : t = Hold!ConstructCopy(s, x, y, throws)
  OBVIOUS
<1>2. [s EXCEPT !.bad = s.bad \/ ~Hold!There(s, y)] = s
  BY DEF HoldRecords
<1>3. CASE s.class = "recursive"
  <2>1. t = Hold!CopyRecursive(s, x, y, throws)
    BY <1>1, <1>2, <1>3 DEF Hold!ConstructCopy
  <2>2. CASE throws
    BY <1>1, <1>3, <2>1, <2>2 DEF Hold!CopyRecursive, Copied
  <2>3. CASE ~throws
    <3>1. PICK u : u = Hold!Build(s, x, s.mem[y])
      OBVIOUS
    <3>2. /\ u \in HoldRecords /\ ~u.leak /\ u.mem = [s.mem EXCEPT ![x] = s.mem[y]]
          /\ u.class = s.class /\ u.tag = s.tag /\ u.want = s.want /\ u.torn = s.torn
          /\ u.bad = s.bad
      BY <1>0, <3>1, BuildFacts
    <3>3. t = [u EXCEPT !.tag[x] = s.tag[y]]
      BY <2>1, <2>3, <3>1 DEF Hold!CopyRecursive
    <3>4. /\ t \in HoldRecords /\ t.tag = [u.tag EXCEPT ![x] = s.tag[y]] /\ t.bad = u.bad
          /\ t.leak = u.leak /\ t.mem = u.mem /\ t.class = u.class /\ t.want = u.want
          /\ t.torn = u.torn
      BY <1>0, <3>2, <3>3 DEF HoldRecords
    <3> QED BY <1>1, <2>3, <3>2, <3>4 DEF Copied
  <2> QED BY <2>2, <2>3
<1>4. CASE s.class \in {"optional", "table"}
  <2>1. PICK u : u = [s EXCEPT !.tag[x] = s.tag[y]]
    OBVIOUS
  <2>2. /\ u \in HoldRecords /\ u.tag = [s.tag EXCEPT ![x] = s.tag[y]] /\ u.bad = s.bad
        /\ u.leak = s.leak /\ u.mem = s.mem /\ u.class = s.class /\ u.want = s.want
        /\ u.torn = s.torn
    BY <1>0, <2>1 DEF HoldRecords
  <2>3. t = IF throws THEN [u EXCEPT !.torn[x] = "copy"] ELSE Hold!Build(u, x, s.mem[y])
    <3>1. CASE s.class = "optional"
      <4>1. t = Hold!CopyOptional(s, x, y, throws)
        BY <1>1, <1>2, <3>1 DEF Hold!ConstructCopy
      <4> QED BY <2>1, <4>1 DEF Hold!CopyOptional
    <3>2. CASE s.class = "table"
      <4>1. t = Hold!CopyTable(s, x, y, throws)
        BY <1>1, <1>2, <3>2 DEF Hold!ConstructCopy
      <4> QED BY <2>1, <4>1 DEF Hold!CopyTable
    <3> QED BY <1>4, <3>1, <3>2
  <2>4. CASE throws
    <3>1. t = [u EXCEPT !.torn[x] = "copy"]
      BY <2>3, <2>4
    <3>2. /\ t \in HoldRecords /\ t.torn = [u.torn EXCEPT ![x] = "copy"] /\ t.bad = u.bad
          /\ t.leak = u.leak /\ t.mem = u.mem /\ t.class = u.class /\ t.want = u.want
          /\ t.tag = u.tag
      BY <2>2, <3>1 DEF HoldRecords
    <3> QED BY <1>1, <1>4, <2>2, <2>4, <3>2 DEF Copied
  <2>5. CASE ~throws
    <3>1. t = Hold!Build(u, x, s.mem[y]) /\ u.mem[x].is # "live" /\ ~u.leak
      BY <2>2, <2>3, <2>5
    <3>2. /\ t \in HoldRecords /\ ~t.leak /\ t.mem = [u.mem EXCEPT ![x] = s.mem[y]]
          /\ t.class = u.class /\ t.tag = u.tag /\ t.want = u.want /\ t.torn = u.torn
          /\ t.bad = u.bad
      BY <1>0, <2>2, <3>1, BuildFacts
    <3> QED BY <1>1, <2>2, <2>5, <3>2 DEF Copied
  <2> QED BY <2>4, <2>5
<1> QED BY <1>0, <1>3, <1>4

(* The move of y's object into x, which is empty.                            *)
Moved(s, t, x, y) ==
    /\ t \in HoldRecords /\ ~t.bad /\ ~t.leak /\ t.class = s.class /\ t.want = s.want
    /\ t.torn = s.torn /\ t.tag = [s.tag EXCEPT ![x] = s.tag[y], ![y] = None]
    /\ t.mem[x] = s.mem[y] /\ t.mem[y].is = "husk"
    /\ \A z \in Slots \ {x, y} : t.mem[z] = s.mem[z]

LEMMA MoveFacts ==
    ASSUME NEW s \in HoldRecords, ~s.bad, ~s.leak, NEW x \in Slots, NEW y \in Slots, x # y,
           Hold!There(s, y), s.mem[x].is # "live",
           NEW t, t = Hold!ConstructMove(s, x, y)
    PROVE  Moved(s, t, x, y)
<1>0. /\ s.mem[y] \in Memory /\ s.tag[y] \in Types \cup {None} /\ s.mem \in [Slots -> Memory]
      /\ s.tag \in [Slots -> Types \cup {None}]
  BY DEF HoldRecords
<1>1. PICK u : u = Hold!Build(s, x, s.mem[y])
  OBVIOUS
<1>2. /\ u \in HoldRecords /\ ~u.leak /\ u.mem = [s.mem EXCEPT ![x] = s.mem[y]]
      /\ u.class = s.class /\ u.tag = s.tag /\ u.want = s.want /\ u.torn = s.torn
      /\ u.bad = s.bad
  BY <1>0, <1>1, BuildFacts
<1>3. PICK husk \in Memory : husk = Hold!Husk(s.mem[y])
  BY <1>0 DEF Hold!Husk, Memory
<1>4. husk.is = "husk"
  BY <1>0, <1>3 DEF Hold!Husk, Memory
<1>5. u.mem[y] = s.mem[y]
  BY <1>0, <1>2
<1>a. PICK f \in [Slots -> Types \cup {None}] : f = [s.tag EXCEPT ![x] = s.tag[y], ![y] = None]
  BY <1>0
<1>b. PICK g \in [Slots -> Memory] : g = [u.mem EXCEPT ![y] = husk]
  BY <1>0, <1>2
<1>6. t = [u EXCEPT !.tag = f, !.mem = g, !.bad = FALSE]
  BY <1>1, <1>2, <1>3, <1>5, <1>a, <1>b DEF Hold!ConstructMove, HoldRecords
<1>7. /\ t \in HoldRecords /\ ~t.bad /\ t.leak = u.leak /\ t.class = u.class
      /\ t.want = u.want /\ t.torn = u.torn
      /\ t.tag = f /\ t.mem = g
  BY <1>2, <1>6 DEF HoldRecords
<1>8. /\ t.mem[x] = s.mem[y] /\ t.mem[y] = husk
      /\ \A z \in Slots \ {x, y} : t.mem[z] = s.mem[z]
  BY <1>0, <1>2, <1>7, <1>b
<1> QED BY <1>2, <1>4, <1>7, <1>8, <1>a DEF Moved

(* Wants are values, and a slot has what its fields say.                     *)
Wants == {None} \cup (Types \X (Vals \cup {None}))

Wanting(s, t, x, w) ==
    /\ t \in HoldRecords /\ t.want = [s.want EXCEPT ![x] = w] /\ t.class = s.class
    /\ t.tag = s.tag /\ t.mem = s.mem /\ t.torn = s.torn /\ t.bad = s.bad
    /\ t.leak = s.leak

LEMMA WantStep ==
    ASSUME NEW s \in HoldRecords, NEW x \in Slots, NEW w \in Wants, NEW t,
           t = [s EXCEPT !.want[x] = w]
    PROVE  Wanting(s, t, x, w)
<1>1. PICK f \in [Slots -> Wants] : f = [s.want EXCEPT ![x] = w]
  BY DEF HoldRecords, Wants
<1>2. t = [s EXCEPT !.want = f]
  BY <1>1
<1> QED BY <1>1, <1>2 DEF HoldRecords, Wants, Wanting

LEMMA HoldFields ==
    ASSUME NEW s, HoldInv(s)
    PROVE  /\ s \in HoldRecords /\ ~s.bad /\ ~s.leak
           /\ s.tag \in [Slots -> Types \cup {None}] /\ s.mem \in [Slots -> Memory]
           /\ s.want \in [Slots -> Wants] /\ s.torn \in [Slots -> {None, "copy", "emplace"}]
           /\ \A x \in Slots : SlotInv(s, x)
           /\ s.class = "recursive" => \A x \in Slots : s.torn[x] # "copy"
BY DEF HoldInv, HoldRecords, Wants

(* A holder is emptied.                                                      *)
LEMMA EmptiedKeeps ==
    ASSUME HoldInv(h), NEW x \in Slots, NEW f, Freed(h, f, x), h.torn[x] = None,
           h' = [f EXCEPT !.want[x] = None]
    PROVE  HoldInv(h')
<1>1. f \in HoldRecords /\ None \in Wants
  BY DEF Freed, Wants
<1>2. Wanting(f, h', x, None)
  BY <1>1, WantStep
<1>3. h'.tag[x] = None /\ h'.want[x] = None /\ h'.torn[x] = None /\ h'.mem[x].is # "live"
  BY <1>2, HoldFields DEF Freed, Wanting
<1>4. \A z \in Slots \ {x} : /\ h'.tag[z] = h.tag[z] /\ h'.mem[z] = h.mem[z]
                             /\ h'.want[z] = h.want[z] /\ h'.torn[z] = h.torn[z]
  BY <1>2, HoldFields DEF Freed, Wanting
<1>5. Changes(h, h', x, x)
  BY <1>2, <1>3, <1>4, DataAssumption DEF Changes, Freed, Wanting, SlotInv, Hold!Apart
<1> QED BY <1>5, ChangeKeeps

(* An empty holder takes the object of another, or a copy.                   *)
LEMMA CopiedKeeps ==
    ASSUME HoldInv(h), NEW x \in Slots, NEW y \in Slots, x # y, NEW f, Freed(h, f, x),
           h.torn[x] = None, h.torn[y] = None, f.tag[y] # None, NEW throws \in BOOLEAN, NEW t,
           t = Hold!ConstructCopy(f, x, y, throws),
           h' = [t EXCEPT !.want[x] = IF t.tag[x] = None THEN None ELSE h.want[y]]
    PROVE  HoldInv(h')
<1>0. /\ f \in HoldRecords /\ ~f.bad /\ ~f.leak /\ f.tag = [h.tag EXCEPT ![x] = None]
      /\ f.torn = h.torn /\ f.want = h.want /\ f.class = h.class /\ f.mem[x].is # "live"
      /\ \A z \in Slots \ {x} : f.mem[z] = h.mem[z]
      /\ f.mem \in [Slots -> Memory]
  BY DEF Freed, HoldRecords
<1>1. f.tag[x] = None /\ f.tag[y] = h.tag[y] /\ f.mem[y] = h.mem[y] /\ h.tag[y] # None
  BY <1>0, HoldFields
<1>2. /\ h.mem[y].is # "raw" /\ h.mem[y].type = h.tag[y]
      /\ h.want[y] = <<h.mem[y].type, h.mem[y].val>>
  BY <1>1, HoldFields DEF SlotInv
<1>3. Hold!There(f, y)
  BY <1>1, <1>2 DEF Hold!There
<1>4. Copied(f, t, x, y, throws)
  BY <1>0, <1>3, CopyFacts
<1>5. PICK w \in Wants : w = IF t.tag[x] = None THEN None ELSE h.want[y]
  BY HoldFields DEF Wants
<1>6. Wanting(t, h', x, w)
  BY <1>4, <1>5, WantStep DEF Copied
<1>7. h'.want[x] = w /\ \A z \in Slots \ {x} : h'.want[z] = h.want[z]
  BY <1>0, <1>4, <1>6, HoldFields DEF Copied, Wanting
<1>8. /\ h' \in HoldRecords /\ ~h'.bad /\ ~h'.leak /\ h'.class = h.class
      /\ h'.tag = t.tag /\ h'.mem = t.mem /\ h'.torn = t.torn
  BY <1>0, <1>4, <1>6 DEF Copied, Wanting
<1>9. CASE ~throws
  <2>1. t.mem = [f.mem EXCEPT ![x] = f.mem[y]] /\ t.tag = [f.tag EXCEPT ![x] = f.tag[y]]
        /\ t.torn = f.torn
    BY <1>4, <1>9 DEF Copied
  <2>2. /\ h'.mem[x] = h.mem[y] /\ h'.tag[x] = h.tag[y] /\ h'.torn[x] = None
        /\ t.tag[x] # None
    BY <1>0, <1>1, <1>8, <2>1, HoldFields
  <2>3. SlotInv(h', x)
    BY <1>1, <1>2, <1>5, <1>7, <2>2 DEF SlotInv
  <2>4. \A z \in Slots \ {x} : /\ h'.tag[z] = h.tag[z] /\ h'.mem[z] = h.mem[z]
                               /\ h'.torn[z] = h.torn[z]
    BY <1>0, <1>8, <2>1, HoldFields
  <2>5. Changes(h, h', x, x)
    BY <1>7, <1>8, <2>2, <2>3, <2>4, DataAssumption DEF Changes, Hold!Apart
  <2> QED BY <2>5, ChangeKeeps
<1>10. CASE throws /\ f.class = "recursive"
  <2>1. t.mem = f.mem /\ t.tag = f.tag /\ t.torn = f.torn
    BY <1>4, <1>10 DEF Copied
  <2>2. h'.mem[x].is # "live" /\ h'.tag[x] = None /\ h'.torn[x] = None /\ w = None
    BY <1>0, <1>1, <1>5, <1>8, <2>1
  <2>3. SlotInv(h', x)
    BY <1>7, <2>2 DEF SlotInv
  <2>4. \A z \in Slots \ {x} : /\ h'.tag[z] = h.tag[z] /\ h'.mem[z] = h.mem[z]
                               /\ h'.torn[z] = h.torn[z]
    BY <1>0, <1>8, <2>1, HoldFields
  <2>5. Changes(h, h', x, x)
    BY <1>7, <1>8, <2>2, <2>3, <2>4, DataAssumption DEF Changes, Hold!Apart
  <2> QED BY <2>5, ChangeKeeps
<1>11. CASE throws /\ f.class # "recursive"
  <2>1. /\ t.mem = f.mem /\ t.tag = [f.tag EXCEPT ![x] = f.tag[y]]
        /\ t.torn = [f.torn EXCEPT ![x] = "copy"]
    BY <1>4, <1>11 DEF Copied
  <2>2. h'.tag[x] = h.tag[y] /\ h'.torn[x] = "copy"
    BY <1>0, <1>1, <1>8, <2>1, HoldFields
  <2>3. SlotInv(h', x)
    BY <1>1, <2>2, DataAssumption DEF SlotInv, Hold!Apart
  <2>4. \A z \in Slots \ {x} : /\ h'.tag[z] = h.tag[z] /\ h'.mem[z] = h.mem[z]
                               /\ h'.torn[z] = h.torn[z]
    BY <1>0, <1>8, <2>1, HoldFields
  <2>5. Changes(h, h', x, x)
    BY <1>0, <1>7, <1>8, <1>11, <2>3, <2>4 DEF Changes
  <2> QED BY <2>5, ChangeKeeps
<1> QED BY <1>9, <1>10, <1>11

LEMMA MovedKeeps ==
    ASSUME HoldInv(h), NEW x \in Slots, NEW y \in Slots, x # y, NEW f, Freed(h, f, x),
           h.torn[x] = None, h.torn[y] = None, f.tag[y] # None, NEW t,
           t = Hold!ConstructMove(f, x, y),
           h' = [t EXCEPT !.want = [t.want EXCEPT ![x] = h.want[y], ![y] = None]]
    PROVE  HoldInv(h')
<1>0. /\ f \in HoldRecords /\ ~f.bad /\ ~f.leak /\ f.tag = [h.tag EXCEPT ![x] = None]
      /\ f.torn = h.torn /\ f.want = h.want /\ f.class = h.class /\ f.mem[x].is # "live"
      /\ \A z \in Slots \ {x} : f.mem[z] = h.mem[z]
      /\ f.mem \in [Slots -> Memory]
  BY DEF Freed, HoldRecords
<1>1. f.tag[x] = None /\ f.tag[y] = h.tag[y] /\ f.mem[y] = h.mem[y] /\ h.tag[y] # None
  BY <1>0, HoldFields
<1>2. /\ h.mem[y].is # "raw" /\ h.mem[y].type = h.tag[y]
      /\ h.want[y] = <<h.mem[y].type, h.mem[y].val>>
  BY <1>1, HoldFields DEF SlotInv
<1>3. Hold!There(f, y)
  BY <1>1, <1>2 DEF Hold!There
<1>4. /\ t \in HoldRecords /\ ~t.bad /\ ~t.leak /\ t.class = f.class /\ t.want = f.want
      /\ t.torn = f.torn /\ t.tag = [f.tag EXCEPT ![x] = f.tag[y], ![y] = None]
      /\ t.mem[x] = f.mem[y] /\ t.mem[y].is = "husk"
      /\ \A z \in Slots \ {x, y} : t.mem[z] = f.mem[z]
  <2>1. Moved(f, t, x, y)
    BY <1>0, <1>3, MoveFacts
  <2> QED BY <2>1 DEF Moved
<1>5. PICK g \in [Slots -> Wants] : g = [t.want EXCEPT ![x] = h.want[y], ![y] = None]
  BY <1>0, <1>4, HoldFields DEF Wants
<1>6. g[x] = h.want[y] /\ g[y] = None /\ \A z \in Slots \ {x, y} : g[z] = h.want[z]
  BY <1>0, <1>4, <1>5, HoldFields
<1>7. h' = [t EXCEPT !.want = g]
  BY <1>5
<1>8. /\ h' \in HoldRecords /\ h'.want = g /\ h'.bad = t.bad /\ h'.leak = t.leak
      /\ h'.class = t.class /\ h'.tag = t.tag /\ h'.mem = t.mem /\ h'.torn = t.torn
  BY <1>4, <1>7 DEF HoldRecords, Wants
<1>9. /\ h'.tag[x] = h.tag[y] /\ h'.tag[y] = None /\ h'.torn[x] = None /\ h'.torn[y] = None
      /\ \A z \in Slots \ {x, y} : h'.tag[z] = h.tag[z]
  BY <1>0, <1>1, <1>4, <1>8, HoldFields
<1>10. \A z \in Slots \ {x, y} : h'.mem[z] = h.mem[z] /\ h'.torn[z] = h.torn[z]
  BY <1>0, <1>4, <1>8
<1>11. SlotInv(h', x)
  BY <1>1, <1>2, <1>4, <1>6, <1>8, <1>9 DEF SlotInv
<1>12. SlotInv(h', y)
  BY <1>4, <1>6, <1>8, <1>9 DEF SlotInv
<1>13. Changes(h, h', x, y)
  BY <1>0, <1>4, <1>6, <1>8, <1>9, <1>10, <1>11, <1>12, DataAssumption DEF Changes, Hold!Apart
<1> QED BY <1>13, ChangeKeeps

(* An empty holder is as Free leaves it.                                     *)
LEMMA EmptyIsFreed ==
    ASSUME HoldInv(h), NEW x \in Slots, h.tag[x] = None
    PROVE  Freed(h, h, x) /\ h.torn[x] = None
<1>1. SlotInv(h, x) /\ h.torn[x] = None
  BY HoldFields DEF SlotInv
<1>2. [h.tag EXCEPT ![x] = None] = h.tag
  BY HoldFields
<1> QED BY <1>1, <1>2, HoldFields DEF Freed, SlotInv

LEMMA ResetKeeps ==
    ASSUME HoldInv(h), NEW x \in Slots, Hold!Reset(x)
    PROVE  HoldInv(h')
<1>1. Freed(h, Hold!Free(h, x), x) /\ h.torn[x] = None
  BY FreeFacts DEF Hold!Reset, Hold!Sane
<1> QED BY <1>1, EmptiedKeeps DEF Hold!Reset

LEMMA CopyAssignKeeps ==
    ASSUME HoldInv(h), NEW x \in Slots, NEW y \in Slots, NEW throws \in BOOLEAN,
           Hold!CopyAssign(x, y, throws)
    PROVE  HoldInv(h')
<1>1. PICK f : f = Hold!Free(h, x)
  OBVIOUS
<1>2. Freed(h, f, x) /\ h.torn[x] = None /\ h.torn[y] = None
  BY <1>1, FreeFacts DEF Hold!CopyAssign, Hold!Sane
<1>3. f.tag[x] = None
  BY <1>2, HoldFields DEF Freed
<1>4. CASE f.tag[y] = None
  <2>1. h' = [f EXCEPT !.want[x] = None]
    BY <1>1, <1>3, <1>4 DEF Hold!CopyAssign
  <2> QED BY <1>2, <2>1, EmptiedKeeps
<1>5. CASE f.tag[y] # None
  <2>1. x # y
    BY <1>3, <1>5
  <2>2. PICK t : t = Hold!ConstructCopy(f, x, y, throws)
    OBVIOUS
  <2>3. h' = [t EXCEPT !.want[x] = IF t.tag[x] = None THEN None ELSE h.want[y]]
    BY <1>1, <1>5, <2>1, <2>2 DEF Hold!CopyAssign
  <2> QED BY <1>2, <1>5, <2>1, <2>2, <2>3, CopiedKeeps
<1> QED BY <1>4, <1>5

LEMMA MoveAssignKeeps ==
    ASSUME HoldInv(h), NEW x \in Slots, NEW y \in Slots, Hold!MoveAssign(x, y)
    PROVE  HoldInv(h')
<1>1. PICK f : f = Hold!Free(h, x)
  OBVIOUS
<1>2. Freed(h, f, x) /\ h.torn[x] = None /\ h.torn[y] = None
  BY <1>1, FreeFacts DEF Hold!MoveAssign, Hold!Sane
<1>3. f.tag[x] = None /\ f.want = h.want /\ f \in HoldRecords /\ f.want \in [Slots -> Wants]
  BY <1>2, HoldFields DEF Freed
<1>4. CASE f.tag[y] = None
  <2>1. h' = [f EXCEPT !.want = [f.want EXCEPT ![x] = h.want[y], ![y] = None]]
    BY <1>1, <1>4 DEF Hold!MoveAssign
  <2>2. x # y => h.want[y] = None
    BY <1>2, <1>4, HoldFields DEF Freed, SlotInv
  <2>3. [f.want EXCEPT ![x] = h.want[y], ![y] = None] = [f.want EXCEPT ![x] = None]
    BY <1>3, <2>2
  <2>4. h' = [f EXCEPT !.want[x] = None]
    BY <2>1, <2>3
  <2> QED BY <1>2, <2>4, EmptiedKeeps
<1>5. CASE f.tag[y] # None
  <2>1. x # y
    BY <1>3, <1>5
  <2>2. PICK t : t = Hold!ConstructMove(f, x, y)
    OBVIOUS
  <2>3. h' = [t EXCEPT !.want = [t.want EXCEPT ![x] = h.want[y], ![y] = None]]
    BY <1>1, <1>5, <2>1, <2>2 DEF Hold!MoveAssign
  <2> QED BY <1>2, <1>5, <2>1, <2>2, <2>3, MovedKeeps
<1> QED BY <1>4, <1>5

LEMMA CopyConstructKeeps ==
    ASSUME HoldInv(h), NEW x \in Slots, NEW y \in Slots, Hold!CopyConstruct(x, y)
    PROVE  HoldInv(h')
<1>1. /\ Freed(h, h, x) /\ h.torn[x] = None /\ h.torn[y] = None /\ x # y /\ h.tag[y] # None
  BY EmptyIsFreed DEF Hold!CopyConstruct, Hold!Sane
<1>2. PICK t : t = Hold!ConstructCopy(h, x, y, FALSE)
  OBVIOUS
<1>3. Hold!There(h, y) /\ h.mem[x].is # "live"
  BY <1>1, HoldFields DEF SlotInv, Hold!There, Freed
<1>4. Copied(h, t, x, y, FALSE)
  BY <1>1, <1>2, <1>3, CopyFacts, HoldFields
<1>5. t.tag[x] # None
  BY <1>1, <1>4, HoldFields DEF Copied
<1>6. h' = [t EXCEPT !.want[x] = IF t.tag[x] = None THEN None ELSE h.want[y]]
  BY <1>2, <1>5 DEF Hold!CopyConstruct
<1> QED BY <1>1, <1>2, <1>6, CopiedKeeps

LEMMA MoveConstructKeeps ==
    ASSUME HoldInv(h), NEW x \in Slots, NEW y \in Slots, Hold!MoveConstruct(x, y)
    PROVE  HoldInv(h')
<1>1. /\ Freed(h, h, x) /\ h.torn[x] = None /\ h.torn[y] = None /\ x # y /\ h.tag[y] # None
  BY EmptyIsFreed DEF Hold!MoveConstruct, Hold!Sane
<1>2. PICK t : t = Hold!ConstructMove(h, x, y)
  OBVIOUS
<1>3. h' = [t EXCEPT !.want = [t.want EXCEPT ![x] = h.want[y], ![y] = None]]
  BY <1>2 DEF Hold!MoveConstruct
<1> QED BY <1>1, <1>2, <1>3, MovedKeeps

LEMMA ReleaseKeeps ==
    ASSUME HoldInv(h), NEW x \in Slots, Hold!Release(x)
    PROVE  HoldInv(h')
<1>0. /\ h.torn[x] = None /\ h.tag[x] # None /\ h.tag[x] \in Types
      /\ h.mem[x] \in Memory /\ h.mem[x].type = h.tag[x] /\ h \in HoldRecords
      /\ h.mem \in [Slots -> Memory]
  BY HoldFields DEF Hold!Release, Hold!Sane, SlotInv
<1>1. PICK husk \in Memory : husk = Hold!Husk(h.mem[x])
  BY <1>0 DEF Memory, Hold!Husk
<1>2. husk.is = "husk" /\ husk.type = h.tag[x] /\ husk.val = None
  BY <1>0, <1>1 DEF Memory, Hold!Husk
<1>3. PICK w \in Wants : w = <<h.tag[x], None>>
  BY <1>0 DEF Wants
<1>4. PICK g \in [Slots -> Memory] : g = [h.mem EXCEPT ![x] = husk]
  BY <1>0
<1>5. PICK u \in HoldRecords : u = [h EXCEPT !.mem = g]
  BY <1>0 DEF HoldRecords
<1>6. /\ u.mem = g /\ u.class = h.class /\ u.tag = h.tag /\ u.want = h.want
      /\ u.torn = h.torn /\ u.bad = h.bad /\ u.leak = h.leak
  BY <1>0, <1>5 DEF HoldRecords
<1>7. h' = [u EXCEPT !.want[x] = w]
  BY <1>0, <1>1, <1>3, <1>4, <1>5 DEF Hold!Release, HoldRecords
<1>8. /\ h' \in HoldRecords /\ h'.want = [u.want EXCEPT ![x] = w] /\ h'.class = u.class
      /\ h'.tag = u.tag /\ h'.mem = u.mem /\ h'.torn = u.torn /\ h'.bad = u.bad
      /\ h'.leak = u.leak
  <2>1. Wanting(u, h', x, w)
    BY <1>7, WantStep
  <2> QED BY <2>1 DEF Wanting
<1>9. /\ h'.tag[x] = h.tag[x] /\ h'.want[x] = w /\ h'.torn[x] = None /\ h'.mem[x] = husk
  BY <1>0, <1>4, <1>6, <1>8, HoldFields
<1>10. \A z \in Slots \ {x} : /\ h'.tag[z] = h.tag[z] /\ h'.mem[z] = h.mem[z]
                              /\ h'.want[z] = h.want[z] /\ h'.torn[z] = h.torn[z]
  BY <1>4, <1>6, <1>8, HoldFields
<1>11. SlotInv(h', x)
  BY <1>0, <1>2, <1>3, <1>9 DEF SlotInv
<1>12. Changes(h, h', x, x)
  BY <1>6, <1>8, <1>9, <1>10, <1>11, HoldFields, DataAssumption DEF Changes, Hold!Apart
<1> QED BY <1>12, ChangeKeeps

LEMMA EmplaceKeeps ==
    ASSUME HoldInv(h), NEW x \in Slots, NEW t \in Types, NEW v \in Vals, NEW throws \in BOOLEAN,
           Hold!Emplace(x, t, v, throws)
    PROVE  HoldInv(h')
<1>1. PICK f : f = Hold!Free(h, x)
  OBVIOUS
<1>2. Freed(h, f, x) /\ h.torn[x] = None
  BY <1>1, FreeFacts DEF Hold!Emplace, Hold!Sane
<1>3. PICK s : s = [f EXCEPT !.tag[x] = t]
  OBVIOUS
<1>4. PICK g \in [Slots -> Types \cup {None}] : g = [f.tag EXCEPT ![x] = t]
  BY <1>2 DEF Freed, HoldRecords
<1>5. s = [f EXCEPT !.tag = g]
  BY <1>3, <1>4
<1>6. /\ s \in HoldRecords /\ s.tag = g /\ s.class = f.class /\ s.mem = f.mem
      /\ s.want = f.want /\ s.torn = f.torn /\ s.bad = f.bad /\ s.leak = f.leak
  BY <1>2, <1>5 DEF HoldRecords, Freed
<1>7. g[x] = t /\ \A z \in Slots \ {x} : g[z] = h.tag[z]
  BY <1>2, <1>4, HoldFields DEF Freed
<1>8. h' = IF throws THEN [s EXCEPT !.torn[x] = "emplace"]
           ELSE [Hold!Build(s, x, Hold!Live(t, v)) EXCEPT !.want[x] = <<t, v>>]
  BY <1>1, <1>3 DEF Hold!Emplace
<1>9. CASE throws
  <2>1. h' = [s EXCEPT !.torn[x] = "emplace"]
    BY <1>8, <1>9
  <2>2. /\ h' \in HoldRecords /\ h'.torn = [s.torn EXCEPT ![x] = "emplace"]
        /\ h'.tag = s.tag /\ h'.class = s.class /\ h'.mem = s.mem /\ h'.want = s.want
        /\ h'.bad = s.bad /\ h'.leak = s.leak
    BY <1>6, <2>1 DEF HoldRecords
  <2>3. h'.tag[x] = t /\ h'.torn[x] = "emplace"
    BY <1>2, <1>6, <1>7, <2>2, HoldFields DEF Freed
  <2>4. \A z \in Slots \ {x} : /\ h'.tag[z] = h.tag[z] /\ h'.mem[z] = h.mem[z]
                               /\ h'.want[z] = h.want[z] /\ h'.torn[z] = h.torn[z]
    BY <1>2, <1>6, <1>7, <2>2, HoldFields DEF Freed
  <2>5. SlotInv(h', x)
    BY <2>3, DataAssumption DEF SlotInv, Hold!Apart
  <2>6. Changes(h, h', x, x)
    BY <1>2, <1>6, <2>2, <2>3, <2>4, <2>5 DEF Changes, Freed
  <2> QED BY <2>6, ChangeKeeps
<1>10. CASE ~throws
  <2>1. PICK obj \in Memory : obj = Hold!Live(t, v)
    BY DEF Memory, Hold!Live
  <2>2. obj.is = "live" /\ obj.type = t /\ obj.val = v
    BY <2>1 DEF Hold!Live
  <2>3. PICK u : u = Hold!Build(s, x, obj)
    OBVIOUS
  <2>4. s.mem[x].is # "live" /\ ~s.leak /\ ~s.bad
    BY <1>2, <1>6 DEF Freed
  <2>5. /\ u \in HoldRecords /\ ~u.leak /\ u.mem = [s.mem EXCEPT ![x] = obj]
        /\ u.class = s.class /\ u.tag = s.tag /\ u.want = s.want /\ u.torn = s.torn
        /\ u.bad = s.bad
    BY <1>6, <2>3, <2>4, BuildFacts
  <2>6. PICK w \in Wants : w = <<t, v>>
    BY DEF Wants
  <2>7. h' = [u EXCEPT !.want[x] = w]
    BY <1>8, <1>10, <2>1, <2>3, <2>6
  <2>8. /\ h' \in HoldRecords /\ h'.want = [u.want EXCEPT ![x] = w] /\ h'.class = u.class
        /\ h'.tag = u.tag /\ h'.mem = u.mem /\ h'.torn = u.torn /\ h'.bad = u.bad
        /\ h'.leak = u.leak
    <3>1. Wanting(u, h', x, w)
      BY <2>5, <2>7, WantStep
    <3> QED BY <3>1 DEF Wanting
  <2>9. s.mem \in [Slots -> Memory] /\ s.want = h.want /\ s.torn = h.torn
    BY <1>2, <1>6 DEF Freed, HoldRecords
  <2>10. h'.tag[x] = t /\ h'.torn[x] = None /\ h'.want[x] = w /\ h'.mem[x] = obj
    BY <1>2, <1>6, <1>7, <2>5, <2>8, <2>9, HoldFields
  <2>11. \A z \in Slots \ {x} : /\ h'.tag[z] = h.tag[z] /\ h'.mem[z] = h.mem[z]
                                /\ h'.want[z] = h.want[z] /\ h'.torn[z] = h.torn[z]
    BY <1>2, <1>6, <1>7, <2>5, <2>8, <2>9, HoldFields DEF Freed
  <2>12. SlotInv(h', x)
    BY <2>2, <2>6, <2>10, DataAssumption DEF SlotInv, Hold!Apart
  <2>13. Changes(h, h', x, x)
    BY <1>2, <1>6, <2>4, <2>5, <2>8, <2>10, <2>11, <2>12, DataAssumption
    DEF Changes, Freed, Hold!Apart
  <2> QED BY <2>13, ChangeKeeps
<1> QED BY <1>9, <1>10

(* Every step of Holders keeps the invariant.                                *)
LEMMA HoldStep == HoldInv(h) /\ [Hold!Next]_h => HoldInv(h')
BY ResetKeeps, ReleaseKeeps, EmplaceKeeps, CopyAssignKeeps, MoveAssignKeeps,
   CopyConstructKeeps, MoveConstructKeeps DEF Hold!Next

(* The invariant is what the property says of a state.                       *)
LEMMA HoldInvImplies == HoldInv(h) => Hold!HoldersSound
<1> SUFFICES ASSUME HoldInv(h) PROVE Hold!HoldersSound
  OBVIOUS
<1> USE DataAssumption DEF Hold!Apart
<1>1. \A x \in Slots : Hold!Sane(x) => Hold!Call(x) = h.want[x]
  BY HoldFields DEF Hold!Sane, Hold!Call, SlotInv
<1>2. ASSUME NEW x \in Slots, NEW y \in Slots, Hold!Sane(x), Hold!Sane(y)
      PROVE  /\ Hold!EqualTable(x, y) = {h.want[x] = h.want[y]}
             /\ h.tag[x] = h.tag[y] => Hold!EqualRecursive(x, y) = {h.want[x] = h.want[y]}
  <2>1. /\ h.tag[x] \in Types \cup {None} /\ h.tag[y] \in Types \cup {None}
        /\ h.tag[x] = None => h.want[x] = None
        /\ h.tag[y] = None => h.want[y] = None
        /\ h.tag[x] # None => h.want[x] = <<h.tag[x], h.mem[x].val>>
        /\ h.tag[y] # None => h.want[y] = <<h.tag[y], h.mem[y].val>>
        /\ h.mem[x].val \in Vals \cup {None} /\ h.mem[y].val \in Vals \cup {None}
    BY <1>2, HoldFields DEF Hold!Sane, SlotInv, Memory
  <2>2. (h.want[x] = h.want[y])
           <=> (h.tag[x] = h.tag[y] /\ (h.tag[x] = None \/ h.mem[x].val = h.mem[y].val))
    <3>1. CASE h.tag[x] = None \/ h.tag[y] = None
      BY <2>1, <3>1
    <3>2. CASE h.tag[x] # None /\ h.tag[y] # None
      BY <2>1, <3>2
    <3> QED BY <3>1, <3>2
  <2>3. Hold!EqualTable(x, y) = {h.want[x] = h.want[y]}
    BY <2>2 DEF Hold!EqualTable
  <2>4. h.tag[x] = h.tag[y] => Hold!EqualRecursive(x, y) = {h.want[x] = h.want[y]}
    BY <2>2 DEF Hold!EqualRecursive
  <2> QED BY <2>3, <2>4
<1> QED BY <1>1, <1>2, HoldFields DEF Hold!HoldersSound

(* A holder has the value that assignments gave it, no object is used that   *)
(* is not there or overwritten while it lives, and no outcome of a Result is *)
(* lost unseen, whatever a program does with any number of variables, types  *)
(* and values and whichever constructors throw.                              *)
THEOREM HoldersAreSound == MCSpec => []HoldersSound
<1> DEFINE Inv == part = "hold" => HoldInv(h)
<1>1. MCInit => Inv
  <2> SUFFICES ASSUME MCInit, part = "hold" PROVE HoldInv(h)
    OBVIOUS
  <2>1. PICK k \in Classes :
           h = [class |-> k, tag |-> [x \in Slots |-> None], mem |-> [x \in Slots |-> Hold!Raw],
                want |-> [x \in Slots |-> None], torn |-> [x \in Slots |-> None],
                bad |-> FALSE, leak |-> FALSE]
    BY DEF MCInit, Hold!Init
  <2>2. Hold!Raw \in Memory /\ Hold!Raw.is = "raw"
    BY DEF Hold!Raw, Memory
  <2>3. h \in HoldRecords
    BY <2>1, <2>2 DEF HoldRecords
  <2>4. \A x \in Slots : SlotInv(h, x)
    BY <2>1, <2>2 DEF SlotInv
  <2> QED BY <2>1, <2>3, <2>4, DataAssumption DEF HoldInv, Hold!Apart
<1>2. Inv /\ [MCNext]_allVars => Inv'
  <2> SUFFICES ASSUME part = "hold" => HoldInv(h), [MCNext]_allVars, part' = "hold"
               PROVE  HoldInv(h')
    OBVIOUS
  <2>1. part = "hold" /\ [Hold!Next]_h
    BY DEF MCNext, allVars
  <2> QED BY <2>1, HoldStep
<1>3. Inv /\ Res!ResultsAreSeen => HoldersSound
  BY HoldInvImplies DEF HoldersSound
<1> QED BY <1>1, <1>2, <1>3, ResultsAreSound, PTL DEF MCSpec, allVars

-----------------------------------------------------------------------------
(* Options. A record keeps its type; it has the value of the last text that  *)
(* was applied to it, or a default. The arguments that a call has validated  *)
(* have records of their types within their bounds, except for the key that  *)
(* apply_options has just written (K).                                       *)
Keys == {Hash[i] : i \in Names}

IsRecord(r) == r = [type |-> r.type, secret |-> r.secret, val |-> r.val]

RecordsInv(rs) == rs = [k \in Keys |-> rs[k]] /\ \A k \in Keys : IsRecord(rs[k])

ValueInv(s) == \A k \in Keys :
    /\ \A text \in s.given[k] :
         /\ s.records[k].type # "none"
         /\ s.records[k].type # "list" => s.records[k].val \in Opt!Convert(s.records[k].type, text)
    /\ s.given[k] = {} /\ s.records[k].type \notin {"none", "list"} =>
         \E i \in Names : Hash[i] = k /\ s.records[k].val = Opt!AskedDefault(Args[i])

Typed(s, i) == /\ s.records[Hash[i]].type = Opt!AskedType(Args[i])
               /\ s.records[Hash[i]].secret = Args[i].secret
Bounded(s, i, by) == Args[i].type = "bool" \/ Opt!InBounds(s.records[Hash[i]].val, i, by)

OptRecord(s) ==
    /\ s = [records |-> s.records, call |-> s.call, args |-> s.args, check |-> s.check,
            status |-> s.status, calls |-> s.calls, given |-> s.given]
    /\ RecordsInv(s.records) /\ s.given = [k \in Keys |-> s.given[k]] /\ s.check \subseteq Names
    /\ ValueInv(s)

OptInv(s, K) ==
    /\ OptRecord(s) /\ s.call \in {"none", "parse_argv", "apply_options"}
    /\ s.call # "none" =>
         /\ s.status = "running"
         /\ \A i \in Names \ s.check : Typed(s, i) /\ (Hash[i] \notin K => Bounded(s, i, s.call))
    /\ s.status \in {"parse_argv", "apply_options"} =>
         \A i \in Names : Typed(s, i) /\ Bounded(s, i, s.status)

(* Get finds a record of the type, or makes one where there was none.        *)
Got(rs, r, k, type, secret, default) ==
    \/ rs[k].type = type /\ rs[k].secret = secret /\ r = rs
    \/ /\ rs[k].type = "none"
       /\ r[k] = [type |-> type, secret |-> secret, val |-> default]
       /\ \A l \in Keys \ {k} : r[l] = rs[l]

LEMMA GetFacts ==
    ASSUME NEW rs, RecordsInv(rs), NEW k \in Keys, NEW type, type # "none", NEW secret,
           NEW default, NEW r \in Opt!Get(rs, k, type, secret, default)
    PROVE  RecordsInv(r) /\ Got(rs, r, k, type, secret, default)
<1>1. CASE rs[k].type = "none"
  <2>1. r = [rs EXCEPT ![k] = [type |-> type, secret |-> secret, val |-> default]]
    BY <1>1 DEF Opt!Get
  <2>2. /\ r = [l \in Keys |-> r[l]]
        /\ r[k] = [type |-> type, secret |-> secret, val |-> default]
        /\ \A l \in Keys \ {k} : r[l] = rs[l]
    BY <2>1 DEF RecordsInv
  <2>3. \A l \in Keys : IsRecord(r[l])
    BY <2>2 DEF RecordsInv, IsRecord
  <2> QED BY <1>1, <2>2, <2>3 DEF RecordsInv, Got
<1>2. CASE rs[k].type # "none"
  <2>1. rs[k].type = type /\ rs[k].secret = secret /\ r = rs
    BY <1>2 DEF Opt!Get
  <2> QED BY <2>1 DEF Got
<1> QED BY <1>1, <1>2

(* Argument::apply writes the record of its key only.                        *)
Applied(rs, r, i, text) ==
    /\ RecordsInv(r) /\ \A l \in Keys \ {Hash[i]} : r[l] = rs[l]
    /\ rs[Hash[i]].type # "none" =>
         rs[Hash[i]].type = Args[i].type /\ rs[Hash[i]].secret = Args[i].secret
    /\ r[Hash[i]].type = Args[i].type /\ r[Hash[i]].secret = Args[i].secret
    /\ Args[i].type # "list" => r[Hash[i]].val \in Opt!Convert(Args[i].type, text)

LEMMA ApplyFacts ==
    ASSUME NEW rs, RecordsInv(rs), NEW i \in Names, NEW text, NEW r \in Opt!Apply(rs, i, text)
    PROVE  Applied(rs, r, i, text)
<1>0. PICK k \in Keys : k = Hash[i]
  BY DEF Keys
<1>1. Args[i].type # "none"
  BY DataAssumption DEF Opt!ArgsApart, Opt!ArgTypes
<1>2. PICK v \in Opt!Convert(Args[i].type, text),
           q \in Opt!Get(rs, k, Args[i].type, Args[i].secret, Args[i].default) :
        r = [q EXCEPT ![k] = Opt!Commit(q[k], v)]
  BY <1>0 DEF Opt!Apply
<1>3. RecordsInv(q) /\ Got(rs, q, k, Args[i].type, Args[i].secret, Args[i].default)
  BY <1>1, GetFacts
<1>4. /\ IsRecord(q[k]) /\ q[k].type = Args[i].type /\ q[k].secret = Args[i].secret
      /\ \A l \in Keys \ {k} : q[l] = rs[l]
      /\ rs[k].type # "none" => rs[k].type = Args[i].type /\ rs[k].secret = Args[i].secret
  BY <1>3 DEF Got, RecordsInv
<1>5. PICK w : w = Opt!Commit(q[k], v)
  OBVIOUS
<1>6. /\ IsRecord(w) /\ w.type = Args[i].type /\ w.secret = Args[i].secret
      /\ Args[i].type # "list" => w.val = v
  <2>1. PICK y : w = [q[k] EXCEPT !.val = y] /\ (Args[i].type # "list" => y = v)
    BY <1>4, <1>5 DEF Opt!Commit
  <2>2. w = [type |-> q[k].type, secret |-> q[k].secret, val |-> y]
    BY <1>4, <2>1 DEF IsRecord
  <2> QED BY <1>4, <2>1, <2>2 DEF IsRecord
<1>7. r = [l \in Keys |-> r[l]] /\ r[k] = w /\ \A l \in Keys \ {k} : r[l] = q[l]
  BY <1>2, <1>3, <1>5 DEF RecordsInv
<1>8. RecordsInv(r)
  BY <1>3, <1>6, <1>7 DEF RecordsInv
<1> QED BY <1>0, <1>4, <1>6, <1>7, <1>8 DEF Applied

(* Argument::validate leaves a record that it accepts.                       *)
LEMMA ValidateFacts ==
    ASSUME NEW rs, RecordsInv(rs), NEW i \in Names, NEW r \in Opt!Validate(rs, i)
    PROVE  /\ RecordsInv(r) /\ Hash[i] \in Keys
           /\ Got(rs, r, Hash[i], Opt!AskedType(Args[i]), Args[i].secret,
                  Opt!AskedDefault(Args[i]))
           /\ Args[i].type = "bool" \/ Opt!CheckRange(Args[i], r[Hash[i]].val)
<1>0. PICK k \in Keys : k = Hash[i]
  BY DEF Keys
<1>1. Opt!AskedType(Args[i]) # "none"
  BY DataAssumption DEF Opt!ArgsApart, Opt!ArgTypes, Opt!AskedType
<1>2. /\ r \in Opt!Get(rs, k, Opt!AskedType(Args[i]), Args[i].secret, Opt!AskedDefault(Args[i]))
      /\ Args[i].type = "bool" \/ Opt!CheckRange(Args[i], r[k].val)
  BY <1>0 DEF Opt!Validate
<1>3. /\ RecordsInv(r)
      /\ Got(rs, r, k, Opt!AskedType(Args[i]), Args[i].secret, Opt!AskedDefault(Args[i]))
  BY <1>1, <1>2, GetFacts
<1> QED BY <1>0, <1>2, <1>3

(* A call returns: the records stay.                                         *)
LEMMA ReturnedKeeps ==
    ASSUME NEW s, OptRecord(s), NEW st,
           st \in {"parse_argv", "apply_options"} =>
             \A i \in Names : Typed(s, i) /\ Bounded(s, i, st)
    PROVE  OptInv(Opt!Returned(s, st), {})
<1>1. PICK t : t = Opt!Returned(s, st)
  OBVIOUS
<1>2. t = [records |-> s.records, call |-> "none", args |-> 0, check |-> {},
           status |-> st, calls |-> s.calls, given |-> s.given]
  BY <1>1 DEF Opt!Returned, OptRecord
<1>3. OptRecord(t)
  BY <1>2 DEF OptRecord, ValueInv
<1>4. \A i \in Names : (Typed(s, i) => Typed(t, i)) /\ (Bounded(s, i, st) => Bounded(t, i, st))
  BY <1>2 DEF Typed, Bounded
<1> QED BY <1>1, <1>2, <1>3, <1>4 DEF OptInv

(* An argument is applied; its key is then to be validated.                  *)
LEMMA GivenKeeps ==
    ASSUME OptInv(c, {}), c.call # "none", NEW i \in Names, NEW text \in Texts, NEW t,
           t = Opt!Given(i, text)
    PROVE  \/ t.call = "none" /\ OptInv(t, {})
           \/ t.call = c.call /\ t.check = c.check /\ OptInv(t, {Hash[i]})
<1>0. PICK k \in Keys : k = Hash[i]
  BY DEF Keys
<1>1. PICK rs : rs = Opt!Apply(c.records, i, text)
  OBVIOUS
<1>2. PICK s : s = [c EXCEPT !.args = @ - 1, !.given[k] = IF rs = {} THEN @ ELSE {text}]
  OBVIOUS
<1>3. t = Opt!To(s, rs)
  BY <1>0, <1>1, <1>2 DEF Opt!Given
<1>4. OptRecord(c)
  BY DEF OptInv
<1>5. CASE rs = {}
  <2>1. s = [records |-> c.records, call |-> c.call, args |-> c.args - 1, check |-> c.check,
             status |-> c.status, calls |-> c.calls, given |-> c.given]
    BY <1>2, <1>4, <1>5 DEF OptRecord
  <2>2. OptRecord(s)
    BY <1>4, <2>1 DEF OptRecord, ValueInv
  <2>3. t = Opt!Returned(s, "rejected")
    BY <1>3, <1>5 DEF Opt!To
  <2>4. OptInv(t, {})
    BY <2>2, <2>3, ReturnedKeeps
  <2>5. t.call = "none"
    BY <2>1, <2>3 DEF Opt!Returned
  <2> QED BY <2>4, <2>5
<1>6. CASE rs # {}
  <2>1. PICK r \in rs : t = [s EXCEPT !.records = r]
    BY <1>3, <1>6 DEF Opt!To
  <2>2. PICK g : g = [c.given EXCEPT ![k] = {text}]
    OBVIOUS
  <2>3. t = [records |-> r, call |-> c.call, args |-> c.args - 1, check |-> c.check,
             status |-> c.status, calls |-> c.calls, given |-> g]
    BY <1>2, <1>4, <1>6, <2>1, <2>2 DEF OptRecord
  <2>4. Applied(c.records, r, i, text)
    BY <1>1, <1>4, <2>1, ApplyFacts DEF OptRecord
  <2>5. /\ g = [l \in Keys |-> g[l]] /\ g[k] = {text}
        /\ \A l \in Keys \ {k} : g[l] = c.given[l]
    BY <1>4, <2>2 DEF OptRecord
  <2>6. ValueInv(t)
    <3> SUFFICES ASSUME NEW l \in Keys
                 PROVE  /\ \A txt \in g[l] :
                             /\ r[l].type # "none"
                             /\ r[l].type # "list" => r[l].val \in Opt!Convert(r[l].type, txt)
                        /\ g[l] = {} /\ r[l].type \notin {"none", "list"} =>
                             \E e \in Names : Hash[e] = l
                                              /\ r[l].val = Opt!AskedDefault(Args[e])
      BY <2>3 DEF ValueInv
    <3>1. CASE l = k
      <4>1. Args[i].type # "none"
        BY DataAssumption DEF Opt!ArgsApart, Opt!ArgTypes
      <4> QED BY <1>0, <2>4, <2>5, <3>1, <4>1 DEF Applied
    <3>2. CASE l # k
      <4>1. g[l] = c.given[l] /\ r[l] = c.records[l]
        BY <1>0, <2>4, <2>5, <3>2 DEF Applied
      <4> QED BY <1>4, <4>1 DEF OptRecord, ValueInv
    <3> QED BY <3>1, <3>2
  <2>7. OptRecord(t)
    BY <1>4, <2>3, <2>4, <2>5, <2>6 DEF OptRecord, Applied
  <2>8. c.status = "running" /\ c.call \in {"parse_argv", "apply_options"}
    BY DEF OptInv
  <2>9. ASSUME NEW e \in Names \ c.check
        PROVE  Typed(t, e) /\ (Hash[e] \notin {Hash[i]} => Bounded(t, e, c.call))
    <3>1. Typed(c, e) /\ Bounded(c, e, c.call) /\ Hash[e] \in Keys
      BY <2>9 DEF OptInv, Keys
    <3>2. CASE Hash[e] # k
      <4>1. t.records[Hash[e]] = c.records[Hash[e]]
        BY <1>0, <2>3, <2>4, <3>1, <3>2 DEF Applied
      <4> QED BY <3>1, <4>1 DEF Typed, Bounded
    <3>3. CASE Hash[e] = k
      <4>1. c.records[k].type # "none"
        BY <3>1, <3>3, DataAssumption DEF Typed, Opt!AskedType, Opt!ArgsApart, Opt!ArgTypes
      <4>2. r[k].type = c.records[k].type /\ r[k].secret = c.records[k].secret
        BY <1>0, <2>4, <4>1 DEF Applied
      <4>3. Typed(t, e)
        BY <2>3, <3>1, <3>3, <4>2 DEF Typed
      <4> QED BY <1>0, <3>3, <4>3
    <3> QED BY <3>2, <3>3
  <2>10. OptInv(t, {Hash[i]})
    BY <2>3, <2>7, <2>8, <2>9 DEF OptInv
  <2> QED BY <2>3, <2>10
<1> QED BY <1>5, <1>6

(* An argument is validated, which settles what is under its key.            *)
LEMMA ValidateKeeps ==
    ASSUME NEW s, NEW K, NEW i \in Names, OptInv(s, K), s.call # "none",
           K = {} \/ (K = {Hash[i]} /\ s.call = "apply_options"),
           NEW t, t = Opt!To([s EXCEPT !.check = @ \ {i}], Opt!Validate(s.records, i))
    PROVE  OptInv(t, {})
<1>0. PICK k \in Keys : k = Hash[i]
  BY DEF Keys
<1>1. PICK rs : rs = Opt!Validate(s.records, i)
  OBVIOUS
<1>2. PICK u : u = [s EXCEPT !.check = @ \ {i}]
  OBVIOUS
<1>3. OptRecord(s) /\ s.status = "running" /\ s.call \in {"parse_argv", "apply_options"}
  BY DEF OptInv
<1>4. u = [records |-> s.records, call |-> s.call, args |-> s.args, check |-> s.check \ {i},
           status |-> s.status, calls |-> s.calls, given |-> s.given]
  BY <1>2, <1>3 DEF OptRecord
<1>5. OptRecord(u)
  BY <1>3, <1>4 DEF OptRecord, ValueInv
<1>6. CASE rs = {}
  <2>1. t = Opt!Returned(u, "rejected")
    BY <1>1, <1>2, <1>6 DEF Opt!To
  <2> QED BY <1>5, <2>1, ReturnedKeeps
<1>7. CASE rs # {}
  <2>1. PICK r \in rs : t = [u EXCEPT !.records = r]
    BY <1>1, <1>2, <1>7 DEF Opt!To
  <2>2. t = [records |-> r, call |-> s.call, args |-> s.args, check |-> s.check \ {i},
             status |-> s.status, calls |-> s.calls, given |-> s.given]
    BY <1>4, <2>1
  <2>2a. t.records = r /\ t.given = s.given
    BY <2>2
  <2>2b. t = [records |-> t.records, call |-> t.call, args |-> t.args, check |-> t.check,
              status |-> t.status, calls |-> t.calls, given |-> t.given]
    BY <2>2
  <2>3. /\ RecordsInv(r)
        /\ Got(s.records, r, k, Opt!AskedType(Args[i]), Args[i].secret,
               Opt!AskedDefault(Args[i]))
        /\ Args[i].type = "bool" \/ Opt!CheckRange(Args[i], r[k].val)
    BY <1>0, <1>1, <1>3, <2>1, ValidateFacts DEF OptRecord
  <2>4. /\ \A l \in Keys \ {k} : r[l] = s.records[l]
        /\ s.records[k].type # "none" => r = s.records
        /\ r[k].type = Opt!AskedType(Args[i]) /\ r[k].secret = Args[i].secret
    BY <2>3, DataAssumption DEF Got, Opt!AskedType, Opt!ArgsApart, Opt!ArgTypes
  <2>5. ValueInv(t)
    <3> SUFFICES ASSUME NEW l \in Keys
                 PROVE  /\ \A txt \in s.given[l] :
                             /\ r[l].type # "none"
                             /\ r[l].type # "list" => r[l].val \in Opt!Convert(r[l].type, txt)
                        /\ s.given[l] = {} /\ r[l].type \notin {"none", "list"} =>
                             \E e \in Names : Hash[e] = l
                                              /\ r[l].val = Opt!AskedDefault(Args[e])
      BY <2>2a DEF ValueInv
    <3>1. CASE r[l] = s.records[l]
      BY <1>3, <3>1 DEF OptRecord, ValueInv
    <3>2. CASE r[l] # s.records[l]
      <4>1. l = k /\ s.records[k].type = "none" /\ r[k].val = Opt!AskedDefault(Args[i])
        BY <2>3, <2>4, <3>2 DEF Got
      <4>2. s.given[k] = {}
        BY <1>3, <4>1 DEF OptRecord, ValueInv
      <4> QED BY <1>0, <4>1, <4>2
    <3> QED BY <3>1, <3>2
  <2>6. OptRecord(t)
    <3>1. t.check \subseteq Names
      BY <1>3, <2>2 DEF OptRecord
    <3> QED BY <1>3, <2>2a, <2>2b, <2>3, <2>5, <3>1 DEF OptRecord
  <2>7. ASSUME NEW e \in Names, e = i \/ e \notin s.check
        PROVE  Typed(t, e) /\ Bounded(t, e, s.call)
    <3>0. Hash[e] \in Keys
      BY DEF Keys
    <3>1. CASE e = i
      <4>1. Typed(t, e)
        BY <1>0, <2>2, <2>4, <3>1 DEF Typed
      <4>2. Bounded(t, e, s.call)
        BY <1>0, <2>2, <2>3, <3>1 DEF Bounded, Opt!InBounds
      <4> QED BY <4>1, <4>2
    <3>2. CASE e # i
      <4>1. Typed(s, e) /\ (Hash[e] \notin K => Bounded(s, e, s.call))
        BY <2>7, <3>2 DEF OptInv
      <4>2. s.records[Hash[e]].type # "none"
        BY <4>1, DataAssumption DEF Typed, Opt!AskedType, Opt!ArgsApart, Opt!ArgTypes
      <4>3. r[Hash[e]] = s.records[Hash[e]]
        BY <2>4, <3>0, <4>2
      <4>4. Typed(t, e)
        BY <2>2, <4>1, <4>3 DEF Typed
      <4>5. CASE Hash[e] \notin K
        <5>1. Bounded(t, e, s.call)
          BY <2>2, <4>1, <4>3, <4>5 DEF Bounded
        <5> QED BY <4>4, <5>1
      <4>6. CASE Hash[e] \in K
        <5>1. Hash[e] = k /\ Hash[e] = Hash[i] /\ s.call = "apply_options"
          BY <1>0, <4>6
        <5>2. Opt!AskedType(Args[e]) = Opt!AskedType(Args[i])
          BY <2>2, <2>4, <4>4, <5>1 DEF Typed
        <5>3. Args[e].type = "bool" \/ Opt!CheckRange(Args[i], r[Hash[e]].val)
          BY <2>3, <5>1, <5>2 DEF Opt!AskedType
        <5>4. Bounded(t, e, s.call)
          BY <2>2, <5>1, <5>3 DEF Bounded, Opt!InBounds
        <5> QED BY <4>4, <5>4
      <4> QED BY <4>5, <4>6
    <3> QED BY <3>1, <3>2
  <2>8. t.check = s.check \ {i} /\ t.call = s.call /\ t.status = s.status
    BY <2>2
  <2>9. \A e \in Names \ t.check : Typed(t, e) /\ Bounded(t, e, t.call)
    BY <2>7, <2>8
  <2>10. t.status \notin {"parse_argv", "apply_options"}
    BY <1>3, <2>8
  <2> QED BY <1>3, <2>6, <2>8, <2>9, <2>10 DEF OptInv
<1> QED BY <1>6, <1>7

(* Every step of Options keeps the invariant.                                *)
LEMMA OptStep == OptInv(c, {}) /\ [Opt!Next]_c => OptInv(c', {})
<1> SUFFICES ASSUME OptInv(c, {}), [Opt!Next]_c PROVE OptInv(c', {})
  OBVIOUS
<1>0. OptRecord(c)
  BY DEF OptInv
<1>1. CASE UNCHANGED c
  BY <1>1
<1>2. ASSUME NEW call \in {"parse_argv", "apply_options"}, Opt!Call(call) PROVE OptInv(c', {})
  <2>1. c' = [records |-> c.records, call |-> call, args |-> MaxArgs, check |-> Names,
              status |-> "running", calls |-> c.calls + 1, given |-> c.given]
    BY <1>0, <1>2 DEF Opt!Call, OptRecord
  <2>2. OptRecord(c')
    BY <1>0, <2>1 DEF OptRecord, ValueInv
  <2> QED BY <2>1, <2>2 DEF OptInv
<1>3. CASE Opt!Refuse
  BY <1>0, <1>3, ReturnedKeeps DEF Opt!Refuse
<1>4. CASE Opt!Return
  <2>1. PICK left \in BOOLEAN : c' = Opt!Returned(c, IF left THEN "rejected" ELSE c.call)
    BY <1>4 DEF Opt!Return
  <2>2. CASE left
    BY <1>0, <2>1, <2>2, ReturnedKeeps
  <2>3. CASE ~left
    <3>1. \A i \in Names : Typed(c, i) /\ Bounded(c, i, c.call)
      BY <1>4 DEF Opt!Return, OptInv
    <3> QED BY <1>0, <2>1, <2>3, <3>1, ReturnedKeeps
  <2> QED BY <2>2, <2>3
<1>5. ASSUME NEW i \in Names, Opt!ValidateNext(i) PROVE OptInv(c', {})
  <2>1. c' = Opt!To([c EXCEPT !.check = @ \ {i}], Opt!Validate(c.records, i)) /\ c.call # "none"
    BY <1>5 DEF Opt!ValidateNext
  <2> QED BY <2>1, ValidateKeeps
<1>6. ASSUME NEW i \in Names, NEW text \in Texts, Opt!ApplyNext(i, text) PROVE OptInv(c', {})
  <2>1. c' = Opt!Given(i, text) /\ c.call # "none" /\ c.check = Names
    BY <1>6 DEF Opt!ApplyNext
  <2>2. \/ OptInv(c', {})
        \/ c'.check = Names /\ OptInv(c', {Hash[i]})
    BY <2>1, GivenKeeps
  <2> QED BY <2>2 DEF OptInv
<1>7. ASSUME NEW i \in Names, Opt!OptionNext(i) PROVE OptInv(c', {})
  <2>1. c.call = "apply_options"
    BY <1>7 DEF Opt!OptionNext
  <2>2. PICK s : /\ s = c \/ \E text \in Texts : s = Opt!Given(i, text)
                 /\ c' = IF s.call = "none" THEN s
                         ELSE Opt!To([s EXCEPT !.check = @ \ {i}], Opt!Validate(s.records, i))
    BY <1>7 DEF Opt!OptionNext
  <2>3. CASE s = c
    BY <2>1, <2>2, <2>3, ValidateKeeps
  <2>4. ASSUME NEW text \in Texts, s = Opt!Given(i, text) PROVE OptInv(c', {})
    <3>1. \/ s.call = "none" /\ OptInv(s, {})
          \/ s.call = c.call /\ s.check = c.check /\ OptInv(s, {Hash[i]})
      BY <2>1, <2>4, GivenKeeps
    <3>2. CASE s.call = "none"
      BY <2>1, <2>2, <3>1, <3>2
    <3>3. CASE s.call # "none"
      <4>1. s.call = "apply_options" /\ OptInv(s, {Hash[i]})
        BY <2>1, <3>1, <3>3
      <4>2. c' = Opt!To([s EXCEPT !.check = @ \ {i}], Opt!Validate(s.records, i))
        BY <2>2, <3>3
      <4> QED BY <4>1, <4>2, ValidateKeeps
    <3> QED BY <3>2, <3>3
  <2> QED BY <2>2, <2>3, <2>4
<1> QED BY <1>1, <1>2, <1>3, <1>4, <1>5, <1>6, <1>7 DEF Opt!Next

(* An accepted call leaves every option valid, with the last value given in  *)
(* any call, and secrets unseen, for all arguments, texts and hashes and any *)
(* number of calls, those that were rejected half way among them             *)
(* (parse_argv, apply_options, RecordCategory).                              *)
THEOREM OptionsAreSound == MCSpec => []OptionsSound
<1>1. MCInit => OptInv(c, {})
  <2> SUFFICES ASSUME MCInit PROVE OptInv(c, {})
    OBVIOUS
  <2>1. c = [records |-> [k \in Keys |-> Opt!NoRecord], call |-> "none", args |-> 0,
             check |-> {}, status |-> "idle", calls |-> 0, given |-> [k \in Keys |-> {}]]
    BY DEF MCInit, Opt!Init, Keys
  <2>2. IsRecord(Opt!NoRecord) /\ Opt!NoRecord.type = "none"
    BY DEF IsRecord, Opt!NoRecord
  <2>3. RecordsInv(c.records)
    BY <2>1, <2>2 DEF RecordsInv
  <2>4. ValueInv(c)
    BY <2>1, <2>2 DEF ValueInv
  <2> QED BY <2>1, <2>3, <2>4 DEF OptInv, OptRecord
<1>2. OptInv(c, {}) /\ [MCNext]_allVars => OptInv(c, {})'
  <2> SUFFICES ASSUME OptInv(c, {}), [MCNext]_allVars PROVE OptInv(c', {})
    OBVIOUS
  <2>1. [Opt!Next]_c
    BY DEF MCNext, allVars
  <2> QED BY <2>1, OptStep
<1>3. OptInv(c, {}) => OptionsSound
  <2> SUFFICES ASSUME OptInv(c, {}), c.status \in {"parse_argv", "apply_options"},
                      NEW i \in Names, Args[i].type # "list"
               PROVE  LET r == c.records[Hash[i]] arg == Args[i] IN
                      /\ r.type = arg.type /\ (arg.type = "bool" \/ Opt!InBounds(r.val, i, c.status))
                      /\ \A text \in c.given[Hash[i]] : r.val \in Opt!Convert(arg.type, text)
                      /\ c.given[Hash[i]] = {} =>
                           \E e \in Names : Hash[e] = Hash[i] /\ r.val = Opt!AskedDefault(Args[e])
                      /\ Opt!Visible(r) = ~arg.secret
    BY DEF OptionsSound, Opt!OptionsSound, Opt!Accepted
  <2>1. Typed(c, i) /\ Bounded(c, i, c.status) /\ Hash[i] \in Keys /\ OptRecord(c)
    BY DEF OptInv, Keys
  <2>2. /\ c.records[Hash[i]].type = Args[i].type /\ Args[i].type \notin {"none", "list"}
        /\ c.records[Hash[i]].secret = Args[i].secret /\ Args[i].secret \in BOOLEAN
    BY <2>1, DataAssumption DEF Typed, Opt!AskedType, Opt!ArgsApart, Opt!ArgTypes
  <2>3. Opt!Visible(c.records[Hash[i]]) = ~Args[i].secret
    BY <2>2 DEF Opt!Visible
  <2>4. /\ \A text \in c.given[Hash[i]] :
             c.records[Hash[i]].val \in Opt!Convert(Args[i].type, text)
        /\ c.given[Hash[i]] = {} =>
             \E e \in Names : Hash[e] = Hash[i]
                              /\ c.records[Hash[i]].val = Opt!AskedDefault(Args[e])
    BY <2>1, <2>2 DEF OptRecord, ValueInv
  <2> QED BY <2>1, <2>2, <2>3, <2>4 DEF Bounded
<1> QED BY <1>1, <1>2, <1>3, PTL DEF MCSpec, allVars

-----------------------------------------------------------------------------
(* Owners. The references of an object are counted as OwnersSound says,      *)
(* while a descriptor is being closed no owner has it, and descriptors have  *)
(* at most one reference.                                                    *)
Pointers == Objects \cup {Null, Unborn}

Held(f, p) == Cardinality({x \in Slots : f[x] = p})

Claims(s, p) == Own!One(p \in s.raw) + Own!One(p \in s.other) + Own!One(s.fd = p /\ ~s.err)

OwnRecords ==
    [kind : Kinds, ptr : [Slots -> Pointers], refs : [Objects -> Nat], raw : SUBSET Objects,
     other : SUBSET Objects, fd : Objects \cup {Null}, err : BOOLEAN, bad : BOOLEAN,
     self : BOOLEAN, intr : BOOLEAN, robbed : SUBSET Objects]

Balanced(s) == ~s.self => /\ ~s.bad
                          /\ \A p \in Objects : s.refs[p] = Held(s.ptr, p) + Claims(s, p)

Descriptors(s) ==
    /\ s.self => s.kind = "shared"
    /\ s.kind = "handle" => \A p \in Objects : s.refs[p] <= 1
    /\ s.kind # "handle" => s.other = {} /\ s.fd = Null
    /\ s.fd # Null => s.fd \notin s.raw /\ \A x \in Slots : s.ptr[x] # s.fd
    /\ s.err \/ s.robbed # {} => s.intr

OwnInv(s) == s \in OwnRecords /\ Balanced(s) /\ Descriptors(s)


LEMMA SlotsFinite == IsFiniteSet(Slots)
<1>1. Own!IsFiniteSet(Slots)
  BY DataAssumption DEF Own!Apart
<1> QED BY <1>1, Zenon DEF Own!IsFiniteSet, IsFiniteSet

LEMMA SameCardinality == \A S : Own!Cardinality(S) = Cardinality(S)
BY Zenon DEF Own!Cardinality, Cardinality, Own!IsFiniteSet, IsFiniteSet

Recounted(f, g, x, q, p) ==
    /\ Held(f, p) \in Nat /\ Held(g, p) \in Nat
    /\ Held(g, p) + Own!One(f[x] = p) = Held(f, p) + Own!One(q = p)

LEMMA HeldStep ==
    ASSUME NEW f \in [Slots -> Pointers], NEW x \in Slots, NEW q \in Pointers, NEW p,
           NEW g, g = [f EXCEPT ![x] = q]
    PROVE  Recounted(f, g, x, q, p)
<1> DEFINE A == {z \in Slots : f[z] = p}
           B == {z \in Slots : g[z] = p}
<1>0. A \in SUBSET Slots /\ B \in SUBSET Slots /\ IsFiniteSet(Slots)
  BY SlotsFinite
<1>1. IsFiniteSet(A) /\ IsFiniteSet(B)
  BY <1>0, FS_Subset, Zenon
<1>2. Cardinality(A) \in Nat /\ Cardinality(B) \in Nat
  BY <1>1, FS_CardinalityType
<1>3. CASE (f[x] = p) = (q = p)
  <2>1. A = B
    BY <1>3
  <2> QED BY <1>2, <1>3, <2>1 DEF Held, Recounted, Own!One
<1>4. CASE f[x] = p /\ q # p
  <2>1. B = A \ {x} /\ x \in A
    BY <1>4
  <2>2. Cardinality(B) = Cardinality(A) - 1
    BY <1>1, <2>1, FS_RemoveElement
  <2> QED BY <1>2, <1>4, <2>2 DEF Held, Recounted, Own!One
<1>5. CASE f[x] # p /\ q = p
  <2>1. B = A \cup {x} /\ x \notin A
    BY <1>5
  <2>2. Cardinality(B) = Cardinality(A) + 1
    BY <1>1, <2>1, FS_AddElement
  <2> QED BY <1>2, <1>5, <2>2 DEF Held, Recounted, Own!One
<1> QED BY <1>3, <1>4, <1>5

LEMMA HeldBy ==
    ASSUME NEW f \in [Slots -> Pointers], NEW p
    PROVE  Held(f, p) \in Nat /\ (Held(f, p) = 0 <=> \A x \in Slots : f[x] # p)
<1> DEFINE A == {z \in Slots : f[z] = p}
<1>0. A \in SUBSET Slots /\ IsFiniteSet(Slots)
  BY SlotsFinite
<1>1. IsFiniteSet(A)
  BY <1>0, FS_Subset, Zenon
<1>2. Cardinality(A) \in Nat /\ (Cardinality(A) = 0 <=> A = {})
  BY <1>1, FS_CardinalityType, FS_EmptySet
<1> QED BY <1>2 DEF Held

(* What Drop leaves: x gives its reference back, or its descriptor to the    *)
(* loop that closes it; what the pointer of x is depends on the class.       *)
LetGo(s, x, d, e) ==
    /\ d \in OwnRecords /\ d.kind = s.kind /\ d.raw = s.raw /\ d.other = s.other
    /\ d.self = s.self /\ d.intr = s.intr /\ d.robbed = s.robbed /\ (d.err => s.err)
    /\ e = [s.ptr EXCEPT ![x] = Null] /\ e \in [Slots -> Pointers]
    /\ \A z \in Slots \ {x} : d.ptr[z] = s.ptr[z]
    /\ d.ptr[x] \in {Null, s.ptr[x]}
    /\ d.ptr[x] = Null \/ s.kind \in {"auto", "shared"}
       \/ (s.kind = "pointer" /\ s.refs[s.ptr[x]] # 1)
    /\ s.kind # "handle" => d.fd = Null
    /\ s.kind = "handle" => d.refs = s.refs
    /\ d.fd # Null => ~d.err /\ d.fd \notin d.raw /\ \A z \in Slots : e[z] # d.fd
    /\ ~s.self => ~d.bad /\ \A p \in Objects : d.refs[p] = Held(e, p) + Claims(d, p)

LEMMA DropUnrefs ==
    ASSUME NEW s \in OwnRecords, Balanced(s), Descriptors(s), s.fd = Null,
           NEW x \in Slots, s.ptr[x] \in Objects, s.kind # "handle",
           NEW d \in OwnRecords, NEW q \in {Null, s.ptr[x]}, NEW e,
           e = [s.ptr EXCEPT ![x] = Null],
           q = Null \/ s.kind \in {"auto", "shared"}
           \/ (s.kind = "pointer" /\ s.refs[s.ptr[x]] # 1),
           d = [Own!Unref(s, s.ptr[x]) EXCEPT !.ptr[x] = q]
    PROVE  LetGo(s, x, d, e)
<1>1. PICK p \in Objects : p = s.ptr[x]
  OBVIOUS
<1> DEFINE gone == [s.refs EXCEPT ![p] = IF @ = 0 THEN 0 ELSE @ - 1]
           wrong == s.bad \/ s.refs[p] = 0
           pointers == [s.ptr EXCEPT ![x] = q]
<1>2. d = [s EXCEPT !.refs = gone, !.bad = wrong, !.ptr = pointers]
  <2>1. Own!Unref(s, s.ptr[x]) = [s EXCEPT !.refs = gone, !.bad = wrong]
    BY <1>1 DEF Own!Unref
  <2> HIDE DEF gone, wrong
  <2> QED BY <2>1 DEF OwnRecords
<1>3. /\ d.kind = s.kind /\ d.raw = s.raw /\ d.other = s.other /\ d.self = s.self
      /\ d.intr = s.intr /\ d.robbed = s.robbed /\ d.err = s.err /\ d.fd = s.fd
      /\ d.ptr = pointers /\ d.refs = gone /\ d.bad = wrong
  <2> HIDE DEF gone, wrong, pointers
  <2> QED BY <1>2 DEF OwnRecords
<1>4. d.refs = [s.refs EXCEPT ![p] = IF @ = 0 THEN 0 ELSE @ - 1]
  BY <1>3
<1>5. d.bad = (s.bad \/ s.refs[p] = 0)
  BY <1>3
<1> HIDE DEF gone, wrong
<1>6. s.ptr \in [Slots -> Pointers] /\ s.refs \in [Objects -> Nat]
  BY DEF OwnRecords
<1>7. e \in [Slots -> Pointers]
  BY <1>6 DEF Pointers
<1>8. ASSUME ~s.self PROVE ~d.bad /\ \A r \in Objects : d.refs[r] = Held(e, r) + Claims(d, r)
  <2>1. ~s.bad /\ \A r \in Objects : s.refs[r] = Held(s.ptr, r) + Claims(s, r)
    BY <1>8 DEF Balanced
  <2>2. \A r \in Objects : Claims(d, r) = Claims(s, r) /\ Claims(s, r) \in Nat
    BY <1>3 DEF Claims, Own!One
  <2>3. Held(s.ptr, p) \in Nat \ {0}
    BY <1>1, <1>6, HeldBy
  <2>4. s.refs[p] # 0
    BY <2>1, <2>2, <2>3
  <2>5. ASSUME NEW r \in Objects PROVE d.refs[r] = Held(e, r) + Claims(d, r)
    <3>1. Null # r
      BY DataAssumption DEF Own!Apart
    <3>2. /\ Held(e, r) \in Nat /\ Held(s.ptr, r) \in Nat
          /\ Held(e, r) + Own!One(s.ptr[x] = r) = Held(s.ptr, r) + Own!One(Null = r)
      <4>1. Recounted(s.ptr, e, x, Null, r)
        BY <1>6, HeldStep DEF Pointers
      <4> QED BY <4>1 DEF Recounted
    <3>3. CASE r = p
      <4>1. Held(e, r) = Held(s.ptr, r) - 1
        BY <1>1, <3>1, <3>2, <3>3 DEF Own!One
      <4>2. d.refs[r] = s.refs[r] - 1
        BY <1>4, <1>6, <2>4, <3>3
      <4> QED BY <2>1, <2>2, <3>2, <4>1, <4>2
    <3>4. CASE r # p
      <4>1. Held(e, r) = Held(s.ptr, r)
        BY <1>1, <3>1, <3>2, <3>4 DEF Own!One
      <4>2. d.refs[r] = s.refs[r]
        BY <1>4, <1>6, <3>4
      <4> QED BY <2>1, <2>2, <4>1, <4>2
    <3> QED BY <3>3, <3>4
  <2> QED BY <1>5, <2>1, <2>4, <2>5
<1>9. (\A z \in Slots \ {x} : d.ptr[z] = s.ptr[z]) /\ d.ptr[x] = q
  BY <1>3, <1>6
<1> QED BY <1>3, <1>7, <1>8, <1>9 DEF LetGo

LEMMA DropFacts ==
    ASSUME NEW s, OwnInv(s), s.fd = Null, NEW x \in Slots, s.ptr[x] # Unborn,
           NEW d, d = Own!Drop(s, x), NEW e, e = [s.ptr EXCEPT ![x] = Null]
    PROVE  LetGo(s, x, d, e)
<1>0. s \in OwnRecords /\ Balanced(s) /\ Descriptors(s) /\ s.ptr \in [Slots -> Pointers]
      /\ s.refs \in [Objects -> Nat]
  BY DEF OwnInv, OwnRecords
<1>1. CASE s.ptr[x] = Null
  <2>1. d = s /\ e = s.ptr
    BY <1>0, <1>1 DEF Own!Drop
  <2> QED BY <1>0, <1>1, <2>1 DEF LetGo, Balanced, Descriptors
<1>2. CASE s.ptr[x] # Null
  <2>1. PICK p \in Objects : p = s.ptr[x]
    BY <1>0, <1>2 DEF Pointers
  <2>2. s.kind \in {"handle", "simple", "auto", "shared", "openssl", "pointer"}
    BY <1>0, DataAssumption DEF OwnRecords, Own!Apart
  <2>3. CASE s.kind = "handle"
    <3>1. d = [s EXCEPT !.fd = p, !.err = FALSE, !.ptr[x] = Null]
      BY <1>2, <2>1, <2>3 DEF Own!Drop, Own!ResetHandle
    <3>2. e \in [Slots -> Pointers]
      BY <1>0 DEF Pointers
    <3>3. d = [s EXCEPT !.fd = p, !.err = FALSE, !.ptr = e]
      BY <3>1
    <3>4. /\ d \in OwnRecords /\ d.kind = s.kind /\ d.raw = s.raw /\ d.other = s.other
          /\ d.self = s.self /\ d.intr = s.intr /\ d.robbed = s.robbed /\ d.bad = s.bad
          /\ d.err = FALSE /\ d.ptr = e /\ d.refs = s.refs /\ d.fd = p
      BY <1>0, <3>2, <3>3 DEF OwnRecords
    <3>5. ~s.self /\ ~s.bad /\ \A r \in Objects : s.refs[r] = Held(s.ptr, r) + Claims(s, r)
      BY <1>0, <2>3 DEF Descriptors, Balanced
    <3>6. p # Null /\ \A r \in Objects : r # Null
      BY DataAssumption DEF Own!Apart
    <3>7. Held(s.ptr, p) \in Nat \ {0} /\ s.refs[p] <= 1
      BY <1>0, <2>1, <2>3, HeldBy DEF Descriptors
    <3>8. ASSUME NEW r \in Objects PROVE d.refs[r] = Held(e, r) + Claims(d, r)
      <4>1. /\ Held(e, r) \in Nat /\ Held(s.ptr, r) \in Nat
            /\ Held(e, r) + Own!One(p = r) = Held(s.ptr, r) + Own!One(Null = r)
        BY <1>0, <2>1, HeldStep DEF Pointers, Recounted
      <4>2. Claims(d, r) = Claims(s, r) + Own!One(p = r) /\ Claims(s, r) \in Nat
        BY <3>4, <3>6 DEF Claims, Own!One
      <4> QED BY <3>4, <3>5, <3>6, <4>1, <4>2 DEF Own!One
    <3>9. Held(e, p) = 0 /\ p \notin s.raw
      <4>1. Held(e, p) + 1 = Held(s.ptr, p) /\ Held(e, p) \in Nat
        BY <1>0, <2>1, <3>6, HeldStep DEF Pointers, Recounted, Own!One
      <4>2. Claims(s, p) \in Nat /\ (p \in s.raw => Claims(s, p) >= 1)
        BY DEF Claims, Own!One
      <4>3. Held(s.ptr, p) + Claims(s, p) <= 1
        BY <3>5, <3>7
      <4> QED BY <4>1, <4>2, <4>3
    <3>10. \A z \in Slots : e[z] # p
      BY <3>2, <3>9, HeldBy
    <3>11. (\A z \in Slots \ {x} : d.ptr[z] = s.ptr[z]) /\ d.ptr[x] = Null
      BY <1>0, <3>4
    <3> QED BY <2>3, <3>2, <3>4, <3>5, <3>8, <3>9, <3>10, <3>11 DEF LetGo
  <2>4. CASE s.kind # "handle"
    <3>1. PICK q \in {Null, p} :
             /\ d = [Own!Unref(s, p) EXCEPT !.ptr[x] = q]
             /\ \/ q = Null \/ s.kind \in {"auto", "shared"}
                \/ (s.kind = "pointer" /\ s.refs[p] # 1)
      <4>0. [Own!Unref(s, p) EXCEPT !.ptr[x] = p] = Own!Unref(s, p)
        BY <1>0, <2>1 DEF Own!Unref, OwnRecords
      <4>1. CASE s.kind \in {"simple", "openssl"}
        <5>1. d = [Own!Unref(s, p) EXCEPT !.ptr[x] = Null]
          BY <1>2, <2>1, <4>1 DEF Own!Drop, Own!ResetSimple, Own!FreeOpenSSL
        <5> QED BY <5>1 DEF Pointers
      <4>2. CASE s.kind \in {"auto", "shared"}
        <5>1. d = Own!Unref(s, p)
          BY <1>2, <2>1, <4>2 DEF Own!Drop, Own!ResetAuto, Own!UnrefShared
        <5> QED BY <4>0, <4>2, <5>1 DEF Pointers
      <4>3. CASE s.kind = "pointer"
        <5>1. d = [Own!Unref(s, p) EXCEPT !.ptr[x] = IF s.refs[p] = 1 THEN Null ELSE @]
          BY <1>2, <2>1, <4>3 DEF Own!Drop, Own!UnrefPointer
        <5>2. CASE s.refs[p] = 1
          BY <5>1, <5>2 DEF Pointers
        <5>3. CASE s.refs[p] # 1
          <6>1. Own!Unref(s, p).ptr[x] = p
            BY <1>0, <2>1 DEF Own!Unref, OwnRecords
          <6> QED BY <4>3, <5>1, <5>3, <6>1 DEF Pointers
        <5> QED BY <5>2, <5>3
      <4> QED BY <2>2, <2>4, <4>1, <4>2, <4>3
    <3>2. d \in OwnRecords
      <4>1. PICK f \in [Slots -> Pointers] : f = [s.ptr EXCEPT ![x] = q]
        BY <1>0 DEF Pointers
      <4>2. PICK g \in [Objects -> Nat] : g = [s.refs EXCEPT ![p] = IF @ = 0 THEN 0 ELSE @ - 1]
        <5>1. PICK v \in Nat : v = IF s.refs[p] = 0 THEN 0 ELSE s.refs[p] - 1
          BY <1>0
        <5> QED BY <1>0, <5>1
      <4>3. PICK b \in BOOLEAN : b = (s.bad \/ s.refs[p] = 0)
        OBVIOUS
      <4>4. d = [s EXCEPT !.refs = g, !.bad = b, !.ptr = f]
        BY <1>0, <3>1, <4>1, <4>2, <4>3 DEF Own!Unref, OwnRecords
      <4> QED BY <1>0, <4>4 DEF OwnRecords
    <3> QED BY <1>0, <2>1, <2>4, <3>1, <3>2, DropUnrefs
  <2> QED BY <2>3, <2>4
<1> QED BY <1>1, <1>2

(* A state in which slot x has nothing, with f for the pointers: before x is *)
(* made, or after Drop.                                                      *)
Open(d, f, x) ==
    /\ d \in OwnRecords /\ f \in [Slots -> Pointers] /\ f[x] \notin Objects
    /\ \A z \in Slots \ {x} : d.ptr[z] = f[z]
    /\ ~d.self => ~d.bad /\ \A p \in Objects : d.refs[p] = Held(f, p) + Claims(d, p)
    /\ d.self => d.kind = "shared"
    /\ d.kind = "handle" => \A p \in Objects : d.refs[p] <= 1
    /\ d.kind # "handle" => d.other = {} /\ d.fd = Null
    /\ d.fd # Null => d.fd \notin d.raw /\ \A z \in Slots : f[z] # d.fd
    /\ d.err \/ d.robbed # {} => d.intr

LEMMA UnbornIsOpen ==
    ASSUME NEW s, OwnInv(s), NEW x \in Slots, s.ptr[x] = Unborn
    PROVE  Open(s, s.ptr, x)
<1>1. s \in OwnRecords /\ s.ptr \in [Slots -> Pointers]
  BY DEF OwnInv, OwnRecords
<1> QED BY <1>1, DataAssumption DEF OwnInv, Balanced, Descriptors, Open, Own!Apart

LEMMA DroppedIsOpen ==
    ASSUME NEW s, OwnInv(s), NEW x \in Slots, NEW d, NEW e, LetGo(s, x, d, e)
    PROVE  Open(d, e, x)
<1>1. s \in OwnRecords /\ s.ptr \in [Slots -> Pointers]
  BY DEF OwnInv, OwnRecords
<1>2. e[x] = Null /\ \A z \in Slots \ {x} : e[z] = s.ptr[z]
  BY <1>1 DEF LetGo
<1>3. Null \notin Objects
  BY DataAssumption DEF Own!Apart
<1> QED BY <1>2, <1>3 DEF OwnInv, Balanced, Descriptors, Open, LetGo

(* x gets nothing, or ends.                                                  *)
LEMMA FillEmpty ==
    ASSUME NEW d, NEW f, NEW x \in Slots, Open(d, f, x), NEW q \in {Null, Unborn},
           NEW t, t = [d EXCEPT !.ptr[x] = q]
    PROVE  OwnInv(t)
<1>0. d \in OwnRecords /\ d.ptr \in [Slots -> Pointers] /\ f \in [Slots -> Pointers]
      /\ q \in Pointers /\ q \notin Objects
  BY DataAssumption DEF Open, OwnRecords, Pointers, Own!Apart
<1>1. PICK g \in [Slots -> Pointers] : g = [f EXCEPT ![x] = q]
  BY <1>0
<1>2. g = [d.ptr EXCEPT ![x] = q] /\ g[x] = q /\ \A z \in Slots \ {x} : g[z] = f[z]
  BY <1>0, <1>1 DEF Open
<1>3. /\ t \in OwnRecords /\ t.kind = d.kind /\ t.raw = d.raw /\ t.other = d.other
      /\ t.self = d.self /\ t.intr = d.intr /\ t.robbed = d.robbed /\ t.bad = d.bad
      /\ t.err = d.err /\ t.ptr = g /\ t.refs = d.refs /\ t.fd = d.fd
  BY <1>0, <1>2 DEF OwnRecords
<1>4. ASSUME NEW p \in Objects PROVE Held(g, p) = Held(f, p) /\ Claims(t, p) = Claims(d, p)
  <2>1. /\ Held(f, p) \in Nat /\ Held(g, p) \in Nat
        /\ Held(g, p) + Own!One(f[x] = p) = Held(f, p) + Own!One(q = p)
    <3>1. Recounted(f, g, x, q, p)
      BY <1>0, <1>1, HeldStep
    <3> QED BY <3>1 DEF Recounted
  <2>2. f[x] # p /\ q # p
    BY <1>0 DEF Open
  <2>3. Held(g, p) = Held(f, p)
    BY <2>1, <2>2 DEF Own!One
  <2> QED BY <1>3, <2>3 DEF Claims
<1>5. Balanced(t)
  BY <1>3, <1>4 DEF Balanced, Open
<1>6. t.fd # Null => \A z \in Slots : t.ptr[z] # t.fd
  BY <1>0, <1>2, <1>3 DEF Open, OwnRecords
<1>7. Descriptors(t)
  BY <1>3, <1>6 DEF Descriptors, Open
<1> QED BY <1>3, <1>5, <1>7 DEF OwnInv

(* x gets what the program holds, or nothing.                                *)
LEMMA FillRaw ==
    ASSUME NEW d, NEW f, NEW x \in Slots, Open(d, f, x), NEW p \in d.raw \cup {Null},
           NEW t, t = [d EXCEPT !.ptr[x] = p, !.raw = @ \ {p}]
    PROVE  OwnInv(t)
<1>0. d \in OwnRecords /\ d.ptr \in [Slots -> Pointers] /\ f \in [Slots -> Pointers]
      /\ p \in Pointers /\ Null \notin Objects /\ d.raw \in SUBSET Objects
  BY DataAssumption DEF Open, OwnRecords, Pointers, Own!Apart
<1>1. PICK g \in [Slots -> Pointers] : g = [f EXCEPT ![x] = p]
  BY <1>0
<1>2. g = [d.ptr EXCEPT ![x] = p] /\ g[x] = p /\ \A z \in Slots \ {x} : g[z] = f[z]
  BY <1>0, <1>1 DEF Open
<1>3. PICK raw \in SUBSET Objects : raw = d.raw \ {p}
  BY <1>0
<1>4. /\ t \in OwnRecords /\ t.kind = d.kind /\ t.raw = raw /\ t.other = d.other
      /\ t.self = d.self /\ t.intr = d.intr /\ t.robbed = d.robbed /\ t.bad = d.bad
      /\ t.err = d.err /\ t.ptr = g /\ t.refs = d.refs /\ t.fd = d.fd
  BY <1>0, <1>2, <1>3 DEF OwnRecords
<1>5. ASSUME NEW r \in Objects PROVE Held(g, r) + Claims(t, r) = Held(f, r) + Claims(d, r)
  <2>1. /\ Held(f, r) \in Nat /\ Held(g, r) \in Nat
        /\ Held(g, r) + Own!One(f[x] = r) = Held(f, r) + Own!One(p = r)
    <3>1. Recounted(f, g, x, p, r)
      BY <1>0, <1>1, HeldStep
    <3> QED BY <3>1 DEF Recounted
  <2>2. f[x] # r
    BY DEF Open
  <2>3. Held(g, r) = Held(f, r) + Own!One(p = r)
    BY <2>1, <2>2 DEF Own!One
  <2>4. Claims(t, r) + Own!One(p = r) = Claims(d, r) /\ Claims(t, r) \in Nat /\ Claims(d, r) \in Nat
    BY <1>0, <1>3, <1>4 DEF Claims, Own!One
  <2>5. Own!One(p = r) \in Nat
    BY DEF Own!One
  <2> QED BY <2>1, <2>3, <2>4, <2>5
<1>6. Balanced(t)
  BY <1>4, <1>5 DEF Balanced, Open
<1>7. t.fd # Null => t.fd \notin t.raw /\ \A z \in Slots : t.ptr[z] # t.fd
  BY <1>0, <1>2, <1>3, <1>4 DEF Open, OwnRecords
<1>8. Descriptors(t)
  BY <1>4, <1>7 DEF Descriptors, Open
<1> QED BY <1>4, <1>6, <1>8 DEF OwnInv

(* x takes what another owner y has.                                         *)
LEMMA FillMoved ==
    ASSUME NEW d, NEW f, NEW x \in Slots, Open(d, f, x), NEW y \in Slots \ {x},
           NEW t, t = [d EXCEPT !.ptr = [@ EXCEPT ![x] = d.ptr[y], ![y] = Null]]
    PROVE  OwnInv(t)
<1>0. d \in OwnRecords /\ d.ptr \in [Slots -> Pointers] /\ f \in [Slots -> Pointers]
      /\ Null \in Pointers /\ Null \notin Objects /\ d.fd \in Objects \cup {Null}
  BY DataAssumption DEF Open, OwnRecords, Pointers, Own!Apart
<1>1. PICK q \in Pointers : q = f[y] /\ q = d.ptr[y]
  BY <1>0 DEF Open
<1>2. PICK g \in [Slots -> Pointers] : g = [f EXCEPT ![x] = q]
  BY <1>0
<1>3. PICK k \in [Slots -> Pointers] : k = [g EXCEPT ![y] = Null]
  BY <1>0
<1>4. k = [d.ptr EXCEPT ![x] = d.ptr[y], ![y] = Null]
  BY <1>0, <1>1, <1>2, <1>3 DEF Open
<1>5. \A z \in Slots : k[z] \in {f[z], q, Null}
  BY <1>0, <1>2, <1>3
<1>6. /\ t \in OwnRecords /\ t.kind = d.kind /\ t.raw = d.raw /\ t.other = d.other
      /\ t.self = d.self /\ t.intr = d.intr /\ t.robbed = d.robbed /\ t.bad = d.bad
      /\ t.err = d.err /\ t.ptr = k /\ t.refs = d.refs /\ t.fd = d.fd
  BY <1>0, <1>4 DEF OwnRecords
<1>7. ASSUME NEW p \in Objects PROVE Held(k, p) = Held(f, p) /\ Claims(t, p) = Claims(d, p)
  <2>1. /\ Held(f, p) \in Nat /\ Held(g, p) \in Nat
        /\ Held(g, p) + Own!One(f[x] = p) = Held(f, p) + Own!One(q = p)
    <3>1. Recounted(f, g, x, q, p)
      BY <1>0, <1>2, HeldStep
    <3> QED BY <3>1 DEF Recounted
  <2>2. /\ Held(k, p) \in Nat
        /\ Held(k, p) + Own!One(g[y] = p) = Held(g, p) + Own!One(Null = p)
    <3>1. Recounted(g, k, y, Null, p)
      BY <1>0, <1>3, HeldStep
    <3> QED BY <3>1 DEF Recounted
  <2>3. f[x] # p /\ g[y] = q /\ Null # p
    BY <1>0, <1>1, <1>2 DEF Open
  <2>4. Held(k, p) = Held(f, p)
    BY <2>1, <2>2, <2>3 DEF Own!One
  <2> QED BY <1>6, <2>4 DEF Claims
<1>8. Balanced(t)
  BY <1>6, <1>7 DEF Balanced, Open
<1>9. t.fd # Null => \A z \in Slots : t.ptr[z] # t.fd
  BY <1>1, <1>5, <1>6 DEF Open
<1>10. Descriptors(t)
  BY <1>6, <1>9 DEF Descriptors, Open
<1> QED BY <1>6, <1>8, <1>10 DEF OwnInv

(* x shares what another owner y has; the object is alive.                   *)
LEMMA FillCopied ==
    ASSUME NEW d, NEW f, NEW x \in Slots, Open(d, f, x), NEW y \in Slots \ {x},
           d.kind \in Own!Counted, d.ptr[y] # Unborn, NEW t, t = Own!CopyOf(d, x, y)
    PROVE  OwnInv(t)
<1>0. d \in OwnRecords /\ d.ptr \in [Slots -> Pointers] /\ f \in [Slots -> Pointers]
      /\ d.refs \in [Objects -> Nat] /\ Null \notin Objects /\ Unborn \notin Objects
  BY DataAssumption DEF Open, OwnRecords, Own!Apart
<1>1. PICK q \in Pointers : q = f[y] /\ q = d.ptr[y]
  BY <1>0 DEF Open
<1>2. PICK g \in [Slots -> Pointers] : g = [f EXCEPT ![x] = q]
  BY <1>0
<1>3. g = [d.ptr EXCEPT ![x] = q]
  BY <1>0, <1>2 DEF Open
<1>4. d.kind # "handle"
  BY DEF Own!Counted
<1>5. CASE q = Null
  <2>1. t = [d EXCEPT !.ptr[x] = Null]
    BY <1>1, <1>5 DEF Own!CopyOf, Own!Ref
  <2> QED BY <2>1, FillEmpty
<1>6. CASE q # Null
  <2>1. q \in Objects
    BY <1>1, <1>6 DEF Pointers
  <2>2. PICK k \in [Objects -> Nat] : k = [d.refs EXCEPT ![q] = @ + 1]
    <3>1. PICK v \in Nat : v = d.refs[q] + 1
      BY <1>0, <2>1
    <3> QED BY <1>0, <3>1
  <2>3. PICK b \in BOOLEAN : b = (d.bad \/ d.refs[q] = 0)
    OBVIOUS
  <2>4. t = [d EXCEPT !.refs = k, !.bad = b, !.ptr = g]
    BY <1>0, <1>1, <1>3, <1>6, <2>2, <2>3 DEF Own!CopyOf, Own!Ref, OwnRecords
  <2>5. /\ t \in OwnRecords /\ t.kind = d.kind /\ t.raw = d.raw /\ t.other = d.other
        /\ t.self = d.self /\ t.intr = d.intr /\ t.robbed = d.robbed /\ t.bad = b
        /\ t.err = d.err /\ t.ptr = g /\ t.refs = k /\ t.fd = d.fd
    BY <1>0, <2>4 DEF OwnRecords
  <2>6. ASSUME ~d.self, NEW p \in Objects PROVE k[p] = Held(g, p) + Claims(t, p)
    <3>1. /\ Held(f, p) \in Nat /\ Held(g, p) \in Nat
          /\ Held(g, p) + Own!One(f[x] = p) = Held(f, p) + Own!One(q = p)
      <4>1. Recounted(f, g, x, q, p)
        BY <1>0, <1>2, HeldStep
      <4> QED BY <4>1 DEF Recounted
    <3>2. f[x] # p /\ d.refs[p] = Held(f, p) + Claims(d, p)
      BY <2>6 DEF Open
    <3>3. Claims(t, p) = Claims(d, p) /\ Claims(d, p) \in Nat
      BY <2>5 DEF Claims, Own!One
    <3>4. k[p] = d.refs[p] + Own!One(q = p)
      BY <1>0, <2>2 DEF Own!One
    <3> QED BY <3>1, <3>2, <3>3, <3>4 DEF Own!One
  <2>7. ASSUME ~d.self PROVE ~b
    <3>1. Held(f, q) \in Nat \ {0}
      BY <1>0, <1>1, HeldBy
    <3>2. ~d.bad /\ d.refs[q] = Held(f, q) + Claims(d, q)
      BY <2>1, <2>7 DEF Open
    <3>3. Claims(d, q) \in Nat
      BY DEF Claims, Own!One
    <3>4. d.refs[q] # 0
      BY <3>1, <3>2, <3>3
    <3> QED BY <2>3, <3>2, <3>4
  <2>8. Balanced(t)
    BY <2>5, <2>6, <2>7 DEF Balanced
  <2>9. Descriptors(t)
    BY <1>4, <2>5 DEF Descriptors, Open
  <2> QED BY <2>5, <2>8, <2>9 DEF OwnInv
<1> QED BY <1>5, <1>6

(* Another thread opens or closes a descriptor of its own.                   *)
Foreign(s, t, p, open, other) ==
    /\ s.kind = "handle" /\ open \in {0, 1}
    /\ open = 1 => s.refs[p] = 0 /\ other = s.other \cup {p}
    /\ open = 0 => p \in s.other /\ other = s.other \ {p}
    /\ t = [s EXCEPT !.refs[p] = open, !.other = other]

(* What other threads do with their descriptors keeps the invariant.         *)
LEMMA ForeignKeeps ==
    ASSUME NEW s, OwnInv(s), NEW t, NEW p \in Objects, NEW open, NEW other,
           Foreign(s, t, p, open, other)
    PROVE  OwnInv(t)
<1>0. /\ s \in OwnRecords /\ s.ptr \in [Slots -> Pointers] /\ s.refs \in [Objects -> Nat]
      /\ s.other \in SUBSET Objects /\ Balanced(s) /\ Descriptors(s)
  BY DEF OwnInv, OwnRecords
<1>1. /\ open \in {0, 1} /\ other \in SUBSET Objects
      /\ open = 1 => s.refs[p] = 0 /\ other = s.other \cup {p}
      /\ open = 0 => p \in s.other /\ other = s.other \ {p}
  BY <1>0 DEF Foreign
<1>2. PICK k \in [Objects -> Nat] : k = [s.refs EXCEPT ![p] = open]
  <2>1. open \in Nat
    BY <1>1
  <2> QED BY <1>0, <2>1
<1>3. t = [s EXCEPT !.refs = k, !.other = other] /\ s.kind = "handle"
  BY <1>1, <1>2 DEF Foreign
<1>4. /\ t \in OwnRecords /\ t.kind = s.kind /\ t.raw = s.raw /\ t.other = other
      /\ t.self = s.self /\ t.intr = s.intr /\ t.robbed = s.robbed /\ t.bad = s.bad
      /\ t.err = s.err /\ t.ptr = s.ptr /\ t.refs = k /\ t.fd = s.fd
  BY <1>0, <1>1, <1>3 DEF OwnRecords
<1>5. /\ ~s.self /\ ~s.bad /\ \A r \in Objects : s.refs[r] = Held(s.ptr, r) + Claims(s, r)
      /\ \A r \in Objects : s.refs[r] <= 1 /\ Held(s.ptr, r) \in Nat /\ Claims(s, r) \in Nat
  BY <1>0, <1>3, HeldBy DEF Balanced, Descriptors, Claims, Own!One
<1>6. ASSUME NEW r \in Objects PROVE k[r] = Held(s.ptr, r) + Claims(t, r)
  <2>1. CASE r # p
    <3>1. k[r] = s.refs[r]
      BY <1>0, <1>2, <2>1
    <3>2. r \in other <=> r \in s.other
      BY <1>1, <2>1
    <3>3. Claims(t, r) = Claims(s, r)
      BY <1>4, <3>2 DEF Claims, Own!One
    <3> QED BY <1>5, <3>1, <3>3
  <2>2. CASE r = p /\ open = 1
    <3>1. Held(s.ptr, r) = 0 /\ Claims(s, r) = 0 /\ k[r] = 1
      BY <1>0, <1>1, <1>2, <1>5, <2>2
    <3>2. Claims(t, r) = 1
      BY <1>1, <1>4, <2>2, <3>1 DEF Claims, Own!One
    <3> QED BY <3>1, <3>2
  <2>3. CASE r = p /\ open = 0
    <3>1. Claims(s, r) >= 1
      BY <1>1, <2>3 DEF Claims, Own!One
    <3>2. Claims(s, r) = 1 /\ Held(s.ptr, r) = 0
      BY <1>5, <3>1
    <3>3. Claims(t, r) = 0
      BY <1>1, <1>4, <2>3, <3>2 DEF Claims, Own!One
    <3>4. k[r] = 0
      BY <1>0, <1>2, <2>3
    <3> QED BY <3>2, <3>3, <3>4
  <2> QED BY <1>1, <2>1, <2>2, <2>3
<1>7. Balanced(t)
  BY <1>4, <1>5, <1>6 DEF Balanced
<1>8. \A r \in Objects : k[r] <= 1
  <2>1. k[p] <= 1
    BY <1>0, <1>1, <1>2
  <2>2. \A r \in Objects : r # p => k[r] = s.refs[r]
    BY <1>0, <1>2
  <2> QED BY <1>5, <2>1, <2>2
<1>9. Descriptors(t)
  BY <1>0, <1>3, <1>4, <1>5, <1>8 DEF Descriptors
<1> QED BY <1>4, <1>7, <1>9 DEF OwnInv

(* Every step of Owners keeps the invariant.                                 *)
LEMMA OwnStep == OwnInv(o) /\ [Own!Next]_o => OwnInv(o')
<1> SUFFICES ASSUME OwnInv(o), [Own!Next]_o PROVE OwnInv(o')
  OBVIOUS
<1>0. /\ o \in OwnRecords /\ o.ptr \in [Slots -> Pointers] /\ o.refs \in [Objects -> Nat]
      /\ o.raw \in SUBSET Objects /\ o.other \in SUBSET Objects /\ o.fd \in Objects \cup {Null}
      /\ Balanced(o) /\ Descriptors(o)
  BY DEF OwnInv, OwnRecords
<1>00. Null \notin Objects /\ Unborn \notin Objects /\ Null # Unborn
  BY DataAssumption DEF Own!Apart
<1>1. CASE UNCHANGED o
  BY <1>1
<1>2. ASSUME NEW p \in Objects, Own!New(p) PROVE OwnInv(o')
  <2>1. o.fd = Null /\ o.refs[p] = 0
    BY <1>2 DEF Own!New, Own!Quiet
  <2>2. PICK rs \in [Objects -> Nat] : rs = [o.refs EXCEPT ![p] = 1]
    BY <1>0
  <2>3. PICK raw \in SUBSET Objects : raw = o.raw \cup {p}
    BY <1>0
  <2>4. o' = [o EXCEPT !.refs = rs, !.raw = raw]
    BY <1>2, <2>2, <2>3 DEF Own!New
  <2>5. /\ o' \in OwnRecords /\ o'.kind = o.kind /\ o'.raw = raw /\ o'.other = o.other
        /\ o'.self = o.self /\ o'.intr = o.intr /\ o'.robbed = o.robbed /\ o'.bad = o.bad
        /\ o'.err = o.err /\ o'.ptr = o.ptr /\ o'.refs = rs /\ o'.fd = o.fd
    BY <1>0, <2>4 DEF OwnRecords
  <2>6. ASSUME ~o.self, NEW r \in Objects PROVE rs[r] = Held(o.ptr, r) + Claims(o', r)
    <3>1. Held(o.ptr, r) \in Nat /\ Claims(o, r) \in Nat
          /\ o.refs[r] = Held(o.ptr, r) + Claims(o, r)
      BY <1>0, <2>6, HeldBy DEF Balanced, Claims, Own!One
    <3>2. CASE r = p
      <4>1. Held(o.ptr, r) = 0 /\ Claims(o, r) = 0 /\ rs[r] = 1
        BY <1>0, <2>1, <2>2, <3>1, <3>2
      <4>2. Claims(o', r) = 1
        BY <2>3, <2>5, <3>2, <4>1 DEF Claims, Own!One
      <4> QED BY <4>1, <4>2
    <3>3. CASE r # p
      <4>1. Claims(o', r) = Claims(o, r) /\ rs[r] = o.refs[r]
        BY <1>0, <2>2, <2>3, <2>5, <3>3 DEF Claims
      <4> QED BY <3>1, <4>1
    <3> QED BY <3>2, <3>3
  <2>7. Balanced(o')
    BY <1>0, <2>5, <2>6 DEF Balanced
  <2>8. Descriptors(o')
    BY <1>0, <2>1, <2>2, <2>5 DEF Descriptors
  <2> QED BY <2>5, <2>7, <2>8 DEF OwnInv
<1>3. ASSUME NEW x \in Slots, NEW p \in Objects \cup {Null}, Own!Construct(x, p)
      PROVE  OwnInv(o')
  <2>1. o.ptr[x] = Unborn /\ p \in o.raw \cup {Null}
        /\ o' = [o EXCEPT !.ptr[x] = p, !.raw = @ \ {p}]
    BY <1>3 DEF Own!Construct, Own!Lives
  <2> QED BY <2>1, UnbornIsOpen, FillRaw
<1>4. ASSUME NEW x \in Slots, NEW y \in Slots, Own!MoveConstruct(x, y) PROVE OwnInv(o')
  <2>1. o.ptr[x] = Unborn /\ y \in Slots \ {x}
        /\ o' = [o EXCEPT !.ptr[x] = o.ptr[y], !.ptr[y] = Null]
    BY <1>4 DEF Own!MoveConstruct, Own!Lives
  <2>2. o' = [o EXCEPT !.ptr = [@ EXCEPT ![x] = o.ptr[y], ![y] = Null]]
    BY <1>0, <2>1 DEF OwnRecords
  <2> QED BY <2>1, <2>2, UnbornIsOpen, FillMoved
<1>5. ASSUME NEW x \in Slots, NEW y \in Slots,
             Own!CopyConstruct(x, y) \/ Own!SharedFromThis(x, y)
      PROVE  OwnInv(o')
  <2>1. o.ptr[x] = Unborn /\ y \in Slots \ {x} /\ o.ptr[y] # Unborn /\ o.kind \in Own!Counted
        /\ o' = Own!CopyOf(o, x, y)
    BY <1>5 DEF Own!CopyConstruct, Own!SharedFromThis, Own!Lives, Own!Counted
  <2> QED BY <2>1, UnbornIsOpen, FillCopied
<1>6. ASSUME NEW x \in Slots, NEW y \in Slots, Own!MoveAssign(x, y) PROVE OwnInv(o')
  <2>1. PICK d : d = Own!Drop(o, x)
    OBVIOUS
  <2>2. PICK e : e = [o.ptr EXCEPT ![x] = Null]
    OBVIOUS
  <2>3. LetGo(o, x, d, e)
    BY <1>6, <2>1, <2>2, DropFacts DEF Own!MoveAssign, Own!Quiet, Own!Lives
  <2>4. Open(d, e, x) /\ d \in OwnRecords /\ d.ptr \in [Slots -> Pointers] /\ d.self \in BOOLEAN
    BY <2>3, DroppedIsOpen DEF LetGo, OwnRecords
  <2>5. o' = CASE o.kind = "shared" -> [Own!TakeReleased(d, x, y) EXCEPT !.self = @ \/ x = y]
               [] o.kind = "openssl" -> Own!TakeReleased(d, x, y)
               [] OTHER -> [d EXCEPT !.ptr = [@ EXCEPT ![x] = d.ptr[y], ![y] = Null]]
    BY <1>6, <2>1 DEF Own!MoveAssign
  <2>6. CASE x # y
    <3>1. PICK k \in [Slots -> Pointers] : k = [d.ptr EXCEPT ![x] = d.ptr[y], ![y] = Null]
      BY <2>4 DEF Pointers
    <3>2. k = [d.ptr EXCEPT ![y] = Null, ![x] = d.ptr[y]]
      BY <2>4, <2>6, <3>1
    <3>3. Own!TakeReleased(d, x, y) = [d EXCEPT !.ptr = k]
      BY <3>2 DEF Own!TakeReleased
    <3>4. [[d EXCEPT !.ptr = k] EXCEPT !.self = @ \/ x = y] = [d EXCEPT !.ptr = k]
      BY <2>4, <2>6 DEF OwnRecords
    <3>5. o' = [d EXCEPT !.ptr = k]
      BY <2>5, <3>1, <3>3, <3>4
    <3> QED BY <2>4, <2>6, <3>1, <3>5, FillMoved
  <2>7. CASE x = y /\ o.kind = "shared"
    <3>1. PICK k \in [Slots -> Pointers] : k = [d.ptr EXCEPT ![y] = Null, ![x] = d.ptr[y]]
      BY <2>4 DEF Pointers
    <3>2. o' = [[d EXCEPT !.ptr = k] EXCEPT !.self = @ \/ x = y]
      BY <2>5, <2>7, <3>1 DEF Own!TakeReleased
    <3>3. o' = [d EXCEPT !.ptr = k, !.self = TRUE]
      BY <2>4, <2>7, <3>2 DEF OwnRecords
    <3>4. /\ o' \in OwnRecords /\ o'.kind = d.kind /\ o'.raw = d.raw /\ o'.other = d.other
          /\ o'.self = TRUE /\ o'.intr = d.intr /\ o'.robbed = d.robbed
          /\ o'.err = d.err /\ o'.ptr = k /\ o'.fd = d.fd
      BY <2>4, <3>3 DEF OwnRecords
    <3>5. d.kind = "shared" /\ d.other = {} /\ d.fd = Null
      BY <2>3, <2>4, <2>7 DEF LetGo, Open
    <3>6. Balanced(o') /\ Descriptors(o')
      BY <2>4, <3>4, <3>5 DEF Balanced, Descriptors, Open
    <3> QED BY <3>4, <3>6 DEF OwnInv
  <2>8. CASE x = y /\ o.kind # "shared"
    <3>1. o' = [d EXCEPT !.ptr[x] = Null]
      <4>1. CASE o.kind = "openssl"
        <5>1. d.ptr[x] = Null
          BY <2>3, <4>1 DEF LetGo
        <5>2. [d.ptr EXCEPT ![y] = Null, ![x] = d.ptr[y]] = [d.ptr EXCEPT ![x] = Null]
          BY <2>4, <2>8, <5>1
        <5> QED BY <2>5, <4>1, <5>2 DEF Own!TakeReleased
      <4>2. CASE o.kind # "openssl"
        <5>1. [d.ptr EXCEPT ![x] = d.ptr[y], ![y] = Null] = [d.ptr EXCEPT ![x] = Null]
          BY <2>4, <2>8
        <5> QED BY <2>5, <2>8, <4>2, <5>1
      <4> QED BY <4>1, <4>2
    <3> QED BY <2>4, <3>1, FillEmpty
  <2> QED BY <2>6, <2>7, <2>8
<1>7. ASSUME NEW x \in Slots, NEW y \in Slots, Own!CopyAssign(x, y) PROVE OwnInv(o')
  <2>1. PICK d : d = Own!Drop(o, x)
    OBVIOUS
  <2>2. PICK e : e = [o.ptr EXCEPT ![x] = Null]
    OBVIOUS
  <2>3. LetGo(o, x, d, e) /\ o.fd = Null /\ o.kind \in Own!Counted /\ o.ptr[y] # Unborn
    BY <1>7, <2>1, <2>2, DropFacts DEF Own!CopyAssign, Own!Quiet, Own!Lives
  <2>4. Open(d, e, x) /\ d \in OwnRecords /\ d.ptr \in [Slots -> Pointers] /\ d.self \in BOOLEAN
        /\ d.kind = o.kind
    BY <2>3, DroppedIsOpen DEF LetGo, OwnRecords
  <2>5. PICK t : t = Own!CopyOf(d, x, y)
    OBVIOUS
  <2>6. o' = [t EXCEPT !.self = @ \/ (o.kind = "shared" /\ x = y)]
    BY <1>7, <2>1, <2>5 DEF Own!CopyAssign
  <2>7. CASE x # y
    <3>1. d.ptr[y] # Unborn
      BY <2>3, <2>7 DEF LetGo
    <3>2. OwnInv(t)
      BY <2>3, <2>4, <2>5, <2>7, <3>1, FillCopied
    <3>3. t \in OwnRecords /\ t.self \in BOOLEAN
      BY <3>2 DEF OwnInv, OwnRecords
    <3>4. o' = t
      BY <2>6, <2>7, <3>3 DEF OwnRecords
    <3> QED BY <3>2, <3>4
  <2>8. CASE x = y /\ d.ptr[x] = Null
    <3>1. t = [d EXCEPT !.ptr[x] = Null]
      BY <2>5, <2>8 DEF Own!CopyOf, Own!Ref
    <3>2. OwnInv(t)
      BY <2>4, <3>1, FillEmpty
    <3>3. t \in OwnRecords /\ t.self \in BOOLEAN
      BY <3>2 DEF OwnInv, OwnRecords
    <3>4. CASE o.kind # "shared"
      <4>1. o' = t
        BY <2>6, <3>3, <3>4 DEF OwnRecords
      <4> QED BY <3>2, <4>1
    <3>5. CASE o.kind = "shared"
      <4>1. o' = [t EXCEPT !.self = TRUE]
        BY <2>6, <2>8, <3>3, <3>5 DEF OwnRecords
      <4>2. /\ o' \in OwnRecords /\ o'.kind = t.kind /\ o'.raw = t.raw /\ o'.other = t.other
            /\ o'.self = TRUE /\ o'.intr = t.intr /\ o'.robbed = t.robbed
            /\ o'.err = t.err /\ o'.ptr = t.ptr /\ o'.fd = t.fd /\ o'.refs = t.refs
        BY <3>3, <4>1 DEF OwnRecords
      <4>3. t.kind = "shared"
        BY <2>4, <3>1, <3>5 DEF OwnRecords
      <4>4. Balanced(o') /\ Descriptors(o')
        BY <3>2, <4>2, <4>3 DEF OwnInv, Balanced, Descriptors
      <4> QED BY <4>2, <4>4 DEF OwnInv
    <3> QED BY <3>4, <3>5
  <2>9. CASE x = y /\ d.ptr[x] # Null
    <3>1. PICK p \in Objects : p = d.ptr[x] /\ p = o.ptr[x]
      BY <1>0, <2>3, <2>9 DEF LetGo, Pointers
    <3>2. d.refs \in [Objects -> Nat] /\ o.kind \in {"shared", "pointer"}
      BY <2>3, <2>4, <2>9 DEF OwnRecords, LetGo, Own!Counted
    <3>3. PICK v \in Nat : v = d.refs[p] + 1
      BY <3>2
    <3>4. PICK k \in [Objects -> Nat] : k = [d.refs EXCEPT ![p] = v]
      BY <3>2
    <3>5. PICK b \in BOOLEAN : b = (d.bad \/ d.refs[p] = 0)
      OBVIOUS
    <3>6. d.ptr = o.ptr
      <4>1. \A z \in Slots : d.ptr[z] = o.ptr[z]
        BY <2>3, <3>1 DEF LetGo
      <4> QED BY <1>0, <2>4, <4>1
    <3>7. t = [d EXCEPT !.refs = k, !.bad = b]
      BY <1>00, <2>4, <2>5, <2>9, <3>1, <3>3, <3>4, <3>5 DEF Own!CopyOf, Own!Ref, OwnRecords
    <3>8. o' = [d EXCEPT !.refs = k, !.bad = b, !.self = @ \/ o.kind = "shared"]
      BY <2>6, <2>9, <3>7
    <3>9. /\ o' \in OwnRecords /\ o'.kind = d.kind /\ o'.raw = d.raw /\ o'.other = d.other
          /\ o'.self = (d.self \/ o.kind = "shared") /\ o'.intr = d.intr /\ o'.bad = b
          /\ o'.robbed = d.robbed /\ o'.err = d.err /\ o'.ptr = d.ptr /\ o'.fd = d.fd /\ o'.refs = k
      BY <2>4, <3>8 DEF OwnRecords
    <3>10. d.kind # "handle" /\ d.fd = Null /\ d.other = {} /\ o.other = {}
      BY <1>0, <2>3, <2>4, <3>2 DEF Open, Descriptors
    <3>11. Descriptors(o')
      BY <2>4, <3>2, <3>9, <3>10 DEF Descriptors, Open
    <3>12. ASSUME ~o'.self PROVE ~b /\ \A r \in Objects : k[r] = Held(o.ptr, r) + Claims(o', r)
      <4>1. ~d.self /\ ~o.self /\ o.kind = "pointer"
        BY <2>3, <2>4, <3>2, <3>9, <3>12 DEF LetGo
      <4>2. \A r \in Objects : /\ Claims(d, r) = Claims(o, r) /\ Claims(o', r) = Claims(o, r)
                               /\ Claims(o, r) \in Nat
        BY <1>00, <2>3, <3>9, <3>10 DEF Claims, Own!One, LetGo
      <4>3. ~d.bad /\ \A r \in Objects : d.refs[r] = Held(e, r) + Claims(d, r)
        BY <2>4, <4>1 DEF Open
      <4>4. \A r \in Objects : o.refs[r] = Held(o.ptr, r) + Claims(o, r)
        BY <1>0, <4>1 DEF Balanced
      <4>5. ASSUME NEW r \in Objects
            PROVE  /\ Held(e, r) \in Nat /\ Held(o.ptr, r) \in Nat
                   /\ Held(e, r) + Own!One(p = r) = Held(o.ptr, r)
        <5>1. Recounted(o.ptr, e, x, Null, r)
          BY <1>0, <2>2, HeldStep DEF Pointers
        <5> QED BY <1>00, <3>1, <5>1 DEF Recounted, Own!One
      <4>6. o.refs[p] # 1
        BY <2>3, <2>9, <3>1, <4>1 DEF LetGo
      <4>7. d.refs[p] # 0
        BY <4>2, <4>3, <4>4, <4>5, <4>6 DEF Own!One
      <4>8. ASSUME NEW r \in Objects PROVE k[r] = Held(o.ptr, r) + Claims(o', r)
        <5>1. k[r] = d.refs[r] + Own!One(p = r)
          BY <3>2, <3>3, <3>4 DEF Own!One
        <5> QED BY <4>2, <4>3, <4>5, <5>1 DEF Own!One
      <4> QED BY <3>5, <4>3, <4>7, <4>8
    <3>13. Balanced(o')
      BY <3>6, <3>9, <3>12 DEF Balanced
    <3> QED BY <3>9, <3>11, <3>13 DEF OwnInv
  <2> QED BY <2>7, <2>8, <2>9
<1>8. ASSUME NEW x \in Slots, NEW p \in Objects \cup {Null}, Own!Reset(x, p) PROVE OwnInv(o')
  <2>1. PICK d : d = Own!Drop(o, x)
    OBVIOUS
  <2>2. PICK e : e = [o.ptr EXCEPT ![x] = Null]
    OBVIOUS
  <2>3. LetGo(o, x, d, e)
    BY <1>8, <2>1, <2>2, DropFacts DEF Own!Reset, Own!Quiet, Own!Lives
  <2>4. Open(d, e, x) /\ p \in d.raw \cup {Null}
    BY <1>8, <2>3, DroppedIsOpen DEF LetGo, Own!Reset
  <2>5. o' = [d EXCEPT !.ptr[x] = p, !.raw = @ \ {p}]
    BY <1>8, <2>1 DEF Own!Reset
  <2> QED BY <2>4, <2>5, FillRaw
<1>9. ASSUME NEW x \in Slots, Own!Destroy(x) PROVE OwnInv(o')
  <2>1. PICK d : d = Own!Drop(o, x)
    OBVIOUS
  <2>2. PICK e : e = [o.ptr EXCEPT ![x] = Null]
    OBVIOUS
  <2>3. LetGo(o, x, d, e)
    BY <1>9, <2>1, <2>2, DropFacts DEF Own!Destroy, Own!Quiet, Own!Lives
  <2>4. Open(d, e, x) /\ o' = [d EXCEPT !.ptr[x] = Unborn]
    BY <1>9, <2>1, <2>3, DroppedIsOpen DEF Own!Destroy
  <2> QED BY <2>4, FillEmpty
<1>10. ASSUME NEW x \in Slots, NEW p \in Objects, Own!Create(x, p) PROVE OwnInv(o')
  <2>1. PICK d : d = Own!Drop(o, x)
    OBVIOUS
  <2>2. PICK e : e = [o.ptr EXCEPT ![x] = Null]
    OBVIOUS
  <2>3. LetGo(o, x, d, e) /\ o.kind = "handle"
    BY <1>10, <2>1, <2>2, DropFacts DEF Own!Create, Own!Quiet, Own!Lives
  <2>4. /\ Open(d, e, x) /\ d \in OwnRecords /\ d.ptr \in [Slots -> Pointers]
        /\ d.refs = o.refs /\ d.kind = "handle" /\ e \in [Slots -> Pointers] /\ e[x] = Null
    BY <1>0, <2>2, <2>3, DroppedIsOpen DEF LetGo, OwnRecords
  <2>5. CASE o' = [d EXCEPT !.ptr[x] = Null]
    BY <2>4, <2>5, FillEmpty
  <2>6. CASE o.refs[p] = 0 /\ o' = [d EXCEPT !.ptr[x] = p, !.refs[p] = 1]
    <3>1. PICK g \in [Slots -> Pointers] : g = [e EXCEPT ![x] = p]
      BY <2>4 DEF Pointers
    <3>2. g = [d.ptr EXCEPT ![x] = p] /\ g[x] = p /\ \A z \in Slots \ {x} : g[z] = e[z]
      BY <2>4, <3>1 DEF Open
    <3>3. PICK k \in [Objects -> Nat] : k = [o.refs EXCEPT ![p] = 1]
      BY <1>0
    <3>4. /\ o' \in OwnRecords /\ o'.kind = d.kind /\ o'.raw = d.raw /\ o'.other = d.other
          /\ o'.self = d.self /\ o'.intr = d.intr /\ o'.robbed = d.robbed /\ o'.bad = d.bad
          /\ o'.err = d.err /\ o'.ptr = g /\ o'.refs = k /\ o'.fd = d.fd
      BY <2>4, <2>6, <3>2, <3>3 DEF OwnRecords
    <3>5. ~d.self /\ ~d.bad /\ \A r \in Objects : o.refs[r] = Held(e, r) + Claims(d, r)
      BY <2>4 DEF Open
    <3>6. \A r \in Objects : Held(e, r) \in Nat /\ Claims(d, r) \in Nat /\ Claims(o', r) = Claims(d, r)
      BY <2>4, <3>4, HeldBy DEF Claims, Own!One
    <3>7. Held(e, p) = 0 /\ Claims(d, p) = 0
      BY <2>6, <3>5, <3>6
    <3>8. p # d.fd
      <4>1. ~(d.fd = p /\ ~d.err)
        BY <3>7 DEF Claims, Own!One
      <4>2. d.fd = Null \/ ~d.err
        BY <2>3 DEF LetGo
      <4> QED BY <1>00, <4>1, <4>2
    <3>9. ASSUME NEW r \in Objects PROVE k[r] = Held(g, r) + Claims(o', r)
      <4>1. Recounted(e, g, x, p, r)
        BY <2>4, <3>1, HeldStep DEF Pointers
      <4>2. Held(g, r) \in Nat /\ Held(g, r) = Held(e, r) + Own!One(p = r)
        BY <1>00, <2>4, <4>1 DEF Recounted, Own!One
      <4>3. CASE r = p
        BY <1>0, <3>3, <3>6, <3>7, <4>2, <4>3 DEF Own!One
      <4>4. CASE r # p
        BY <1>0, <3>3, <3>5, <3>6, <4>2, <4>4 DEF Own!One
      <4> QED BY <4>3, <4>4
    <3>10. Balanced(o')
      BY <3>4, <3>5, <3>9 DEF Balanced
    <3>11. o'.fd # Null => o'.fd \notin o'.raw /\ \A z \in Slots : o'.ptr[z] # o'.fd
      BY <2>4, <3>2, <3>4, <3>8 DEF Open
    <3>12. \A r \in Objects : k[r] <= 1
      BY <1>0, <2>3, <3>3 DEF Descriptors
    <3>13. Descriptors(o')
      BY <2>4, <3>4, <3>11, <3>12 DEF Descriptors, Open
    <3> QED BY <3>4, <3>10, <3>13 DEF OwnInv
  <2> QED BY <1>10, <2>1, <2>5, <2>6 DEF Own!Create
<1>11. ASSUME NEW x \in Slots, Own!Release(x) PROVE OwnInv(o')
  <2>1. PICK q \in Objects \cup {Null} : q = o.ptr[x] /\ q \notin o.raw /\ o.fd = Null
    BY <1>0, <1>11 DEF Own!Release, Own!Quiet, Own!Lives, Pointers
  <2>2. PICK g \in [Slots -> Pointers] : g = [o.ptr EXCEPT ![x] = Null]
    BY <1>0 DEF Pointers
  <2>3. PICK raw \in SUBSET Objects : raw = (o.raw \cup {q}) \ {Null}
    BY <1>0
  <2>4. o' = [o EXCEPT !.ptr = g, !.raw = raw]
    BY <1>11, <2>1, <2>2, <2>3 DEF Own!Release
  <2>5. /\ o' \in OwnRecords /\ o'.kind = o.kind /\ o'.raw = raw /\ o'.other = o.other
        /\ o'.self = o.self /\ o'.intr = o.intr /\ o'.robbed = o.robbed /\ o'.bad = o.bad
        /\ o'.err = o.err /\ o'.ptr = g /\ o'.refs = o.refs /\ o'.fd = o.fd
    BY <1>0, <2>4 DEF OwnRecords
  <2>6. ASSUME NEW r \in Objects
        PROVE  Held(g, r) + Claims(o', r) = Held(o.ptr, r) + Claims(o, r)
    <3>1. Recounted(o.ptr, g, x, Null, r)
      BY <1>0, <2>2, HeldStep DEF Pointers
    <3>2. Held(g, r) \in Nat /\ Held(g, r) + Own!One(q = r) = Held(o.ptr, r)
      BY <1>00, <2>1, <3>1 DEF Recounted, Own!One
    <3>3. Claims(o', r) = Claims(o, r) + Own!One(q = r) /\ Claims(o, r) \in Nat
      BY <1>0, <1>00, <2>1, <2>3, <2>5 DEF Claims, Own!One
    <3>4. Own!One(q = r) \in Nat
      BY DEF Own!One
    <3> QED BY <3>2, <3>3, <3>4
  <2>7. Balanced(o')
    BY <1>0, <2>5, <2>6 DEF Balanced
  <2>8. Descriptors(o')
    BY <1>0, <2>1, <2>5 DEF Descriptors
  <2> QED BY <2>5, <2>7, <2>8 DEF OwnInv
<1>12. CASE Own!CloseRound
  <2>1. o.fd \in Objects /\ o.fd # Null /\ o.kind = "handle" /\ ~o.self
    BY <1>0, <1>00, <1>12 DEF Own!CloseRound, Own!Quiet, Descriptors
  <2>2. /\ ~o.bad /\ \A r \in Objects : o.refs[r] = Held(o.ptr, r) + Claims(o, r)
        /\ \A r \in Objects : o.refs[r] <= 1 /\ Held(o.ptr, r) \in Nat /\ Claims(o, r) \in Nat
    BY <1>0, <2>1, HeldBy DEF Balanced, Descriptors, Claims, Own!One
  <2>3. CASE o.refs[o.fd] = 0
    <3>1. o' = [o EXCEPT !.fd = Null, !.err = FALSE]
      BY <1>12, <2>3 DEF Own!CloseRound
    <3>2. /\ o' \in OwnRecords /\ o'.kind = o.kind /\ o'.raw = o.raw /\ o'.other = o.other
          /\ o'.self = o.self /\ o'.intr = o.intr /\ o'.robbed = o.robbed /\ o'.bad = o.bad
          /\ o'.err = FALSE /\ o'.ptr = o.ptr /\ o'.refs = o.refs /\ o'.fd = Null
      BY <1>0, <3>1 DEF OwnRecords
    <3>3. Claims(o, o.fd) = 0
      BY <2>1, <2>2, <2>3
    <3>4. \A r \in Objects : Claims(o', r) = Claims(o, r)
      BY <1>00, <3>2, <3>3 DEF Claims, Own!One
    <3>5. Balanced(o')
      BY <2>1, <2>2, <3>2, <3>4 DEF Balanced
    <3>6. Descriptors(o')
      BY <1>0, <2>1, <3>2 DEF Descriptors
    <3> QED BY <3>2, <3>5, <3>6 DEF OwnInv
  <2>4. CASE o.refs[o.fd] # 0
    <3>1. PICK eintr \in BOOLEAN :
             LET closed == [o EXCEPT !.refs[o.fd] = 0, !.err = @ \/ eintr, !.intr = @ \/ eintr,
                                     !.robbed = @ \cup (o.other \cap {o.fd}), !.other = @ \ {o.fd}]
             IN o' = IF closed.err THEN closed ELSE [closed EXCEPT !.fd = Null]
      BY <1>12, <2>4 DEF Own!CloseRound
    <3>2. PICK k \in [Objects -> Nat] : k = [o.refs EXCEPT ![o.fd] = 0]
      BY <1>0
    <3>3. PICK robbed \in SUBSET Objects : robbed = o.robbed \cup (o.other \cap {o.fd})
      BY <1>0 DEF OwnRecords
    <3>4. PICK other \in SUBSET Objects : other = o.other \ {o.fd}
      BY <1>0
    <3>5. PICK err \in BOOLEAN : err = (o.err \/ eintr)
      OBVIOUS
    <3>6. PICK intr \in BOOLEAN : intr = (o.intr \/ eintr)
      OBVIOUS
    <3>7. PICK fd \in Objects \cup {Null} : fd = IF err THEN o.fd ELSE Null
      BY <1>0
    <3>8. PICK closed : closed = [o EXCEPT !.refs = k, !.err = err, !.intr = intr,
                                           !.robbed = robbed, !.other = other]
      OBVIOUS
    <3>9. o' = IF closed.err THEN closed ELSE [closed EXCEPT !.fd = Null]
      BY <3>1, <3>2, <3>3, <3>4, <3>5, <3>6, <3>8
    <3>10. closed.err = err /\ closed.fd = o.fd
      BY <1>0, <3>8 DEF OwnRecords
    <3>11. o' = [o EXCEPT !.refs = k, !.err = err, !.intr = intr, !.robbed = robbed,
                          !.other = other, !.fd = fd]
      BY <1>0, <3>7, <3>8, <3>9, <3>10 DEF OwnRecords
    <3>12. /\ o' \in OwnRecords /\ o'.kind = o.kind /\ o'.raw = o.raw /\ o'.other = other
           /\ o'.self = o.self /\ o'.intr = intr /\ o'.robbed = robbed /\ o'.bad = o.bad
           /\ o'.err = err /\ o'.ptr = o.ptr /\ o'.refs = k /\ o'.fd = fd
      BY <1>0, <3>11 DEF OwnRecords
    <3>13. Held(o.ptr, o.fd) = 0 /\ o.fd \notin o.raw
      BY <1>0, <2>1, HeldBy DEF Descriptors
    <3>14. ASSUME NEW r \in Objects PROVE k[r] = Held(o.ptr, r) + Claims(o', r)
      <4>1. CASE r = o.fd
        <5>1. k[r] = 0 /\ Held(o.ptr, r) = 0
          BY <1>0, <3>2, <3>13, <4>1
        <5>2. Claims(o', r) = 0
          BY <1>00, <2>1, <3>4, <3>7, <3>12, <3>13, <4>1 DEF Claims, Own!One
        <5> QED BY <5>1, <5>2
      <4>2. CASE r # o.fd
        <5>1. k[r] = o.refs[r]
          BY <1>0, <3>2, <4>2
        <5>2. Claims(o', r) = Claims(o, r)
          BY <1>00, <3>4, <3>7, <3>12, <4>2 DEF Claims, Own!One
        <5> QED BY <2>2, <5>1, <5>2
      <4> QED BY <4>1, <4>2
    <3>15. Balanced(o')
      BY <2>1, <2>2, <3>12, <3>14 DEF Balanced
    <3>16. robbed # {} => intr
      <4>1. CASE o.err \/ o.robbed # {}
        BY <1>0, <3>6, <4>1 DEF Descriptors
      <4>2. CASE ~o.err /\ o.robbed = {}
        <5>1. Claims(o, o.fd) <= 1
          BY <2>1, <2>2, <3>13
        <5>2. o.fd \notin o.other
          BY <4>2, <5>1 DEF Claims, Own!One
        <5> QED BY <3>3, <4>2, <5>2
      <4> QED BY <4>1, <4>2
    <3>17. err => intr
      BY <1>0, <3>5, <3>6 DEF Descriptors
    <3>18. \A r \in Objects : k[r] <= 1
      BY <1>0, <2>2, <3>2
    <3>19. Descriptors(o')
      BY <1>0, <2>1, <3>7, <3>12, <3>16, <3>17, <3>18 DEF Descriptors
    <3> QED BY <3>12, <3>15, <3>19 DEF OwnInv
  <2> QED BY <2>3, <2>4
<1>13. ASSUME NEW p \in Objects, Own!OtherOpens(p) PROVE OwnInv(o')
  <2>1. Foreign(o, o', p, 1, o.other \cup {p})
    BY <1>13 DEF Own!OtherOpens, Foreign
  <2> QED BY <2>1, ForeignKeeps
<1>14. ASSUME NEW p \in Objects, Own!OtherCloses(p) PROVE OwnInv(o')
  <2>1. p \in o.other /\ o' = [o EXCEPT !.refs[p] = 0, !.other = @ \ {p}]
    BY <1>14 DEF Own!OtherCloses
  <2>2. o.kind = "handle"
    BY <1>0, <2>1 DEF Descriptors
  <2>3. Foreign(o, o', p, 0, o.other \ {p})
    BY <2>1, <2>2 DEF Foreign
  <2> QED BY <2>3, ForeignKeeps
<1>15. CASE Own!Next
  BY <1>2, <1>3, <1>4, <1>5, <1>6, <1>7, <1>8, <1>9, <1>10, <1>11, <1>12, <1>13, <1>14, <1>15
  DEF Own!Next
<1> QED BY <1>1, <1>15

(* An object lives as long as its references, none is forgotten or used      *)
(* after its end, and a descriptor of another thread is closed only after an *)
(* interrupted close(), for any number of owners, objects and threads that   *)
(* open and close (IOHandle, PointerShared, the RAII classes).               *)
THEOREM OwnersAreSound == MCSpec => []OwnersSound
<1> DEFINE Inv == part = "own" => OwnInv(o)
<1>1. MCInit => Inv
  <2> SUFFICES ASSUME MCInit, part = "own" PROVE OwnInv(o)
    OBVIOUS
  <2>1. PICK k \in Kinds :
           o = [kind |-> k, ptr |-> [x \in Slots |-> Unborn], refs |-> [p \in Objects |-> 0],
                raw |-> {}, other |-> {}, fd |-> Null, err |-> FALSE,
                bad |-> FALSE, self |-> FALSE, intr |-> FALSE, robbed |-> {}]
    BY DEF MCInit, Own!Init
  <2>2. o \in OwnRecords
    BY <2>1 DEF OwnRecords, Pointers
  <2>3. ASSUME NEW p \in Objects PROVE o.refs[p] = Held(o.ptr, p) + Claims(o, p)
    <3>1. p # Unborn /\ p # Null
      BY DataAssumption DEF Own!Apart
    <3>2. o.ptr \in [Slots -> Pointers] /\ \A x \in Slots : o.ptr[x] # p
      BY <2>1, <3>1 DEF Pointers
    <3>3. Held(o.ptr, p) = 0
      BY <3>2, HeldBy
    <3>4. Claims(o, p) = 0
      BY <2>1, <3>1 DEF Claims, Own!One
    <3> QED BY <2>1, <3>3, <3>4
  <2>4. Balanced(o)
    BY <2>1, <2>3 DEF Balanced
  <2>5. Descriptors(o)
    BY <2>1 DEF Descriptors
  <2> QED BY <2>2, <2>4, <2>5 DEF OwnInv
<1>2. Inv /\ [MCNext]_allVars => Inv'
  <2> SUFFICES ASSUME part = "own" => OwnInv(o), [MCNext]_allVars, part' = "own"
               PROVE  OwnInv(o')
    OBVIOUS
  <2>1. part = "own" /\ [Own!Next]_o
    BY DEF MCNext, allVars
  <2> QED BY <2>1, OwnStep
<1>3. Inv => OwnersSound
  <2> SUFFICES ASSUME OwnInv(o) PROVE Own!OwnersSound
    BY DEF OwnersSound
  <2>1. ASSUME NEW p \in Objects PROVE Own!Cardinality(Own!Holders(p)) = Held(o.ptr, p)
    BY SameCardinality DEF Held, Own!Holders
  <2>2. ASSUME ~o.self, NEW p \in Objects
        PROVE  o.refs[p] = Held(o.ptr, p) + Own!One(p \in o.raw)
                           + Own!One(p \in o.other) + Own!One(o.fd = p /\ ~o.err)
    <3>1. o.refs[p] = Held(o.ptr, p) + Claims(o, p)
      BY <2>2 DEF OwnInv, Balanced
    <3>2. Held(o.ptr, p) \in Nat
      BY HeldBy DEF OwnInv, OwnRecords
    <3> QED BY <3>1, <3>2 DEF Claims, Own!One
  <2> QED BY <2>1, <2>2 DEF Own!OwnersSound, OwnInv, Balanced, Descriptors
<1> QED BY <1>1, <1>2, <1>3, PTL DEF MCSpec, allVars

=============================================================================
