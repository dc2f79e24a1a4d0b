---------------------------- MODULE QueueProofs -----------------------------
(* What is proved of Queue and Queue2 for any Gets, Puts, values and limit:  *)
(* no value is lost, repeated or overtaken by the awaitables that carry it.  *)
(* Both queues keep to QueueInv; in a Queue, besides, nobody waits for what  *)
(* is there (NoMissedMatch), and then a Queue2 takes the steps of a Queue.   *)
EXTENDS Queue2, ListFacts, TLAPS

(* The lists hold those that wait, and Gets and Puts do not wait together.   *)
ListsInv ==
    /\ IsInjective(pendGet) /\ IsInjective(pendPut)
    /\ \A g \in Getters : g \in Range(pendGet) <=> phase[g] = "waiting"
    /\ \A p \in Putters : p \in Range(pendPut) <=> phase[p] = "waiting"
    /\ pendGet = <<>> \/ pendPut = <<>>
    /\ getHead => pendGet # <<>>

(* A value has one place: the container, the result of a completed Get, or a *)
(* Put that waits to hand it over.                                           *)
ValueInv ==
    /\ IsInjective(items)
    /\ Range(items) \subseteq flying
    /\ \A v \in flying : v \in Range(items) \/ \E g \in Getters : phase[g] = "done" /\ value[g] = v
    /\ \A g \in Getters : IF phase[g] = "done" THEN value[g] \in flying \ Range(items)
                          ELSE value[g] = NoValue
    /\ \A p \in Putters : IF phase[p] \in {"waiting", "again"} THEN value[p] \in Values \ flying
                          ELSE value[p] = NoValue
    /\ \A a, b \in GetsAndPuts : value[a] = value[b] /\ value[a] # NoValue => a = b

QueueInv == TypeOK /\ ListsInv /\ ValueInv /\ WithinLimit

-----------------------------------------------------------------------------
LEMMA QueueInit == ASSUME QueueUse PROVE Init => QueueInv /\ NoMissedMatch
<1> SUFFICES ASSUME Init PROVE QueueInv /\ NoMissedMatch
  OBVIOUS
<1>1. Range(items) = {} /\ Range(pendGet) = {} /\ Range(pendPut) = {}
  BY DEF Init, Range
<1>2. TypeOK
  <2>1. items \in Seq(Values) /\ pendGet \in Seq(Getters) /\ pendPut \in Seq(Putters)
    BY DEF Init
  <2>2. phase \in [GetsAndPuts -> {"idle", "waiting", "done", "again"}]
    BY DEF Init
  <2>3. value \in [GetsAndPuts -> Values \cup {NoValue}]
    BY DEF Init
  <2>4. getHead \in BOOLEAN /\ putHead \in BOOLEAN /\ flying \subseteq Values
    BY DEF Init
  <2> QED BY <2>1, <2>2, <2>3, <2>4 DEF TypeOK
<1>5. WithinLimit
  <2>1. items = <<>> /\ Len(items) = 0 /\ MaxSize \in Nat
    BY DEF Init, QueueUse
  <2> QED BY <2>1 DEF WithinLimit
<1>3. ListsInv
  BY <1>1 DEF Init, ListsInv, IsInjective, GetsAndPuts
<1>4. ValueInv
  BY <1>1 DEF Init, ValueInv, IsInjective, GetsAndPuts
<1> QED BY <1>2, <1>3, <1>4, <1>5 DEF QueueInv, Init, NoMissedMatch

(* A list has the members of its type, and is empty when it has none.        *)
LEMMA RangeFacts ==
    ASSUME NEW S, NEW s \in Seq(S)
    PROVE  Range(s) \subseteq S /\ (s = <<>> <=> Range(s) = {})
<1>1. DOMAIN s = 1..Len(s) /\ Len(s) \in Nat /\ \A i \in 1..Len(s) : s[i] \in S
  OBVIOUS
<1>2. ASSUME s # <<>> PROVE Range(s) # {}
  <2>1. s[1] \in Range(s)
    BY <1>1, <1>2 DEF Range
  <2> QED BY <2>1
<1>3. Range(<<>>) = {}
  BY DEF Range
<1> QED BY <1>1, <1>2, <1>3 DEF Range

(* What a list and the other one are after an erase().                       *)
LEMMA ErasePutFacts ==
    ASSUME QueueInv, NEW p \in Range(pendPut), ErasePut(p)
    PROVE  /\ pendPut' \in Seq(Putters) /\ IsInjective(pendPut')
           /\ Range(pendPut') = Range(pendPut) \ {p}
           /\ putHead' \in BOOLEAN /\ UNCHANGED <<pendGet, getHead>>
<1>1. pendPut \in Seq(Putters) /\ IsInjective(pendPut) /\ putHead \in BOOLEAN
  BY DEF QueueInv, TypeOK, ListsInv
<1>2. pendPut' \in Seq(Putters) /\ IsInjective(pendPut') /\ Range(pendPut') = Range(pendPut) \ {p}
  BY <1>1, EraseFacts DEF ErasePut
<1>3. putHead' \in BOOLEAN
  <2>1. putHead' = (IF pendPut[1] = p THEN Len(pendPut) > 1 ELSE putHead)
    BY DEF ErasePut, HeadAfter
  <2>2. CASE pendPut[1] = p
    <3>1. putHead' = (Len(pendPut) > 1)
      BY <2>1, <2>2
    <3> QED BY <3>1
  <2>3. CASE pendPut[1] # p
    BY <1>1, <2>1, <2>3
  <2> QED BY <2>2, <2>3
<1> QED BY <1>2, <1>3 DEF ErasePut

LEMMA EraseGetFacts ==
    ASSUME QueueInv, NEW g \in Range(pendGet), EraseGet(g)
    PROVE  /\ pendGet' \in Seq(Getters) /\ IsInjective(pendGet')
           /\ Range(pendGet') = Range(pendGet) \ {g}
           /\ getHead' \in BOOLEAN /\ UNCHANGED <<pendPut, putHead>>
           /\ getHead' => pendGet' # <<>>
<1>1. pendGet \in Seq(Getters) /\ IsInjective(pendGet) /\ getHead \in BOOLEAN
  BY DEF QueueInv, TypeOK, ListsInv
<1>2. pendGet' \in Seq(Getters) /\ IsInjective(pendGet') /\ Range(pendGet') = Range(pendGet) \ {g}
  BY <1>1, EraseFacts DEF EraseGet
<1>3. getHead' \in BOOLEAN
  <2>1. getHead' = (IF pendGet[1] = g THEN Len(pendGet) > 1 ELSE getHead)
    BY DEF EraseGet, HeadAfter
  <2>2. CASE pendGet[1] = g
    <3>1. getHead' = (Len(pendGet) > 1)
      BY <2>1, <2>2
    <3> QED BY <3>1
  <2>3. CASE pendGet[1] # g
    BY <1>1, <2>1, <2>3
  <2> QED BY <2>2, <2>3
<1>4. ASSUME getHead' PROVE pendGet' # <<>>
  <2>1. Len(pendGet) \in Nat /\ DOMAIN pendGet = 1..Len(pendGet) /\ pendGet # <<>>
    BY <1>1, RangeFacts DEF Range
  <2>2. CASE pendGet[1] = g
    <3>1. Len(pendGet) > 1
      BY <1>4, <2>2 DEF EraseGet, HeadAfter
    <3>2. pendGet[2] \in Range(pendGet) /\ pendGet[2] # g
      BY <1>1, <2>1, <2>2, <3>1 DEF Range, IsInjective
    <3> QED BY <1>2, <3>2, RangeFacts
  <2>3. CASE pendGet[1] # g
    <3>1. pendGet[1] \in Range(pendGet)
      BY <2>1 DEF Range
    <3> QED BY <1>2, <2>3, <3>1, RangeFacts
  <2> QED BY <2>2, <2>3
<1> QED BY <1>2, <1>3, <1>4 DEF EraseGet

(* A Get that finds no result: takes the first value, serves the last Put,   *)
(* or waits.                                                                 *)
LEMMA PollGetKeeps ==
    ASSUME QueueUse, QueueInv, NEW g \in Getters, phase[g] \in {"idle", "again"}, PollGet(g)
    PROVE  QueueInv' /\ (NoMissedMatch => NoMissedMatch')
<1> USE DEF QueueInv
<1>1. value[g] = NoValue /\ g \in GetsAndPuts /\ g \notin Putters /\ g \notin Range(pendGet)
  BY DEF ValueInv, ListsInv, GetsAndPuts, QueueUse
<1>2. CASE items # <<>>
  <2>1. /\ value' = value /\ phase' = [phase EXCEPT ![g] = "idle"]
        /\ flying' = flying \ {Head(items)} /\ items' = Tail(items) /\ UNCHANGED listVars
    <3>1. [value EXCEPT ![g] = NoValue] = value
      BY <1>1 DEF TypeOK
    <3> QED BY <1>2, <3>1 DEF PollGet
  <2>2. /\ items' \in Seq(Values) /\ Head(items) \in Range(items) /\ IsInjective(items')
        /\ Range(items') = Range(items) \ {Head(items)} /\ Len(items') = Len(items) - 1
    BY <1>2, <2>1, PopFacts DEF TypeOK, ValueInv
  <2>3. TypeOK' /\ WithinLimit'
    <3>1. Len(items) \in Nat /\ MaxSize \in Nat
      BY DEF TypeOK, QueueUse
    <3>2. WithinLimit'
      BY <2>2, <3>1 DEF WithinLimit
    <3>3. TypeOK'
      BY <2>1, <2>2 DEF TypeOK, listVars
    <3> QED BY <3>2, <3>3
  <2>4. ListsInv'
    BY <1>1, <2>1 DEF ListsInv, TypeOK, listVars, GetsAndPuts
  <2>5. ValueInv'
    BY <1>1, <2>1, <2>2 DEF ValueInv, TypeOK, GetsAndPuts
  <2>6. NoMissedMatch => NoMissedMatch'
    BY <1>2, <2>1 DEF NoMissedMatch, listVars
  <2> QED BY <2>3, <2>4, <2>5, <2>6
<1>3. CASE items = <<>> /\ pendPut # <<>>
  <2>1. PICK p : p = Last(pendPut)
    OBVIOUS
  <2>2. p \in Putters /\ p \in Range(pendPut) /\ p # g /\ phase[p] = "waiting"
    BY <1>1, <1>3, <2>1, BackFacts DEF TypeOK, ListsInv
  <2>3. /\ ErasePut(p) /\ value' = [value EXCEPT ![g] = NoValue, ![p] = NoValue]
        /\ phase' = [phase EXCEPT ![g] = "idle", ![p] = "done"] /\ UNCHANGED <<flying, items>>
    BY <1>3, <2>1 DEF PollGet
  <2>4. /\ pendPut' \in Seq(Putters) /\ IsInjective(pendPut')
        /\ Range(pendPut') = Range(pendPut) \ {p}
        /\ putHead' \in BOOLEAN /\ UNCHANGED <<pendGet, getHead>>
    BY <2>2, <2>3, ErasePutFacts
  <2>5. TypeOK' /\ WithinLimit'
    BY <2>3, <2>4 DEF TypeOK, WithinLimit
  <2>6. ListsInv' /\ pendGet = <<>>
    <3>1. pendGet = <<>>
      BY <1>1, <1>3, <2>2, <2>3, <2>4 DEF ListsInv, TypeOK, GetsAndPuts, QueueUse
    <3>2. ListsInv'
      BY <1>1, <1>3, <2>2, <2>3, <2>4 DEF ListsInv, TypeOK, GetsAndPuts, QueueUse
    <3> QED BY <3>1, <3>2
  <2>7. ValueInv'
    <3>1. /\ phase \in [GetsAndPuts -> {"idle", "waiting", "done", "again"}]
          /\ value \in [GetsAndPuts -> Values \cup {NoValue}]
      BY DEF TypeOK
    <3>2. /\ g \in Getters /\ g \in GetsAndPuts /\ p \in GetsAndPuts /\ p \notin Getters
          /\ g \notin Putters /\ NoValue \notin Values
      BY <1>1, <2>2 DEF GetsAndPuts, QueueUse
    <3>3. /\ value'[g] = NoValue /\ value'[p] = NoValue /\ phase'[g] = "idle" /\ phase'[p] = "done"
          /\ \A z \in GetsAndPuts : z # g /\ z # p => value'[z] = value[z] /\ phase'[z] = phase[z]
      BY <2>2, <2>3, <3>1, <3>2
    <3>4. value[g] = NoValue /\ phase[g] # "done"
      BY <1>1, <3>2 DEF ValueInv
    <3>5. \A z \in GetsAndPuts : value'[z] # NoValue => z # g /\ z # p /\ value'[z] = value[z]
      BY <3>3
    <3>6. \A x, z \in GetsAndPuts : value'[x] = value'[z] /\ value'[x] # NoValue => x = z
      BY <3>5 DEF ValueInv
    <3>7. items' = items /\ flying' = flying /\ g # p
      BY <2>3, <3>2
    <3>8. ASSUME NEW x \in Getters
          PROVE  \/ x = g /\ phase'[x] = "idle" /\ value'[x] = NoValue
                 \/ x # g /\ phase'[x] = phase[x] /\ value'[x] = value[x]
      <4>1. x \in GetsAndPuts /\ x # p
        BY <3>2 DEF GetsAndPuts
      <4> QED BY <3>3, <4>1
    <3>9. /\ IsInjective(items') /\ Range(items') \subseteq flying'
          /\ \A v \in flying' : \/ v \in Range(items')
                              \/ \E x \in Getters : phase'[x] = "done" /\ value'[x] = v
      <4>1. IsInjective(items) /\ Range(items) \subseteq flying
        BY DEF ValueInv
      <4>2. ASSUME NEW v \in flying, v \notin Range(items)
            PROVE  \E x \in Getters : phase'[x] = "done" /\ value'[x] = v
        <5>1. PICK x \in Getters : phase[x] = "done" /\ value[x] = v
          BY <4>2 DEF ValueInv
        <5>2. phase'[x] = "done" /\ value'[x] = v
          BY <3>4, <3>8, <5>1
        <5> QED BY <5>2
      <4> QED BY <3>7, <4>1, <4>2
    <3>10. ASSUME NEW x \in Getters
           PROVE  IF phase'[x] = "done" THEN value'[x] \in flying' \ Range(items')
                  ELSE value'[x] = NoValue
      <4>1. IF phase[x] = "done" THEN value[x] \in flying \ Range(items) ELSE value[x] = NoValue
        BY DEF ValueInv
      <4> QED BY <3>7, <3>8, <4>1
    <3>11. ASSUME NEW x \in Putters
           PROVE  IF phase'[x] \in {"waiting", "again"} THEN value'[x] \in Values \ flying'
                  ELSE value'[x] = NoValue
      <4>1. IF phase[x] \in {"waiting", "again"} THEN value[x] \in Values \ flying
            ELSE value[x] = NoValue
        BY DEF ValueInv
      <4>2. CASE x = p
        BY <3>3, <4>2
      <4>3. CASE x # p
        <5>1. x \in GetsAndPuts /\ x # g
          BY <3>2 DEF GetsAndPuts
        <5>2. phase'[x] = phase[x] /\ value'[x] = value[x]
          BY <3>3, <4>3, <5>1
        <5> QED BY <3>7, <4>1, <5>2
      <4> QED BY <4>2, <4>3
    <3> QED BY <3>6, <3>9, <3>10, <3>11 DEF ValueInv
  <2> QED BY <2>4, <2>5, <2>6, <2>7 DEF NoMissedMatch
<1>4. CASE items = <<>> /\ pendPut = <<>>
  <2>1. /\ pendGet' = Append(pendGet, g) /\ phase' = [phase EXCEPT ![g] = "waiting"]
        /\ UNCHANGED <<pendPut, getHead, putHead, value, flying, items>>
    BY <1>4 DEF PollGet
  <2>2. /\ pendGet' \in Seq(Getters) /\ IsInjective(pendGet')
        /\ Range(pendGet') = Range(pendGet) \cup {g}
    BY <1>1, <2>1, AppendFacts DEF TypeOK, ListsInv
  <2>3. TypeOK' /\ WithinLimit'
    BY <2>1, <2>2 DEF TypeOK, WithinLimit
  <2>4. ListsInv'
    BY <1>1, <1>4, <2>1, <2>2 DEF ListsInv, TypeOK, GetsAndPuts, QueueUse
  <2>5. ValueInv'
    BY <1>1, <2>1 DEF ValueInv, TypeOK, GetsAndPuts
  <2> QED BY <1>4, <2>1, <2>3, <2>4, <2>5 DEF NoMissedMatch
<1> QED BY <1>2, <1>3, <1>4

(* A completed Get or Put returns its result.                                *)
LEMMA ReturnKeeps ==
    ASSUME QueueUse, QueueInv, NEW a \in GetsAndPuts, Return(a)
    PROVE  QueueInv' /\ (NoMissedMatch => NoMissedMatch')
<1> USE DEF QueueInv
<1>1. /\ phase[a] = "done" /\ phase' = [phase EXCEPT ![a] = "idle"]
      /\ value' = [value EXCEPT ![a] = NoValue] /\ flying' = flying \ {value[a]}
      /\ UNCHANGED <<items, listVars>>
  BY DEF Return
<1>2. TypeOK' /\ WithinLimit' /\ (NoMissedMatch => NoMissedMatch')
  BY <1>1 DEF TypeOK, WithinLimit, NoMissedMatch, listVars
<1>3. ListsInv'
  BY <1>1 DEF ListsInv, TypeOK, GetsAndPuts, listVars
<1>4. NoValue \notin flying
  BY DEF TypeOK, QueueUse
<1>5. ValueInv'
  BY <1>1, <1>4 DEF ValueInv, TypeOK, GetsAndPuts, QueueUse
<1> QED BY <1>2, <1>3, <1>5

(* async_finalize of a Get or Put that is cancelled, wherever it is.         *)
LEMMA CancelKeeps ==
    ASSUME QueueUse, QueueInv, NEW a \in GetsAndPuts, Cancel(a)
    PROVE  QueueInv' /\ (NoMissedMatch => NoMissedMatch')
<1> USE DEF QueueInv
<1>1. /\ phase[a] # "idle" /\ phase' = [phase EXCEPT ![a] = "idle"]
      /\ value' = [value EXCEPT ![a] = NoValue] /\ flying' = flying \ {value[a]}
      /\ items' = items
  BY DEF Cancel
<1>2. NoValue \notin flying
  BY DEF TypeOK, QueueUse
<1>3. ValueInv'
  BY <1>1, <1>2 DEF ValueInv, TypeOK, GetsAndPuts, QueueUse
<1>4. CASE phase[a] # "waiting"
  <2>1. UNCHANGED listVars
    BY <1>4 DEF Cancel
  <2> QED BY <1>1, <1>3, <1>4, <2>1
          DEF TypeOK, ListsInv, WithinLimit, NoMissedMatch, listVars, GetsAndPuts
<1>5. CASE phase[a] = "waiting" /\ a \in Getters
  <2>1. a \in Range(pendGet) /\ EraseGet(a)
    BY <1>5 DEF Cancel, ListsInv
  <2>2. /\ pendGet' \in Seq(Getters) /\ IsInjective(pendGet')
        /\ Range(pendGet') = Range(pendGet) \ {a}
        /\ getHead' \in BOOLEAN /\ UNCHANGED <<pendPut, putHead>>
        /\ getHead' => pendGet' # <<>>
    BY <2>1, EraseGetFacts
  <2>3. pendGet # <<>>
    BY <2>1, RangeFacts DEF TypeOK
  <2>4. TypeOK' /\ WithinLimit' /\ (NoMissedMatch => NoMissedMatch')
    BY <1>1, <2>2, <2>3 DEF TypeOK, WithinLimit, NoMissedMatch
  <2>5. ListsInv'
    BY <1>1, <1>5, <2>2, <2>3 DEF ListsInv, TypeOK, GetsAndPuts, QueueUse
  <2> QED BY <1>3, <2>4, <2>5
<1>6. CASE phase[a] = "waiting" /\ a \notin Getters
  <2>1. a \in Putters /\ a \in Range(pendPut) /\ ErasePut(a)
    BY <1>6 DEF Cancel, ListsInv, GetsAndPuts
  <2>2. /\ pendPut' \in Seq(Putters) /\ IsInjective(pendPut')
        /\ Range(pendPut') = Range(pendPut) \ {a}
        /\ putHead' \in BOOLEAN /\ UNCHANGED <<pendGet, getHead>>
    BY <2>1, ErasePutFacts
  <2>3. pendPut # <<>>
    BY <2>1, RangeFacts DEF TypeOK
  <2>4. TypeOK' /\ WithinLimit' /\ (NoMissedMatch => NoMissedMatch')
    BY <1>1, <2>2, <2>3 DEF TypeOK, WithinLimit, NoMissedMatch
  <2>5. ListsInv'
    BY <1>1, <1>6, <2>1, <2>2, <2>3 DEF ListsInv, TypeOK, GetsAndPuts, QueueUse
  <2> QED BY <1>3, <2>4, <2>5
<1> QED BY <1>4, <1>5, <1>6

(* reset() resumes the awaitables it finds and forgets the values it holds.  *)
LEMMA ResetKeeps ==
    ASSUME QueueUse, QueueInv, Reset
    PROVE  QueueInv' /\ (NoMissedMatch => NoMissedMatch')
<1> USE DEF QueueInv
<1> DEFINE resumed == (IF getHead THEN Range(pendGet) ELSE {})
                      \cup (IF putHead THEN Range(pendPut) ELSE {})
<1>1. /\ phase' = [a \in GetsAndPuts |-> IF a \in resumed THEN "again" ELSE phase[a]]
      /\ pendGet' = (IF getHead THEN <<>> ELSE pendGet)
      /\ pendPut' = (IF putHead THEN <<>> ELSE pendPut)
      /\ getHead' = FALSE /\ putHead' = FALSE
      /\ flying' = flying \ Range(items) /\ items' = <<>> /\ value' = value
  BY DEF Reset
<1>2. Range(<<>>) = {} /\ IsInjective(<<>>)
  BY DEF Range, IsInjective
<1>3. Range(pendGet) \subseteq Getters /\ Range(pendPut) \subseteq Putters
  BY RangeFacts DEF TypeOK
<1>4. \A a \in resumed : phase[a] = "waiting"
  BY <1>3 DEF ListsInv
<1>5. \A a \in GetsAndPuts : phase'[a] = IF a \in resumed THEN "again" ELSE phase[a]
  BY <1>1
<1>6. TypeOK' /\ WithinLimit'
  <2>1. MaxSize \in Nat /\ Len(<<>>) = 0
    BY DEF QueueUse
  <2>2. WithinLimit'
    BY <1>1, <2>1 DEF WithinLimit
  <2>3. /\ items' \in Seq(Values) /\ pendGet' \in Seq(Getters) /\ pendPut' \in Seq(Putters)
        /\ phase' \in [GetsAndPuts -> {"idle", "waiting", "done", "again"}]
    BY <1>1 DEF TypeOK
  <2> QED BY <1>1, <2>2, <2>3 DEF TypeOK
<1>7. \A g \in Getters : g \in resumed <=> (getHead /\ g \in Range(pendGet))
  BY <1>3 DEF QueueUse
<1>8. \A p \in Putters : p \in resumed <=> (putHead /\ p \in Range(pendPut))
  BY <1>3 DEF QueueUse
<1> HIDE DEF resumed
<1>9. ListsInv'
  <2>1. IsInjective(pendGet') /\ IsInjective(pendPut') /\ (pendGet' = <<>> \/ pendPut' = <<>>)
    BY <1>1, <1>2 DEF ListsInv
  <2>2. \A g \in Getters : g \in Range(pendGet') <=> phase'[g] = "waiting"
    BY <1>1, <1>2, <1>5, <1>7 DEF ListsInv, GetsAndPuts
  <2>3. \A p \in Putters : p \in Range(pendPut') <=> phase'[p] = "waiting"
    BY <1>1, <1>2, <1>5, <1>8 DEF ListsInv, GetsAndPuts
  <2> QED BY <1>1, <2>1, <2>2, <2>3 DEF ListsInv
<1>10. ValueInv'
  BY <1>1, <1>2, <1>4, <1>5 DEF ValueInv, GetsAndPuts
<1>11. NoMissedMatch => NoMissedMatch'
  BY <1>1 DEF NoMissedMatch
<1> QED BY <1>6, <1>9, <1>10, <1>11

(* The loop of Queue2::put, on a list w of waiting Gets and container c: the *)
(* first n values go to the last n Gets, one each, which are D.              *)
Serves(w, c, n, D, served) ==
    /\ n \in Nat /\ n <= Len(w) /\ n <= Len(c)
    /\ D = {w[Len(w) + 1 - i] : i \in 1..n}
    /\ \A i \in 1..n : served[w[Len(w) + 1 - i]] = c[i]

LEMMA ServeFacts ==
    ASSUME NEW G, NEW V, NEW w \in Seq(G), NEW c \in Seq(V), IsInjective(w), IsInjective(c),
           NEW n, NEW D, NEW served, Serves(w, c, n, D, served)
    PROVE  /\ Range(SubSeq(w, 1, Len(w) - n)) = Range(w) \ D
           /\ Range(SubSeq(c, n + 1, Len(c))) = Range(c) \ {served[g] : g \in D}
           /\ D \subseteq Range(w) /\ \A g \in D : served[g] \in Range(c)
           /\ \A g, h \in D : served[g] = served[h] => g = h
<1> USE DEF Serves
<1>1. /\ Len(w) \in Nat /\ Len(c) \in Nat /\ Len(w) - n \in 0..Len(w)
      /\ DOMAIN w = 1..Len(w) /\ DOMAIN c = 1..Len(c)
  <2>1. Len(w) \in Nat /\ DOMAIN w = 1..Len(w)
    OBVIOUS
  <2>2. Len(c) \in Nat /\ DOMAIN c = 1..Len(c)
    OBVIOUS
  <2>3. PICK k \in Nat : k = Len(w) /\ n \in Nat /\ n <= k
    BY <2>1
  <2>4. k - n \in 0..k
    BY <2>3
  <2> QED BY <2>1, <2>2, <2>3, <2>4
<1>2. Range(SubSeq(w, 1, Len(w) - n)) = {w[k] : k \in 1..(Len(w) - n)}
  BY <1>1, PrefixFacts
<1>3. Range(SubSeq(c, n + 1, Len(c))) = {c[k] : k \in (n + 1)..Len(c)}
  BY <1>1, SuffixFacts
<1>4. D = {w[k] : k \in (Len(w) - n + 1)..Len(w)}
  <2>1. \A i \in 1..n : Len(w) + 1 - i \in (Len(w) - n + 1)..Len(w)
    BY <1>1
  <2>2. \A k \in (Len(w) - n + 1)..Len(w) : Len(w) + 1 - k \in 1..n
                                            /\ Len(w) + 1 - (Len(w) + 1 - k) = k
    BY <1>1
  <2>3. \A k \in (Len(w) - n + 1)..Len(w) : \E i \in 1..n : w[k] = w[Len(w) + 1 - i]
    BY <2>2
  <2> QED BY <2>1, <2>3
<1>5. {served[g] : g \in D} = {c[k] : k \in 1..n}
  <2>1. \A g \in D : \E i \in 1..n : served[g] = c[i]
    OBVIOUS
  <2>2. \A i \in 1..n : \E g \in D : served[g] = c[i]
    OBVIOUS
  <2>3. ASSUME NEW x \in {served[g] : g \in D} PROVE x \in {c[k] : k \in 1..n}
    BY <2>1
  <2>4. ASSUME NEW x \in {c[k] : k \in 1..n} PROVE x \in {served[g] : g \in D}
    <3>1. PICK i \in 1..n : x = c[i]
      OBVIOUS
    <3>2. PICK g \in D : served[g] = c[i]
      BY <2>2
    <3> QED BY <3>1, <3>2, Zenon
  <2> QED BY <2>3, <2>4, Zenon
<1>6. \A k \in DOMAIN w : ~(k \in 1..(Len(w) - n) <=> k \in (Len(w) - n + 1)..Len(w))
  BY <1>1
<1>7. \A k \in DOMAIN c : ~(k \in 1..n <=> k \in (n + 1)..Len(c))
  BY <1>1
<1>8. /\ 1..(Len(w) - n) \subseteq DOMAIN w /\ (Len(w) - n + 1)..Len(w) \subseteq DOMAIN w
      /\ 1..n \subseteq DOMAIN c /\ (n + 1)..Len(c) \subseteq DOMAIN c
  BY <1>1
<1>9. Range(SubSeq(w, 1, Len(w) - n)) = Range(w) \ D
  <2>1. {w[k] : k \in 1..(Len(w) - n)} = Range(w) \ {w[k] : k \in (Len(w) - n + 1)..Len(w)}
    BY <1>6, <1>8, SplitRange
  <2> QED BY <1>2, <1>4, <2>1
<1>10. Range(SubSeq(c, n + 1, Len(c))) = Range(c) \ {served[g] : g \in D}
  <2>1. {c[k] : k \in (n + 1)..Len(c)} = Range(c) \ {c[k] : k \in 1..n}
    BY <1>7, <1>8, SplitRange
  <2> QED BY <1>3, <1>5, <2>1
<1>11. D \subseteq Range(w)
  BY <1>4, <1>8 DEF Range
<1>12. ASSUME NEW g \in D
       PROVE  \E i \in 1..n : g = w[Len(w) + 1 - i] /\ served[g] = c[i] /\ i \in DOMAIN c
  BY <1>8
<1>13. \A g \in D : served[g] \in Range(c)
  BY <1>12 DEF Range
<1>14. ASSUME NEW g \in D, NEW h \in D, served[g] = served[h] PROVE g = h
  <2>1. PICK i \in 1..n : g = w[Len(w) + 1 - i] /\ served[g] = c[i] /\ i \in DOMAIN c
    BY <1>12
  <2>2. PICK k \in 1..n : h = w[Len(w) + 1 - k] /\ served[h] = c[k] /\ k \in DOMAIN c
    BY <1>12
  <2>3. i = k
    BY <1>14, <2>1, <2>2 DEF IsInjective
  <2> QED BY <2>1, <2>2, <2>3
<1> QED BY <1>9, <1>10, <1>11, <1>13, <1>14

(* Queue2::put of a value that is nowhere else: afterwards nobody waits for  *)
(* what is there, whatever the owner had done before.                        *)
LEMMA Put2Keeps ==
    ASSUME QueueUse, QueueInv, NEW p \in Putters, NEW v \in Values \ flying,
           phase[p] \in {"idle", "again"}, \A a \in GetsAndPuts : value[a] = v => a = p,
           Put2(p, v)
    PROVE  QueueInv' /\ NoMissedMatch'
<1> USE DEF QueueInv
<1> DEFINE n == IF Len(pendGet) < Len(items) THEN Len(pendGet) ELSE Len(items)
           rest == SubSeq(pendGet, 1, Len(pendGet) - n)
           D == {pendGet[Len(pendGet) + 1 - i] : i \in 1..n}
           served == [g \in D |->
                        items[CHOOSE i \in 1..n : pendGet[Len(pendGet) + 1 - i] = g]]
           left == SubSeq(items, n + 1, Len(items))
           last == IF rest # <<>> THEN {Last(rest)} ELSE {}
           full == MaxSize > 0 /\ Len(left) >= MaxSize
           waits == rest = <<>> /\ full
<1>1. /\ pendGet' = (IF rest # <<>> THEN Front(rest) ELSE <<>>)
      /\ getHead' = (getHead /\ pendGet' # <<>>)
      /\ items' = (IF rest = <<>> /\ ~full THEN Append(left, v) ELSE left)
      /\ value' = [a \in GetsAndPuts |->
                    CASE a \in DOMAIN served -> served[a]
                      [] a = p -> IF waits THEN v ELSE NoValue
                      [] a \in last -> v
                      [] OTHER -> value[a]]
      /\ phase' = [a \in GetsAndPuts |->
                    CASE a \in DOMAIN served -> "done"
                      [] a = p -> IF waits THEN "waiting" ELSE "idle"
                      [] a \in last -> "done"
                      [] OTHER -> phase[a]]
      /\ pendPut' = (IF waits THEN Append(pendPut, p) ELSE pendPut)
      /\ flying' = (IF waits THEN flying ELSE flying \cup {v})
      /\ putHead' = putHead
  BY DEF Put2
<1>2. /\ pendGet \in Seq(Getters) /\ items \in Seq(Values) /\ MaxSize \in Nat
      /\ IsInjective(pendGet) /\ IsInjective(items)
      /\ Len(pendGet) \in Nat /\ Len(items) \in Nat
  BY DEF TypeOK, ListsInv, ValueInv, QueueUse
<1>3. n \in Nat /\ n <= Len(pendGet) /\ n <= Len(items) /\ (n = Len(pendGet) \/ n = Len(items))
  BY <1>2
<1>4. DOMAIN served = D
  OBVIOUS
<1>5. \A i \in 1..n : served[pendGet[Len(pendGet) + 1 - i]] = items[i]
  <2> SUFFICES ASSUME NEW i \in 1..n
               PROVE  served[pendGet[Len(pendGet) + 1 - i]] = items[i]
    OBVIOUS
  <2> HIDE DEF n
  <2>1. \A k \in 1..n : Len(pendGet) + 1 - k \in DOMAIN pendGet
    BY <1>2, <1>3
  <2>2. PICK k \in 1..n : /\ k = CHOOSE x \in 1..n : pendGet[Len(pendGet) + 1 - x] = pendGet[Len(pendGet) + 1 - i]
                          /\ pendGet[Len(pendGet) + 1 - k] = pendGet[Len(pendGet) + 1 - i]
    OBVIOUS
  <2>3. Len(pendGet) + 1 - k = Len(pendGet) + 1 - i
    BY <1>2, <2>1, <2>2 DEF IsInjective
  <2>4. k = i
    BY <1>2, <1>3, <2>3
  <2>5. served[pendGet[Len(pendGet) + 1 - i]] = items[k]
    BY <2>2
  <2> QED BY <2>4, <2>5
<1>6. /\ rest \in Seq(Getters) /\ IsInjective(rest) /\ Len(rest) = Len(pendGet) - n
  <2> HIDE DEF n
  <2>1. Len(pendGet) - n \in 0..Len(pendGet)
    BY <1>2, <1>3
  <2> QED BY <1>2, <2>1, PrefixFacts
<1>7. /\ left \in Seq(Values) /\ IsInjective(left) /\ Len(left) = Len(items) - n
  <2> HIDE DEF n
  <2>1. n \in 0..Len(items)
    BY <1>2, <1>3
  <2> QED BY <1>2, <2>1, SuffixFacts
<1>8. /\ Range(rest) = Range(pendGet) \ D
      /\ Range(left) = Range(items) \ {served[g] : g \in D}
      /\ D \subseteq Range(pendGet) /\ \A g \in D : served[g] \in Range(items)
      /\ \A g, h \in D : served[g] = served[h] => g = h
  <2>1. D = {pendGet[Len(pendGet) + 1 - i] : i \in 1..n}
    OBVIOUS
  <2>2. rest = SubSeq(pendGet, 1, Len(pendGet) - n) /\ left = SubSeq(items, n + 1, Len(items))
    OBVIOUS
  <2> HIDE DEF n, served, D, rest, left
  <2>3. /\ Range(SubSeq(pendGet, 1, Len(pendGet) - n)) = Range(pendGet) \ D
        /\ Range(SubSeq(items, n + 1, Len(items))) = Range(items) \ {served[g] : g \in D}
        /\ D \subseteq Range(pendGet) /\ \A g \in D : served[g] \in Range(items)
        /\ \A g, h \in D : served[g] = served[h] => g = h
    <3>1. Serves(pendGet, items, n, D, served)
      BY <1>3, <1>5, <2>1 DEF Serves
    <3> QED BY <1>2, <3>1, ServeFacts
  <2> QED BY <2>2, <2>3
<1> HIDE DEF n, rest, D, served, left, full
<1>9. rest = <<>> \/ left = <<>>
  <2>1. Len(rest) = 0 \/ Len(left) = 0
    BY <1>2, <1>3, <1>6, <1>7
  <2> QED BY <1>6, <1>7, <2>1
<1>10. /\ p \in GetsAndPuts /\ p \notin Getters /\ Getters \subseteq GetsAndPuts
       /\ Range(pendGet) \subseteq Getters /\ D \subseteq Getters /\ p \notin Range(pendPut)
       /\ Range(items) \subseteq flying /\ NoValue \notin flying /\ NoValue # v
       /\ v \notin Range(items) /\ v \notin Range(left)
  BY <1>2, <1>8, RangeFacts DEF GetsAndPuts, QueueUse, TypeOK, ValueInv, ListsInv
<1>11. \A g \in Range(pendGet) : phase[g] = "waiting" /\ value[g] = NoValue
  BY <1>10 DEF ListsInv, ValueInv
<1>12. \A g \in Getters : g \notin Range(pendGet) => phase[g] # "waiting"
  BY DEF ListsInv
<1>13. pendGet = <<>> \/ pendPut = <<>>
  BY DEF ListsInv
<1>14. ASSUME pendGet = <<>> PROVE rest = <<>>
  BY <1>2, <1>3, <1>6, <1>14
<1>15. CASE rest # <<>>
  <2>1. PICK l : l = Last(rest)
    OBVIOUS
  <2>2. /\ l \in Getters /\ l \in Range(rest) /\ Front(rest) \in Seq(Getters)
        /\ Range(Front(rest)) = Range(rest) \ {l} /\ IsInjective(Front(rest))
    BY <1>6, <1>15, <2>1, BackFacts
  <2>3. /\ pendGet' = Front(rest) /\ items' = left /\ left = <<>>
        /\ pendPut' = pendPut /\ flying' = flying \cup {v} /\ pendPut = <<>>
    BY <1>1, <1>9, <1>13, <1>14, <1>15
  <2>4. \A a \in GetsAndPuts :
           /\ value'[a] = IF a \in D THEN served[a] ELSE IF a = p THEN NoValue
                          ELSE IF a = l THEN v ELSE value[a]
           /\ phase'[a] = IF a \in D THEN "done" ELSE IF a = p THEN "idle"
                          ELSE IF a = l THEN "done" ELSE phase[a]
    <3> SUFFICES ASSUME NEW a \in GetsAndPuts
                 PROVE  /\ value'[a] = IF a \in D THEN served[a] ELSE IF a = p THEN NoValue
                                        ELSE IF a = l THEN v ELSE value[a]
                        /\ phase'[a] = IF a \in D THEN "done" ELSE IF a = p THEN "idle"
                                        ELSE IF a = l THEN "done" ELSE phase[a]
      OBVIOUS
    <3>1. /\ value'[a] = CASE a \in D -> served[a]
                           [] a = p -> IF waits THEN v ELSE NoValue
                           [] a \in last -> v
                           [] OTHER -> value[a]
          /\ phase'[a] = CASE a \in D -> "done"
                           [] a = p -> IF waits THEN "waiting" ELSE "idle"
                           [] a \in last -> "done"
                           [] OTHER -> phase[a]
      BY <1>1, <1>4
    <3>2. p \notin D /\ l \notin D /\ l # p /\ last = {l}
      BY <1>8, <1>10, <1>15, <2>1, <2>2
    <3>3. CASE a \in D
      BY <3>1, <3>2, <3>3
    <3>4. CASE a = p
      BY <1>15, <3>1, <3>2, <3>4
    <3>5. CASE a \notin D /\ a # p
      BY <3>1, <3>2, <3>5
    <3> QED BY <3>3, <3>4, <3>5
  <2> HIDE DEF last
  <2>5. l \notin D /\ l # p /\ Range(items) = {served[g] : g \in D}
    <3>1. Range(left) = {}
      BY <2>3 DEF Range
    <3> QED BY <1>8, <1>10, <2>2, <3>1
  <2>6. /\ phase' \in [GetsAndPuts -> {"idle", "waiting", "done", "again"}]
        /\ value' \in [GetsAndPuts -> Values \cup {NoValue}]
    <3>1. \A a \in GetsAndPuts : phase'[a] \in {"idle", "waiting", "done", "again"}
                                 /\ value'[a] \in Values \cup {NoValue}
      BY <1>8, <1>10, <2>4 DEF TypeOK
    <3> QED BY <1>1, <3>1
  <2>7. TypeOK' /\ WithinLimit'
    <3>1. getHead' \in BOOLEAN /\ putHead' \in BOOLEAN
      BY <1>1 DEF TypeOK
    <3>2. Len(items') = 0
      BY <2>3
    <3>3. TypeOK'
      BY <1>7, <2>2, <2>3, <2>6, <3>1 DEF TypeOK
    <3> QED BY <1>2, <3>2, <3>3 DEF WithinLimit
  <2>8. ListsInv'
    <3>1. \A g \in Getters : g \in Range(pendGet') <=> phase'[g] = "waiting"
      BY <1>8, <1>10, <1>11, <1>12, <2>2, <2>3, <2>4, <2>5
    <3>2. \A q \in Putters : q \in Range(pendPut') <=> phase'[q] = "waiting"
      BY <1>10, <2>2, <2>3, <2>4 DEF ListsInv, QueueUse, GetsAndPuts
    <3> QED BY <1>1, <2>2, <2>3, <3>1, <3>2 DEF ListsInv
  <2>9. ValueInv'
    <3>1. Range(items') = {} /\ IsInjective(items')
      BY <2>3, <1>7 DEF Range
    <3>2. ASSUME NEW u \in flying' PROVE \E g \in Getters : phase'[g] = "done" /\ value'[g] = u
      <4>1. CASE u = v
        BY <1>10, <2>2, <2>4, <2>5, <4>1
      <4>2. CASE u \in Range(items)
        BY <1>10, <2>4, <2>5, <4>2
      <4>3. CASE u \in flying \ Range(items)
        <5>1. PICK g \in Getters : phase[g] = "done" /\ value[g] = u
          BY <4>3 DEF ValueInv
        <5>2. g \notin D /\ g # l /\ g # p
          BY <1>8, <1>10, <1>11, <2>2, <5>1
        <5> QED BY <1>10, <2>4, <5>1, <5>2
      <4> QED BY <2>3, <3>2, <4>1, <4>2, <4>3
    <3>3. \A g \in Getters : IF phase'[g] = "done" THEN value'[g] \in flying'
                             ELSE value'[g] = NoValue
      BY <1>8, <1>10, <2>3, <2>4 DEF ValueInv
    <3>4. \A q \in Putters : IF phase'[q] \in {"waiting", "again"} THEN value'[q] \in Values \ flying'
                             ELSE value'[q] = NoValue
      <4> SUFFICES ASSUME NEW q \in Putters, q # p
                   PROVE  IF phase'[q] \in {"waiting", "again"} THEN value'[q] \in Values \ flying'
                          ELSE value'[q] = NoValue
        BY <1>10, <2>4
      <4>1. q \in GetsAndPuts /\ q \notin D /\ q # l
        BY <1>10, <2>2 DEF GetsAndPuts, QueueUse
      <4> QED BY <2>3, <2>4, <4>1 DEF ValueInv
    <3>5. ASSUME NEW a \in GetsAndPuts, NEW b \in GetsAndPuts, value'[a] = value'[b],
                 value'[a] # NoValue
          PROVE  a = b
      <4>1. \A c \in GetsAndPuts \ D : value[c] \notin Range(items)
        BY <1>10 DEF ValueInv, GetsAndPuts
      <4>2. CASE a \in D
        BY <1>8, <1>10, <2>4, <3>5, <4>1, <4>2
      <4>3. CASE b \in D
        BY <1>8, <1>10, <2>4, <3>5, <4>1, <4>3
      <4>4. CASE a \notin D /\ b \notin D
        BY <2>4, <3>5, <4>4 DEF ValueInv
      <4> QED BY <4>2, <4>3, <4>4
    <3> QED BY <3>1, <3>2, <3>3, <3>4, <3>5 DEF ValueInv
  <2> QED BY <2>3, <2>7, <2>8, <2>9 DEF NoMissedMatch
<1>16. CASE rest = <<>>
  <2>1. D = Range(pendGet) /\ Range(<<>>) = {} /\ IsInjective(<<>>)
    <3>1. Range(<<>>) = {} /\ IsInjective(<<>>)
      BY DEF Range, IsInjective
    <3> QED BY <1>8, <1>16, <3>1
  <2>2. pendGet' = <<>> /\ putHead' = putHead /\ getHead' \in BOOLEAN
    BY <1>1, <1>16
  <2>3. \A a \in GetsAndPuts :
           /\ value'[a] = IF a \in D THEN served[a] ELSE IF a = p THEN IF full THEN v ELSE NoValue
                          ELSE value[a]
           /\ phase'[a] = IF a \in D THEN "done"
                          ELSE IF a = p THEN IF full THEN "waiting" ELSE "idle" ELSE phase[a]
    <3> SUFFICES ASSUME NEW a \in GetsAndPuts
                 PROVE  /\ value'[a] = IF a \in D THEN served[a]
                                        ELSE IF a = p THEN IF full THEN v ELSE NoValue ELSE value[a]
                        /\ phase'[a] = IF a \in D THEN "done"
                                        ELSE IF a = p THEN IF full THEN "waiting" ELSE "idle"
                                        ELSE phase[a]
      OBVIOUS
    <3>1. /\ value'[a] = CASE a \in D -> served[a]
                           [] a = p -> IF waits THEN v ELSE NoValue
                           [] a \in last -> v
                           [] OTHER -> value[a]
          /\ phase'[a] = CASE a \in D -> "done"
                           [] a = p -> IF waits THEN "waiting" ELSE "idle"
                           [] a \in last -> "done"
                           [] OTHER -> phase[a]
      BY <1>1, <1>4
    <3>2. p \notin D /\ last = {}
      BY <1>10, <1>16
    <3>3. CASE a \in D
      BY <3>1, <3>2, <3>3, <1>16
    <3>4. CASE a = p
      BY <3>1, <3>2, <3>4, <1>16
    <3>5. CASE a \notin D /\ a # p
      BY <3>1, <3>5, <1>16
    <3> QED BY <3>3, <3>4, <3>5
  <2>4. /\ phase' \in [GetsAndPuts -> {"idle", "waiting", "done", "again"}]
        /\ value' \in [GetsAndPuts -> Values \cup {NoValue}]
    <3>1. \A a \in GetsAndPuts : phase'[a] \in {"idle", "waiting", "done", "again"}
                                 /\ value'[a] \in Values \cup {NoValue}
      BY <1>8, <1>10, <2>3 DEF TypeOK
    <3> QED BY <1>1, <3>1
  <2>5. \A g \in Getters : g \in Range(pendGet') <=> phase'[g] = "waiting"
    BY <1>10, <1>12, <2>1, <2>2, <2>3
  <2>6. \A c \in GetsAndPuts \ D : value[c] \notin Range(items)
    BY <1>10 DEF ValueInv, GetsAndPuts
  <2>7. \A a, b \in GetsAndPuts : value'[a] = value'[b] /\ value'[a] # NoValue => a = b
    <3> SUFFICES ASSUME NEW a \in GetsAndPuts, NEW b \in GetsAndPuts, value'[a] = value'[b],
                        value'[a] # NoValue
                 PROVE  a = b
      OBVIOUS
    <3>1. CASE a \in D
      BY <1>8, <1>10, <2>3, <2>6, <3>1
    <3>2. CASE b \in D
      BY <1>8, <1>10, <2>3, <2>6, <3>2
    <3>3. CASE a \notin D /\ b \notin D
      BY <2>3, <3>3 DEF ValueInv
    <3> QED BY <3>1, <3>2, <3>3
  <2>8. ASSUME NEW u \in flying
        PROVE  u \in Range(left) \/ \E g \in Getters : phase'[g] = "done" /\ value'[g] = u
    <3>1. CASE u \in Range(items)
      <4>1. CASE u \in Range(left)
        BY <4>1
      <4>2. CASE u \notin Range(left)
        <5>1. PICK g \in D : u = served[g]
          BY <1>8, <3>1, <4>2
        <5> QED BY <1>10, <2>3, <5>1
      <4> QED BY <4>1, <4>2
    <3>2. CASE u \notin Range(items)
      <4>1. PICK g \in Getters : phase[g] = "done" /\ value[g] = u
        BY <3>2 DEF ValueInv
      <4>2. g \notin D /\ g # p
        BY <1>8, <1>10, <1>11, <4>1
      <4> QED BY <1>10, <2>3, <4>1, <4>2
    <3> QED BY <3>1, <3>2
  <2>9. \A g \in Getters : IF phase'[g] = "done" THEN value'[g] \in flying \ Range(left)
                           ELSE value'[g] = NoValue
    BY <1>8, <1>10, <1>11, <2>3 DEF ValueInv
  <2>10. CASE full
    <3>1. items' = left /\ pendPut' = Append(pendPut, p) /\ flying' = flying
      BY <1>1, <1>16, <2>10
    <3>2. /\ pendPut' \in Seq(Putters) /\ IsInjective(pendPut')
          /\ Range(pendPut') = Range(pendPut) \cup {p}
      BY <1>10, <3>1, AppendFacts DEF TypeOK, ListsInv
    <3>3. TypeOK'
      BY <1>7, <2>2, <2>4, <3>1, <3>2 DEF TypeOK
    <3>4. WithinLimit'
      BY <1>2, <1>3, <1>7, <3>1 DEF WithinLimit
    <3>5. ListsInv'
      <4>1. \A q \in Putters : q \in Range(pendPut') <=> phase'[q] = "waiting"
        BY <1>10, <2>3, <2>10, <3>2 DEF ListsInv, GetsAndPuts, QueueUse
      <4> QED BY <1>1, <2>1, <2>2, <2>5, <3>2, <4>1 DEF ListsInv
    <3>6. ValueInv'
      <4>1. \A q \in Putters : IF phase'[q] \in {"waiting", "again"} THEN value'[q] \in Values \ flying'
                               ELSE value'[q] = NoValue
        BY <1>10, <2>3, <2>10, <3>1 DEF ValueInv, GetsAndPuts, QueueUse
      <4>2. IsInjective(items') /\ Range(items') \subseteq flying'
        BY <1>7, <1>8, <1>10, <3>1
      <4> QED BY <2>7, <2>8, <2>9, <3>1, <4>1, <4>2 DEF ValueInv
    <3> QED BY <2>2, <3>3, <3>4, <3>5, <3>6 DEF NoMissedMatch
  <2>11. CASE ~full
    <3>1. items' = Append(left, v) /\ pendPut' = pendPut /\ flying' = flying \cup {v}
      BY <1>1, <1>16, <2>11
    <3>2. /\ items' \in Seq(Values) /\ IsInjective(items') /\ Len(items') = Len(left) + 1
          /\ Range(items') = Range(left) \cup {v}
      BY <1>7, <1>10, <3>1, AppendFacts
    <3>3. TypeOK'
      BY <2>2, <2>4, <3>1, <3>2 DEF TypeOK
    <3>4. WithinLimit'
      BY <1>2, <1>3, <1>7, <2>11, <3>2 DEF WithinLimit, full
    <3>5. ListsInv'
      <4>1. \A q \in Putters : q \in Range(pendPut') <=> phase'[q] = "waiting"
        BY <1>10, <2>3, <2>11, <3>1 DEF ListsInv, GetsAndPuts, QueueUse
      <4> QED BY <1>1, <2>1, <2>2, <2>5, <3>1, <4>1 DEF ListsInv
    <3>6. ValueInv'
      <4>1. \A q \in Putters : IF phase'[q] \in {"waiting", "again"} THEN value'[q] \in Values \ flying'
                               ELSE value'[q] = NoValue
        BY <1>10, <2>3, <2>11, <3>1 DEF ValueInv, GetsAndPuts, QueueUse
      <4>2. Range(items') \subseteq flying'
        BY <1>8, <1>10, <3>1, <3>2
      <4>3. \A g \in Getters : IF phase'[g] = "done" THEN value'[g] \in flying' \ Range(items')
                               ELSE value'[g] = NoValue
        BY <2>9, <3>1, <3>2
      <4>4. \A u \in flying' : u \in Range(items')
                               \/ \E g \in Getters : phase'[g] = "done" /\ value'[g] = u
        BY <2>8, <3>1, <3>2
      <4> QED BY <2>7, <3>2, <4>1, <4>2, <4>3, <4>4 DEF ValueInv
    <3> QED BY <2>2, <3>3, <3>4, <3>5, <3>6 DEF NoMissedMatch
  <2> QED BY <2>10, <2>11
<1> QED BY <1>15, <1>16

(* The owner puts a value into a Queue2 or takes the first one.              *)
LEMMA DirectKeeps == ASSUME QueueUse, QueueInv, Direct PROVE QueueInv'
<1> USE DEF QueueInv
<1>0. items \in Seq(Values) /\ Len(items) \in Nat /\ MaxSize \in Nat /\ IsInjective(items)
  BY DEF TypeOK, QueueUse, ValueInv
<1>1. CASE Pop
  <2>1. /\ items # <<>> /\ items' = Tail(items) /\ flying' = flying \ {Head(items)}
        /\ UNCHANGED <<listVars, phase, value>>
    BY <1>1 DEF Pop
  <2>2. /\ items' \in Seq(Values) /\ Head(items) \in Range(items) /\ IsInjective(items')
        /\ Range(items') = Range(items) \ {Head(items)} /\ Len(items') = Len(items) - 1
    BY <1>0, <2>1, PopFacts
  <2>3. TypeOK'
    BY <2>1, <2>2 DEF TypeOK, listVars
  <2>4. WithinLimit'
    BY <1>0, <2>2 DEF WithinLimit
  <2>5. ListsInv'
    BY <2>1 DEF ListsInv, listVars
  <2>6. ValueInv'
    BY <2>1, <2>2 DEF ValueInv
  <2> QED BY <2>3, <2>4, <2>5, <2>6
<1>2. ASSUME NEW v \in Values, Emplace(v) PROVE QueueInv'
  <2>1. /\ ~Full /\ v \notin flying \cup Pending /\ items' = Append(items, v)
        /\ flying' = flying \cup {v} /\ UNCHANGED <<listVars, phase, value>>
    BY <1>2 DEF Emplace
  <2>2. v \notin Range(items) /\ \A a \in GetsAndPuts : value[a] # v
    BY <2>1 DEF ValueInv, Pending, QueueUse
  <2>3. /\ items' \in Seq(Values) /\ IsInjective(items')
        /\ Range(items') = Range(items) \cup {v} /\ Len(items') = Len(items) + 1
    BY <1>0, <2>1, <2>2, AppendFacts
  <2>4. TypeOK'
    BY <2>1, <2>3 DEF TypeOK, listVars
  <2>5. WithinLimit'
    BY <1>0, <2>1, <2>3 DEF WithinLimit, Full
  <2>6. ListsInv'
    BY <2>1 DEF ListsInv, listVars
  <2>7. ValueInv'
    BY <2>1, <2>2, <2>3 DEF ValueInv, GetsAndPuts
  <2> QED BY <2>4, <2>5, <2>6, <2>7
<1> QED BY <1>1, <1>2 DEF Direct

(* Where nobody waits for what is there, Queue2::put does what Put does in a *)
(* Queue, to the list's _head.                                               *)
LEMMA PutsAgree ==
    ASSUME QueueUse, QueueInv, NoMissedMatch, NEW p \in Putters, NEW v
    PROVE  Put2(p, v) <=> PollPut(p, v)
<1> USE DEF QueueInv
<1>1. /\ pendGet \in Seq(Getters) /\ items \in Seq(Values) /\ IsInjective(pendGet)
      /\ Len(pendGet) \in Nat /\ Len(items) \in Nat /\ getHead \in BOOLEAN
      /\ p \notin Getters /\ p \in GetsAndPuts /\ Getters \subseteq GetsAndPuts
      /\ value \in [GetsAndPuts -> Values \cup {NoValue}] /\ DOMAIN phase = GetsAndPuts
  BY DEF TypeOK, ListsInv, QueueUse, GetsAndPuts
<1>2. SubSeq(pendGet, 1, Len(pendGet)) = pendGet /\ SubSeq(items, 1, Len(items)) = items
  BY <1>1
<1> DEFINE n == IF Len(pendGet) < Len(items) THEN Len(pendGet) ELSE Len(items)
           rest == SubSeq(pendGet, 1, Len(pendGet) - n)
           D == {pendGet[Len(pendGet) + 1 - i] : i \in 1..n}
           served == [g \in D |->
                        items[CHOOSE i \in 1..n : pendGet[Len(pendGet) + 1 - i] = g]]
           left == SubSeq(items, n + 1, Len(items))
           last == IF rest # <<>> THEN {Last(rest)} ELSE {}
           full == MaxSize > 0 /\ Len(left) >= MaxSize
           waits == rest = <<>> /\ full
           values == [a \in GetsAndPuts |->
                        CASE a \in DOMAIN served -> served[a]
                          [] a = p -> IF waits THEN v ELSE NoValue
                          [] a \in last -> v
                          [] OTHER -> value[a]]
           phases == [a \in GetsAndPuts |->
                        CASE a \in DOMAIN served -> "done"
                          [] a = p -> IF waits THEN "waiting" ELSE "idle"
                          [] a \in last -> "done"
                          [] OTHER -> phase[a]]
<1>4. n = 0 /\ Len(pendGet) - n = Len(pendGet) /\ n + 1 = 1
  <2>1. Len(pendGet) = 0 \/ Len(items) = 0
    BY <1>1 DEF NoMissedMatch
  <2> QED BY <1>1, <2>1
<1>5. DOMAIN served = {}
  <2>1. D = {}
    BY <1>4
  <2> QED BY <2>1
<1>6. Put2(p, v) <=>
        /\ pendGet' = (IF rest # <<>> THEN Front(rest) ELSE <<>>)
        /\ getHead' = (getHead /\ pendGet' # <<>>)
        /\ items' = (IF rest = <<>> /\ ~full THEN Append(left, v) ELSE left)
        /\ value' = values /\ phase' = phases
        /\ pendPut' = (IF waits THEN Append(pendPut, p) ELSE pendPut)
        /\ flying' = (IF waits THEN flying ELSE flying \cup {v})
        /\ putHead' = putHead
  BY DEF Put2
<1> HIDE DEF n, D, served, full
<1>3. CASE pendGet # <<>>
  <2>1. items = <<>> /\ Len(items) = 0 /\ Len(pendGet) > 0
    BY <1>1, <1>3 DEF NoMissedMatch
  <2>2. PICK g : g = Last(pendGet)
    OBVIOUS
  <2>3. g \in Getters /\ g \in GetsAndPuts /\ g # p
    BY <1>1, <1>3, <2>2, BackFacts
  <2>4. Put2(p, v) <=>
          /\ pendGet' = Front(pendGet)
          /\ getHead' = (getHead /\ pendGet' # <<>>)
          /\ items' = items
          /\ value' = [a \in GetsAndPuts |-> IF a = p THEN NoValue ELSE IF a = g THEN v ELSE value[a]]
          /\ phase' = [a \in GetsAndPuts |-> IF a = p THEN "idle" ELSE IF a = g THEN "done" ELSE phase[a]]
          /\ pendPut' = pendPut /\ flying' = flying \cup {v} /\ putHead' = putHead
    <3>1. rest = pendGet /\ left = items /\ last = {g} /\ ~waits
      BY <1>2, <1>3, <1>4, <2>1, <2>2
    <3>2. /\ values = [a \in GetsAndPuts |-> IF a = p THEN NoValue ELSE IF a = g THEN v ELSE value[a]]
          /\ phases = [a \in GetsAndPuts |-> IF a = p THEN "idle" ELSE IF a = g THEN "done" ELSE phase[a]]
      <4> HIDE DEF rest, last, waits
      <4> SUFFICES ASSUME NEW a \in GetsAndPuts
                   PROVE  /\ values[a] = IF a = p THEN NoValue ELSE IF a = g THEN v ELSE value[a]
                          /\ phases[a] = IF a = p THEN "idle" ELSE IF a = g THEN "done" ELSE phase[a]
        OBVIOUS
      <4>1. CASE a = p
        BY <1>5, <2>3, <3>1, <4>1
      <4>2. CASE a = g
        BY <1>5, <2>3, <3>1, <4>2
      <4>3. CASE a # p /\ a # g
        BY <1>5, <3>1, <4>3
      <4> QED BY <4>1, <4>2, <4>3
    <3> HIDE DEF rest, left, last, waits, values, phases
    <3> QED BY <1>3, <1>6, <3>1, <3>2
  <2>5. Front(pendGet) = RemoveFirst(pendGet, g)
    BY <1>1, <1>3, <2>2, EraseLast
  <2>6. ASSUME pendGet' = Front(pendGet)
        PROVE  (getHead /\ pendGet' # <<>>) = HeadAfter(pendGet, getHead, g)
    <3>1. Len(pendGet') = Len(pendGet) - 1 /\ pendGet' \in Seq(Getters) /\ g = pendGet[Len(pendGet)]
      <4>1. Len(Front(pendGet)) = Len(pendGet) - 1 /\ Front(pendGet) \in Seq(Getters)
        BY <1>1, <1>3, BackFacts
      <4> QED BY <2>2, <2>6, <4>1 DEF Last
    <3>2. CASE Len(pendGet) = 1
      <4>1. pendGet' = <<>> /\ pendGet[1] = g /\ ~(Len(pendGet) > 1)
        BY <3>1, <3>2
      <4> QED BY <4>1 DEF HeadAfter
    <3>3. CASE Len(pendGet) > 1
      <4>1. pendGet' # <<>>
        BY <1>1, <3>1, <3>3
      <4>2. pendGet[1] # g
        BY <1>1, <3>1, <3>3 DEF IsInjective
      <4> QED BY <1>1, <4>1, <4>2 DEF HeadAfter
    <3>4. Len(pendGet) = 1 \/ Len(pendGet) > 1
      <4>1. \A k \in Nat : k > 0 => k = 1 \/ k > 1
        OBVIOUS
      <4>2. Len(pendGet) \in Nat /\ Len(pendGet) > 0
        BY <1>1, <2>1
      <4> QED BY <4>1, <4>2
    <3> QED BY <3>2, <3>3, <3>4
  <2>7. [value EXCEPT ![g] = v, ![p] = NoValue]
          = [a \in GetsAndPuts |-> IF a = p THEN NoValue ELSE IF a = g THEN v ELSE value[a]]
    BY <1>1, <2>3
  <2>8. [phase EXCEPT ![g] = "done", ![p] = "idle"]
          = [a \in GetsAndPuts |-> IF a = p THEN "idle" ELSE IF a = g THEN "done" ELSE phase[a]]
    BY <1>1, <2>3 DEF TypeOK
  <2>9. PollPut(p, v) <=>
          /\ pendGet' = Front(pendGet) /\ getHead' = HeadAfter(pendGet, getHead, g)
          /\ pendPut' = pendPut /\ putHead' = putHead
          /\ value' = [value EXCEPT ![g] = v, ![p] = NoValue]
          /\ phase' = [phase EXCEPT ![g] = "done", ![p] = "idle"]
          /\ flying' = flying \cup {v} /\ items' = items
    BY <1>3, <2>2, <2>5 DEF PollPut, EraseGet
  <2> QED BY <2>4, <2>6, <2>7, <2>8, <2>9
<1>7. CASE pendGet = <<>>
  <2>1. rest = <<>> /\ left = items /\ last = {} /\ (waits <=> full) /\ (full <=> Full)
    <3>1. rest = <<>> /\ left = items
      BY <1>2, <1>4, <1>7
    <3> QED BY <3>1 DEF full, Full
  <2>2. ~getHead
    BY <1>7 DEF ListsInv
  <2>3. CASE Full
    <3>1. /\ values = [value EXCEPT ![p] = v]
          /\ phases = [phase EXCEPT ![p] = "waiting"]
      BY <1>1, <1>5, <2>1, <2>3 DEF TypeOK
    <3> HIDE DEF rest, left, last, waits, values, phases
    <3>2. Put2(p, v) <=>
            /\ pendGet' = <<>> /\ getHead' = FALSE /\ items' = items
            /\ value' = [value EXCEPT ![p] = v] /\ phase' = [phase EXCEPT ![p] = "waiting"]
            /\ pendPut' = Append(pendPut, p) /\ flying' = flying /\ putHead' = putHead
      BY <1>6, <2>1, <2>2, <2>3, <3>1
    <3>3. PollPut(p, v) <=>
            /\ pendPut' = Append(pendPut, p)
            /\ value' = [value EXCEPT ![p] = v] /\ phase' = [phase EXCEPT ![p] = "waiting"]
            /\ pendGet' = pendGet /\ getHead' = getHead /\ putHead' = putHead
            /\ items' = items /\ flying' = flying
      BY <1>7, <2>3 DEF PollPut
    <3> QED BY <1>1, <1>7, <2>2, <3>2, <3>3
  <2>4. CASE ~Full
    <3>1. /\ values = [value EXCEPT ![p] = NoValue]
          /\ phases = [phase EXCEPT ![p] = "idle"]
      BY <1>1, <1>5, <2>1, <2>4 DEF TypeOK
    <3> HIDE DEF rest, left, last, waits, values, phases
    <3>2. Put2(p, v) <=>
            /\ pendGet' = <<>> /\ getHead' = FALSE /\ items' = Append(items, v)
            /\ value' = [value EXCEPT ![p] = NoValue] /\ phase' = [phase EXCEPT ![p] = "idle"]
            /\ pendPut' = pendPut /\ flying' = flying \cup {v} /\ putHead' = putHead
      BY <1>6, <2>1, <2>2, <2>4, <3>1
    <3>3. PollPut(p, v) <=>
            /\ items' = Append(items, v)
            /\ value' = [value EXCEPT ![p] = NoValue] /\ phase' = [phase EXCEPT ![p] = "idle"]
            /\ flying' = flying \cup {v} /\ pendGet' = pendGet /\ pendPut' = pendPut
            /\ getHead' = getHead /\ putHead' = putHead
      BY <1>7, <2>4 DEF PollPut, listVars
    <3> QED BY <1>1, <1>7, <2>2, <3>2, <3>3
  <2> QED BY <2>3, <2>4
<1> QED BY <1>3, <1>7

-----------------------------------------------------------------------------
(* What the values of a Put that may be polled are.                          *)
LEMMA NewValue ==
    ASSUME QueueUse, NEW v \in Values, v \notin flying \cup Pending
    PROVE  v \in Values \ flying /\ \A a \in GetsAndPuts : value[a] # v
BY DEF Pending, QueueUse

LEMMA OldValue ==
    ASSUME QueueUse, QueueInv, NEW p \in GetsAndPuts, p \notin Getters, phase[p] = "again"
    PROVE  /\ p \in Putters /\ value[p] \in Values \ flying
           /\ \A a \in GetsAndPuts : value[a] = value[p] => a = p
<1>1. p \in Putters /\ value[p] \in Values \ flying
  BY DEF QueueInv, ValueInv, GetsAndPuts
<1> QED BY <1>1 DEF QueueInv, ValueInv, QueueUse

LEMMA QueueStep ==
    ASSUME QueueUse, QueueInv, NoMissedMatch, [Next]_vars
    PROVE  QueueInv' /\ NoMissedMatch'
<1>1. CASE UNCHANGED vars
  BY <1>1 DEF vars, listVars, QueueInv, TypeOK, ListsInv, ValueInv, WithinLimit, NoMissedMatch
<1>2. ASSUME NEW p \in Putters, NEW v \in Values, StartPut(p, v) PROVE QueueInv' /\ NoMissedMatch'
  BY <1>2, NewValue, PutsAgree, Put2Keeps DEF StartPut
<1>3. CASE Reset
  BY <1>3, ResetKeeps
<1>4. ASSUME NEW g \in Getters, StartGet(g) PROVE QueueInv' /\ NoMissedMatch'
  BY <1>4, PollGetKeeps DEF StartGet
<1>5. ASSUME NEW a \in GetsAndPuts, Return(a) PROVE QueueInv' /\ NoMissedMatch'
  BY <1>5, ReturnKeeps
<1>6. ASSUME NEW a \in GetsAndPuts, Cancel(a) PROVE QueueInv' /\ NoMissedMatch'
  BY <1>6, CancelKeeps
<1>7. ASSUME NEW a \in GetsAndPuts, PollAgain(a) PROVE QueueInv' /\ NoMissedMatch'
  <2>1. CASE a \in Getters
    BY <1>7, <2>1, PollGetKeeps DEF PollAgain
  <2>2. CASE a \notin Getters
    <3>1. PollPut(a, value[a]) /\ phase[a] = "again"
      BY <1>7, <2>2 DEF PollAgain
    <3> QED BY <2>2, <3>1, OldValue, PutsAgree, Put2Keeps
  <2> QED BY <2>1, <2>2
<1> QED BY <1>1, <1>2, <1>3, <1>4, <1>5, <1>6, <1>7 DEF Next, Puts

LEMMA Queue2Step == ASSUME QueueUse, QueueInv, [Next2]_vars PROVE QueueInv'
<1>1. CASE UNCHANGED vars
  BY <1>1 DEF vars, listVars, QueueInv, TypeOK, ListsInv, ValueInv, WithinLimit
<1>2. ASSUME NEW p \in Putters, NEW v \in Values, StartPut2(p, v) PROVE QueueInv'
  BY <1>2, NewValue, Put2Keeps DEF StartPut2
<1>3. CASE Direct
  BY <1>3, DirectKeeps
<1>4. CASE Reset2
  BY <1>4, ResetKeeps DEF Reset2
<1>5. ASSUME NEW g \in Getters, StartGet2(g) PROVE QueueInv'
  BY <1>5, PollGetKeeps DEF StartGet2, Get2
<1>6. ASSUME NEW g \in Getters, CancelGet2(g) PROVE QueueInv'
  BY <1>6, CancelKeeps DEF CancelGet2, GetsAndPuts
<1>7. ASSUME NEW p \in Putters, CancelPut2(p) PROVE QueueInv'
  BY <1>7, CancelKeeps DEF CancelPut2, GetsAndPuts
<1>8. ASSUME NEW a \in GetsAndPuts, Return(a) PROVE QueueInv'
  BY <1>8, ReturnKeeps
<1>9. ASSUME NEW a \in GetsAndPuts, PollAgain2(a) PROVE QueueInv'
  <2>1. CASE a \in Getters
    BY <1>9, <2>1, PollGetKeeps DEF PollAgain2, Get2
  <2>2. CASE a \notin Getters
    <3>1. Put2(a, value[a]) /\ phase[a] = "again"
      BY <1>9, <2>2 DEF PollAgain2
    <3> QED BY <2>2, <3>1, OldValue, Put2Keeps
  <2> QED BY <2>1, <2>2
<1> QED BY <1>1, <1>2, <1>3, <1>4, <1>5, <1>6, <1>7, <1>8, <1>9 DEF Next2, Puts2

(* A step of Queue2 that is not one of its owner's, where nobody waits for   *)
(* what is there, is a step of Queue.                                        *)
LEMMA Queue2StepActs ==
    ASSUME QueueUse, QueueInv, Next2
    PROVE  (Direct \/ ~NoMissedMatch \/ Next) /\ (Puts2 => NoMissedMatch')
<1>1. ASSUME Puts2 PROVE NoMissedMatch' /\ (NoMissedMatch => Next)
  <2>1. PICK p \in Putters, v \in Values : StartPut2(p, v)
    BY <1>1 DEF Puts2
  <2>2. NoMissedMatch'
    BY <2>1, NewValue, Put2Keeps DEF StartPut2
  <2>3. ASSUME NoMissedMatch PROVE StartPut(p, v)
    BY <2>1, <2>3, PutsAgree DEF StartPut2, StartPut
  <2> QED BY <2>2, <2>3 DEF Next, Puts
<1>2. ASSUME NoMissedMatch, ~Puts2, ~Direct PROVE Next
  <2>1. CASE Reset2
    BY <2>1 DEF Reset2, Next
  <2>2. ASSUME NEW g \in Getters, StartGet2(g) \/ CancelGet2(g) PROVE Next
    BY <2>2 DEF StartGet2, Get2, StartGet, CancelGet2, Next, GetsAndPuts
  <2>3. ASSUME NEW p \in Putters, CancelPut2(p) PROVE Next
    BY <2>3 DEF CancelPut2, Next, GetsAndPuts
  <2>4. ASSUME NEW a \in GetsAndPuts, Return(a) \/ PollAgain2(a) PROVE Next
    <3>1. CASE Return(a)
      BY <3>1 DEF Next
    <3>2. CASE PollAgain2(a)
      <4>1. PollAgain(a)
        BY <1>2, <3>2, PutsAgree DEF PollAgain2, PollAgain, Get2, GetsAndPuts
      <4> QED BY <4>1 DEF Next
    <3> QED BY <2>4, <3>1, <3>2
  <2> QED BY <1>2, <2>1, <2>2, <2>3, <2>4 DEF Next2
<1> QED BY <1>1, <1>2

(* What the invariant says of values, lists and limit.                       *)
LEMMA QueueInvMeans == ASSUME QueueUse, QueueInv PROVE FlyingExact /\ ListsExact /\ WithinLimit
<1> USE DEF QueueInv
<1>1. ListsExact
  <2>1. Range(pendGet) \subseteq Getters /\ Range(pendPut) \subseteq Putters
    BY RangeFacts DEF TypeOK
  <2> QED BY <2>1 DEF ListsInv, ListsExact, GetsAndPuts
<1> DEFINE done == {g \in Getters : phase[g] = "done"}
           results == {value[g] : g \in done}
<1>2. flying = Range(items) \cup results
  BY DEF ValueInv
<1>3. Range(items) \cap results = {}
  BY DEF ValueInv
<1>4. IsFiniteSet(done)
  BY FS_Subset DEF QueueUse
<1>5. IsFiniteSet(results) /\ Cardinality(results) = Cardinality(done)
  <2> DEFINE f == [g \in done |-> value[g]]
  <2>1. f \in Bijection(done, results)
    <3>1. \A g, h \in done : value[g] = value[h] => g = h
      BY DEF ValueInv, TypeOK, QueueUse, GetsAndPuts
    <3>2. f \in [done -> results] /\ \A g, h \in done : f[g] = f[h] => g = h
      BY <3>1
    <3>3. \A x \in results : \E g \in done : f[g] = x
      OBVIOUS
    <3> QED BY <3>2, <3>3 DEF Bijection, Injection, Surjection, IsInjective
  <2>2. ExistsBijection(done, results)
    BY <2>1 DEF ExistsBijection
  <2> QED BY <1>4, <2>2, FS_Bijection
<1>6. IsFiniteSet(Range(items)) /\ Cardinality(Range(items)) = Len(items)
  BY DistinctLength DEF TypeOK, ValueInv
<1>7. Cardinality(flying) = Len(items) + Cardinality(done)
  <2>1. Cardinality(Range(items) \cup results)
          = Cardinality(Range(items)) + Cardinality(results) - Cardinality(Range(items) \cap results)
    BY <1>5, <1>6, FS_Union
  <2>2. Cardinality(Range(items) \cap results) = 0
    BY <1>3, FS_EmptySet
  <2>3. Len(items) \in Nat /\ Cardinality(done) \in Nat
    BY <1>4, FS_CardinalityType DEF TypeOK
  <2> QED BY <1>2, <1>5, <1>6, <2>1, <2>2, <2>3
<1> QED BY <1>1, <1>2, <1>7 DEF FlyingExact

-----------------------------------------------------------------------------
(* Queue: no value is lost or repeated between a Put and a Get, a list holds *)
(* exactly those that wait, the limit holds and nobody waits for what is     *)
(* there (Get::async_poll, Put::async_poll, async_finalize, Queue::reset).   *)
THEOREM QueueSafety ==
    ASSUME QueueUse
    PROVE  Spec => [](FlyingExact /\ ListsExact /\ WithinLimit /\ NoMissedMatch)
<1>1. Init => QueueInv /\ NoMissedMatch
  BY QueueInit
<1>2. QueueInv /\ NoMissedMatch /\ [Next]_vars => QueueInv' /\ NoMissedMatch'
  BY QueueStep
<1>3. QueueInv => FlyingExact /\ ListsExact /\ WithinLimit
  BY QueueInvMeans
<1> QED BY <1>1, <1>2, <1>3, PTL DEF Spec

(* Queue2: the same, but for waiting Gets that the owner of the queue has    *)
(* overtaken with emplace().                                                 *)
THEOREM Queue2Safety ==
    ASSUME QueueUse
    PROVE  Init /\ [][Next2]_vars => [](FlyingExact /\ ListsExact /\ WithinLimit)
<1>1. Init => QueueInv
  BY QueueInit
<1>2. QueueInv /\ [Next2]_vars => QueueInv'
  BY Queue2Step
<1>3. QueueInv => FlyingExact /\ ListsExact /\ WithinLimit
  BY QueueInvMeans
<1> QED BY <1>1, <1>2, <1>3, PTL

(* Queue2 takes the steps of Queue and no others as long as its owner keeps  *)
(* its hands off it, and a Put leaves no Get waiting (Queue2::put, ::get).   *)
THEOREM Queue2Refines ==
    ASSUME QueueUse
    PROVE  Init /\ [][Next2]_vars => ActsAsQueue
<1>1. Init => QueueInv
  BY QueueInit
<1>2. QueueInv /\ [Next2]_vars => QueueInv'
  BY Queue2Step
<1>3. QueueInv /\ [Next2]_vars => /\ [Direct \/ ~NoMissedMatch \/ Next]_vars
                                  /\ [Puts2 => NoMissedMatch']_vars
  BY Queue2StepActs
<1> QED BY <1>1, <1>2, <1>3, PTL DEF ActsAsQueue
=============================================================================
