----------------------------- MODULE ListFacts ------------------------------
(* What the operations on lists without repetitions do: those of LinkedList  *)
(* and LinkedListThreadSafe (linkedlist.hpp), as the models of their users   *)
(* have them. The proofs of the components cite these lemmas.                *)
EXTENDS Naturals, Sequences, FiniteSets, Functions, SequencesExt, FiniteSetTheorems, TLAPS

(* LinkedListThreadSafe::push adds one entry and keeps the others; a list    *)
(* without repetitions stays so when the entry is new.                       *)
LEMMA PushFacts ==
    ASSUME NEW S, NEW s \in Seq(S), NEW t \in S
    PROVE  /\ <<t>> \o s \in Seq(S)
           /\ Range(<<t>> \o s) = {t} \cup Range(s)
           /\ IsInjective(s) /\ t \notin Range(s) => IsInjective(<<t>> \o s)
<1> DEFINE p == <<t>> \o s
<1>1. p \in Seq(S) /\ Len(p) = Len(s) + 1 /\ p[1] = t
      /\ \A i \in 1..Len(s) : p[i + 1] = s[i]
  OBVIOUS
<1>2. DOMAIN p = 1..(Len(s) + 1) /\ DOMAIN s = 1..Len(s) /\ Len(s) \in Nat
  BY <1>1
<1>3. \A i \in DOMAIN p : i = 1 \/ (i - 1 \in DOMAIN s /\ p[i] = s[i - 1])
  BY <1>1, <1>2
<1>4. Range(p) = {t} \cup Range(s)
  <2>1. \A x \in Range(p) : x \in {t} \cup Range(s)
    BY <1>1, <1>3 DEF Range
  <2>2. \A x \in Range(s) : x \in Range(p)
    <3> SUFFICES ASSUME NEW i \in DOMAIN s PROVE s[i] \in Range(p)
      BY DEF Range
    <3>1. i + 1 \in DOMAIN p /\ p[i + 1] = s[i]
      BY <1>1, <1>2
    <3> QED BY <3>1 DEF Range
  <2>3. t \in Range(p)
    BY <1>1, <1>2 DEF Range
  <2> QED BY <2>1, <2>2, <2>3
<1>5. ASSUME IsInjective(s), t \notin Range(s) PROVE IsInjective(p)
  <2> SUFFICES ASSUME NEW a \in DOMAIN p, NEW b \in DOMAIN p, p[a] = p[b]
               PROVE  a = b
    BY DEF IsInjective
  <2>1. \A i \in DOMAIN s : s[i] # t
    BY <1>5 DEF Range
  <2>2. CASE a = 1 \/ b = 1
    BY <2>1, <2>2, <1>1, <1>3
  <2>3. CASE a # 1 /\ b # 1
    <3>1. a - 1 \in DOMAIN s /\ b - 1 \in DOMAIN s /\ s[a - 1] = s[b - 1]
      BY <1>3, <2>3
    <3>2. a - 1 = b - 1
      BY <3>1, <1>5 DEF IsInjective
    <3>3. a \in Nat /\ b \in Nat
      BY <1>2
    <3> QED BY <3>2, <3>3
  <2> QED BY <2>2, <2>3
<1> QED BY <1>1, <1>4, <1>5

(* LinkedListThreadSafe::pop on a list without repetitions removes its head  *)
(* and nothing else.                                                         *)
LEMMA PopFacts ==
    ASSUME NEW S, NEW s \in Seq(S), s # <<>>, IsInjective(s)
    PROVE  /\ Head(s) \in S
           /\ Tail(s) \in Seq(S)
           /\ Head(s) \in Range(s)
           /\ Range(Tail(s)) = Range(s) \ {Head(s)}
           /\ IsInjective(Tail(s))
<1> DEFINE q == Tail(s)
<1>1. q \in Seq(S) /\ Len(q) = Len(s) - 1 /\ Head(s) = s[1]
      /\ \A i \in 1..Len(q) : q[i] = s[i + 1]
  OBVIOUS
<1>2. DOMAIN s = 1..Len(s) /\ Len(s) \in Nat /\ Len(s) > 0 /\ DOMAIN q = 1..(Len(s) - 1)
  BY <1>1
<1>3. \A i \in DOMAIN q : i + 1 \in DOMAIN s /\ i + 1 # 1 /\ q[i] = s[i + 1]
  BY <1>1, <1>2
<1>4. 1 \in DOMAIN s /\ s[1] \in S
  BY <1>2
<1>5. \A x \in Range(q) : x \in Range(s) /\ x # s[1]
  BY <1>3, <1>4 DEF Range, IsInjective
<1>6. \A i \in DOMAIN s : i = 1 \/ (i - 1 \in DOMAIN q /\ q[i - 1] = s[i])
  BY <1>1, <1>2
<1>7. \A x \in Range(s) : x = s[1] \/ x \in Range(q)
  BY <1>6 DEF Range
<1>8. IsInjective(q)
  <2> SUFFICES ASSUME NEW a \in DOMAIN q, NEW b \in DOMAIN q, q[a] = q[b]
               PROVE  a = b
    BY DEF IsInjective
  <2>1. a + 1 = b + 1
    BY <1>3 DEF IsInjective
  <2>2. a \in Nat /\ b \in Nat
    BY <1>2
  <2> QED BY <2>1, <2>2
<1>9. s[1] \in Range(s)
  BY <1>4 DEF Range
<1> QED BY <1>1, <1>4, <1>5, <1>7, <1>8, <1>9

(* LinkedList::push_back adds one entry and keeps the others.                *)
LEMMA AppendFacts ==
    ASSUME NEW S, NEW s \in Seq(S), NEW t \in S
    PROVE  /\ Append(s, t) \in Seq(S)
           /\ Append(s, t) # <<>>
           /\ Len(Append(s, t)) = Len(s) + 1
           /\ Range(Append(s, t)) = Range(s) \cup {t}
           /\ IsInjective(s) /\ t \notin Range(s) => IsInjective(Append(s, t))
<1> DEFINE p == Append(s, t)
<1>1. p \in Seq(S) /\ p # <<>> /\ Len(p) = Len(s) + 1 /\ p[Len(s) + 1] = t
      /\ \A i \in 1..Len(s) : p[i] = s[i]
  OBVIOUS
<1>2. DOMAIN p = 1..(Len(s) + 1) /\ DOMAIN s = 1..Len(s) /\ Len(s) \in Nat
  BY <1>1
<1>3. \A i \in DOMAIN p : i = Len(s) + 1 \/ (i \in DOMAIN s /\ p[i] = s[i])
  BY <1>1, <1>2
<1>4. \A x \in Range(p) : x \in Range(s) \cup {t}
  BY <1>1, <1>3 DEF Range
<1>5. \A x \in Range(s) \cup {t} : x \in Range(p)
  BY <1>1, <1>2 DEF Range
<1>6. ASSUME IsInjective(s), t \notin Range(s) PROVE IsInjective(p)
  BY <1>1, <1>2, <1>3, <1>6 DEF IsInjective, Range
<1> QED BY <1>1, <1>4, <1>5, <1>6

(* Taking the last entry of a list without repetitions: pop_back.            *)
LEMMA BackFacts ==
    ASSUME NEW S, NEW s \in Seq(S), s # <<>>, IsInjective(s)
    PROVE  /\ Last(s) \in S
           /\ Front(s) \in Seq(S) /\ Len(Front(s)) = Len(s) - 1
           /\ Last(s) \in Range(s)
           /\ Range(Front(s)) = Range(s) \ {Last(s)}
           /\ IsInjective(Front(s))
<1> DEFINE q == Front(s)
<1>1. Len(s) \in Nat /\ Len(s) > 0 /\ DOMAIN s = 1..Len(s)
  OBVIOUS
<1>2. q \in Seq(S) /\ Len(q) = Len(s) - 1 /\ \A i \in 1..Len(q) : q[i] = s[i]
  BY <1>1 DEF Front
<1>3. DOMAIN q = 1..(Len(s) - 1)
  BY <1>1, <1>2
<1>4. Last(s) = s[Len(s)] /\ Len(s) \in DOMAIN s /\ Last(s) \in S /\ Last(s) \in Range(s)
  BY <1>1 DEF Last, Range
<1>5. \A i \in DOMAIN q : i \in DOMAIN s /\ i # Len(s) /\ q[i] = s[i]
  BY <1>1, <1>2, <1>3
<1>6. \A x \in Range(q) : x \in Range(s) /\ x # Last(s)
  BY <1>4, <1>5 DEF Range, IsInjective
<1>7. \A i \in DOMAIN s : i = Len(s) \/ i \in DOMAIN q
  BY <1>1, <1>3
<1>8. \A x \in Range(s) : x = Last(s) \/ x \in Range(q)
  BY <1>4, <1>5, <1>7 DEF Range
<1>9. IsInjective(q)
  BY <1>5 DEF IsInjective
<1> QED BY <1>2, <1>4, <1>6, <1>8, <1>9

(* LinkedList::erase of an entry of a list without repetitions removes it    *)
(* and nothing else, and is nothing for an entry that is not there.          *)
LEMMA EraseFacts ==
    ASSUME NEW S, NEW s \in Seq(S), NEW x, IsInjective(s)
    PROVE  /\ RemoveFirst(s, x) \in Seq(S)
           /\ Range(RemoveFirst(s, x)) = Range(s) \ {x}
           /\ IsInjective(RemoveFirst(s, x))
<1>1. Len(s) \in Nat /\ DOMAIN s = 1..Len(s)
  OBVIOUS
<1>2. CASE x \notin Range(s)
  <2>1. RemoveFirst(s, x) = s
    BY <1>1, <1>2 DEF RemoveFirst, Range
  <2> QED BY <1>2, <2>1
<1>3. CASE x \in Range(s)
  <2>1. PICK k \in 1..Len(s) : s[k] = x
    BY <1>1, <1>3 DEF Range
  <2>2. {i \in 1..Len(s) : s[i] = x} = {k}
    BY <1>1, <2>1 DEF IsInjective
  <2>3. Min({k}) = k
    BY <1>1 DEF Min
  <2>4. SelectInSeq(s, LAMBDA v : v = x) = k
    BY <2>2, <2>3 DEF SelectInSeq
  <2> DEFINE a == SubSeq(s, 1, k - 1)
             b == SubSeq(s, k + 1, Len(s))
             r == a \o b
  <2>5. RemoveFirst(s, x) = r
    BY <2>1, <2>4 DEF RemoveFirst, RemoveAt
  <2>6. a \in Seq(S) /\ Len(a) = k - 1 /\ \A i \in 1..(k - 1) : a[i] = s[i]
    BY <1>1, <2>1
  <2>7. b \in Seq(S) /\ Len(b) = Len(s) - k /\ \A i \in 1..(Len(s) - k) : b[i] = s[k + i]
    BY <1>1, <2>1
  <2> HIDE DEF a, b
  <2>8. r \in Seq(S) /\ Len(r) = Len(s) - 1
        /\ \A i \in 1..(Len(s) - 1) : r[i] = IF i < k THEN s[i] ELSE s[i + 1]
    <3>1. r \in Seq(S) /\ Len(r) = Len(s) - 1
      <4>1. a \in Seq(S) /\ b \in Seq(S)
        BY <2>6, <2>7
      <4>2. r \in Seq(S) /\ Len(r) = Len(a) + Len(b)
        BY <4>1
      <4> QED BY <1>1, <2>1, <2>6, <2>7, <4>2
    <3>2. ASSUME NEW i \in 1..(Len(s) - 1), i < k PROVE r[i] = s[i]
      BY <1>1, <2>1, <2>6, <2>7, <3>2
    <3>3. ASSUME NEW i \in 1..(Len(s) - 1), ~(i < k) PROVE r[i] = s[i + 1]
      <4>1. r[i] = b[i - (k - 1)] /\ i - (k - 1) \in 1..(Len(s) - k)
        BY <1>1, <2>1, <2>6, <2>7, <3>3
      <4>2. k + (i - (k - 1)) = i + 1
        BY <1>1, <2>1, <3>3
      <4> QED BY <2>7, <4>1, <4>2
    <3> QED BY <3>1, <3>2, <3>3
  <2>9. DOMAIN r = 1..(Len(s) - 1)
    BY <2>8
  <2> HIDE DEF r
  <2>10. \A i \in DOMAIN r : \E j \in DOMAIN s : j # k /\ r[i] = s[j]
                            /\ j = (IF i < k THEN i ELSE i + 1)
    BY <1>1, <2>1, <2>8, <2>9
  <2>11. \A j \in DOMAIN s : j # k => \E i \in DOMAIN r : r[i] = s[j]
    <3> SUFFICES ASSUME NEW j \in DOMAIN s, j # k
                 PROVE  \E i \in DOMAIN r : r[i] = s[j]
      OBVIOUS
    <3>1. CASE j < k
      <4>1. j \in DOMAIN r /\ r[j] = s[j]
        BY <1>1, <2>1, <2>8, <2>9, <3>1
      <4> QED BY <4>1
    <3>2. CASE j > k
      <4>1. j - 1 \in DOMAIN r /\ r[j - 1] = s[j]
        BY <1>1, <2>1, <2>8, <2>9, <3>2
      <4> QED BY <4>1
    <3> QED BY <1>1, <2>1, <3>1, <3>2
  <2>12. \A y \in Range(r) : y \in Range(s) \ {x}
    BY <1>1, <2>1, <2>10 DEF Range, IsInjective
  <2>13. \A y \in Range(s) \ {x} : y \in Range(r)
    BY <2>1, <2>11 DEF Range
  <2>14. IsInjective(r)
    <3> SUFFICES ASSUME NEW i \in DOMAIN r, NEW j \in DOMAIN r, r[i] = r[j]
                 PROVE  i = j
      BY DEF IsInjective
    <3>1. (IF i < k THEN i ELSE i + 1) = (IF j < k THEN j ELSE j + 1)
      BY <2>10 DEF IsInjective
    <3> QED BY <1>1, <2>1, <2>9, <3>1
  <2> QED BY <2>5, <2>8, <2>12, <2>13, <2>14
<1> QED BY <1>2, <1>3

(* Two parts of a list without repetitions have no member in common.         *)
LEMMA SplitRange ==
    ASSUME NEW f, IsInjective(f), NEW A, NEW B, A \subseteq DOMAIN f, B \subseteq DOMAIN f,
           \A k \in DOMAIN f : ~(k \in A <=> k \in B)
    PROVE  {f[k] : k \in A} = Range(f) \ {f[k] : k \in B}
<1>1. ASSUME NEW k \in A PROVE f[k] \in Range(f) \ {f[i] : i \in B}
  BY DEF Range, IsInjective
<1>2. ASSUME NEW x \in Range(f), \A k \in B : x # f[k] PROVE \E k \in A : x = f[k]
  <2>1. PICK k \in DOMAIN f : x = f[k]
    BY DEF Range
  <2> QED BY <1>2, <2>1
<1> QED BY <1>1, <1>2

(* A list cut off behind or before a place.                                  *)
LEMMA PrefixFacts ==
    ASSUME NEW S, NEW s \in Seq(S), NEW m \in 0..Len(s)
    PROVE  /\ SubSeq(s, 1, m) \in Seq(S) /\ Len(SubSeq(s, 1, m)) = m
           /\ Range(SubSeq(s, 1, m)) = {s[k] : k \in 1..m}
           /\ IsInjective(s) => IsInjective(SubSeq(s, 1, m))
<1> DEFINE q == SubSeq(s, 1, m)
<1>1. Len(s) \in Nat /\ DOMAIN s = 1..Len(s) /\ 1..m \subseteq DOMAIN s
  OBVIOUS
<1>2. q \in Seq(S) /\ Len(q) = m /\ DOMAIN q = 1..m /\ \A i \in 1..m : q[i] = s[i]
  BY <1>1
<1> HIDE DEF q
<1>3. Range(q) = {s[k] : k \in 1..m}
  BY <1>2 DEF Range
<1>4. IsInjective(s) => IsInjective(q)
  BY <1>1, <1>2 DEF IsInjective
<1>5. QED BY <1>2, <1>3, <1>4 DEF q

LEMMA SuffixFacts ==
    ASSUME NEW S, NEW s \in Seq(S), NEW n \in 0..Len(s)
    PROVE  /\ SubSeq(s, n + 1, Len(s)) \in Seq(S) /\ Len(SubSeq(s, n + 1, Len(s))) = Len(s) - n
           /\ Range(SubSeq(s, n + 1, Len(s))) = {s[k] : k \in (n + 1)..Len(s)}
           /\ IsInjective(s) => IsInjective(SubSeq(s, n + 1, Len(s)))
<1> DEFINE q == SubSeq(s, n + 1, Len(s))
<1>1. Len(s) \in Nat /\ n \in Nat /\ DOMAIN s = 1..Len(s) /\ (n + 1)..Len(s) \subseteq DOMAIN s
  OBVIOUS
<1>2. q \in Seq(S) /\ Len(q) = Len(s) - n /\ DOMAIN q = 1..(Len(s) - n)
  <2>1. q \in Seq(S)
    BY <1>1
  <2>2. Len(q) = Len(s) - n
    <3>1. Len(q) = IF n + 1 <= Len(s) THEN Len(s) - (n + 1) + 1 ELSE 0
      BY <1>1
    <3>2. \A l, k \in Nat : k <= l => (IF k + 1 <= l THEN l - (k + 1) + 1 ELSE 0) = l - k
      OBVIOUS
    <3>3. n <= Len(s)
      OBVIOUS
    <3> HIDE DEF q
    <3> QED BY <1>1, <3>1, <3>2, <3>3
  <2> QED BY <2>1, <2>2
<1>3. \A i \in 1..(Len(s) - n) : q[i] = s[n + i]
  BY <1>1
<1> HIDE DEF q
<1>4. \A i \in 1..(Len(s) - n) : n + i \in (n + 1)..Len(s) /\ n + i \in DOMAIN s
  BY <1>1
<1>5. \A k \in (n + 1)..Len(s) : k - n \in 1..(Len(s) - n) /\ n + (k - n) = k
  BY <1>1
<1>6. Range(q) = {s[k] : k \in (n + 1)..Len(s)}
  <2>1. \A x \in Range(q) : x \in {s[k] : k \in (n + 1)..Len(s)}
    BY <1>2, <1>3, <1>4 DEF Range
  <2>2. ASSUME NEW k \in (n + 1)..Len(s) PROVE s[k] \in Range(q)
    <3>1. k - n \in DOMAIN q /\ q[k - n] = s[k]
      BY <1>2, <1>3, <1>5
    <3> QED BY <3>1 DEF Range
  <2> QED BY <2>1, <2>2
<1>7. ASSUME IsInjective(s) PROVE IsInjective(q)
  <2> SUFFICES ASSUME NEW a \in DOMAIN q, NEW b \in DOMAIN q, q[a] = q[b]
               PROVE  a = b
    BY DEF IsInjective
  <2>1. n + a = n + b
    BY <1>2, <1>3, <1>4, <1>7 DEF IsInjective
  <2> QED BY <1>1, <1>2, <2>1
<1>8. QED BY <1>2, <1>6, <1>7 DEF q

(* Erasing the last entry is taking it.                                      *)
LEMMA EraseLast ==
    ASSUME NEW S, NEW s \in Seq(S), s # <<>>, IsInjective(s)
    PROVE  RemoveFirst(s, Last(s)) = Front(s)
<1>1. PICK k \in Nat : k = Len(s)
  OBVIOUS
<1>2. k > 0 /\ DOMAIN s = 1..k
  BY <1>1
<1>3. Last(s) = s[k] /\ k \in 1..Len(s)
  BY <1>1, <1>2 DEF Last
<1>4. {i \in 1..Len(s) : s[i] = s[k]} = {k}
  BY <1>1, <1>2 DEF IsInjective
<1>5. SelectInSeq(s, LAMBDA v : v = s[k]) = k
  <2>1. Min({k}) = k
    BY <1>1 DEF Min
  <2> QED BY <1>4, <2>1 DEF SelectInSeq
<1>6. RemoveFirst(s, s[k]) = SubSeq(s, 1, k - 1) \o SubSeq(s, k + 1, Len(s))
  BY <1>3, <1>5 DEF RemoveFirst, RemoveAt
<1>7. SubSeq(s, k + 1, Len(s)) = <<>>
  BY <1>1
<1>8. SubSeq(s, 1, k - 1) \in Seq(S)
  BY <1>1, <1>2
<1>9. RemoveFirst(s, s[k]) = SubSeq(s, 1, k - 1)
  <2>1. \A t \in Seq(S) : t \o <<>> = t
    OBVIOUS
  <2> QED BY <1>6, <1>7, <1>8, <2>1
<1> QED BY <1>1, <1>3, <1>9 DEF Front

(* Putting an entry into the second place, as a yield does.                  *)
LEMMA SecondFacts ==
    ASSUME NEW S, NEW s \in Seq(S), s # <<>>, IsInjective(s), NEW t \in S, t \notin Range(s)
    PROVE  /\ <<Head(s), t>> \o Tail(s) \in Seq(S)
           /\ Range(<<Head(s), t>> \o Tail(s)) = Range(s) \cup {t}
           /\ IsInjective(<<Head(s), t>> \o Tail(s))
<1>1. /\ Head(s) \in S /\ Tail(s) \in Seq(S) /\ Head(s) \in Range(s)
      /\ Range(Tail(s)) = Range(s) \ {Head(s)} /\ IsInjective(Tail(s))
  BY PopFacts
<1>2. /\ <<t>> \o Tail(s) \in Seq(S) /\ IsInjective(<<t>> \o Tail(s))
      /\ Range(<<t>> \o Tail(s)) = {t} \cup Range(Tail(s))
  BY <1>1, PushFacts
<1>3. PICK h \in S, q \in Seq(S), w \in Seq(S) : h = Head(s) /\ q = Tail(s) /\ w = <<t>> \o Tail(s)
  BY <1>1, <1>2
<1>4. <<h, t>> \o q = <<h>> \o w
  <2>1. Len(q) \in Nat /\ Len(<<h, t>>) = 2 /\ <<h, t>> \in Seq(S) /\ <<h>> \in Seq(S)
    OBVIOUS
  <2>2. w \in Seq(S) /\ Len(w) = Len(q) + 1 /\ w[1] = t /\ \A i \in 1..Len(q) : w[i + 1] = q[i]
    BY <1>3
  <2>3. /\ <<h, t>> \o q \in Seq(S) /\ Len(<<h, t>> \o q) = Len(q) + 2
        /\ (<<h, t>> \o q)[1] = h /\ (<<h, t>> \o q)[2] = t
        /\ \A i \in 3..(Len(q) + 2) : (<<h, t>> \o q)[i] = q[i - 2]
    BY <2>1
  <2>4. /\ <<h>> \o w \in Seq(S) /\ Len(<<h>> \o w) = Len(w) + 1 /\ (<<h>> \o w)[1] = h
        /\ \A i \in 2..(Len(w) + 1) : (<<h>> \o w)[i] = w[i - 1]
    OBVIOUS
  <2>5. PICK x \in Seq(S), y \in Seq(S), n \in Nat :
           x = <<h, t>> \o q /\ y = <<h>> \o w /\ n = Len(q)
    BY <2>1, <2>3, <2>4
  <2>6. Len(x) = n + 2 /\ Len(y) = n + 2 /\ x[1] = y[1] /\ x[2] = y[2]
    BY <2>2, <2>3, <2>4, <2>5
  <2>7. ASSUME NEW i \in 3..(n + 2) PROVE x[i] = y[i]
    <3>1. i - 2 \in 1..n /\ i \in 2..(n + 2) /\ (i - 2) + 1 = i - 1
      BY <2>7
    <3>2. x[i] = q[i - 2]
      BY <2>3, <2>5, <2>7
    <3>3. i \in 2..(Len(w) + 1)
      BY <2>2, <2>5, <3>1
    <3>4. y[i] = w[i - 1]
      BY <2>4, <2>5, <3>3
    <3>5. w[(i - 2) + 1] = q[i - 2]
      BY <2>2, <2>5, <3>1
    <3> QED BY <3>1, <3>2, <3>4, <3>5
  <2>8. \A i \in 1..(n + 2) : i = 1 \/ i = 2 \/ i \in 3..(n + 2)
    OBVIOUS
  <2>9. \A i \in 1..Len(x) : x[i] = y[i]
    BY <2>6, <2>7, <2>8
  <2>10. x = y
    BY <2>6, <2>9
  <2> QED BY <2>5, <2>10
<1>5. Range(w) = {t} \cup (Range(s) \ {h}) /\ IsInjective(w) /\ h \in Range(s) /\ h # t
  BY <1>1, <1>2, <1>3
<1>6. /\ <<h>> \o w \in Seq(S) /\ Range(<<h>> \o w) = {h} \cup Range(w)
      /\ IsInjective(<<h>> \o w)
  BY <1>5, PushFacts
<1>7. Range(<<h>> \o w) = Range(s) \cup {t}
  BY <1>5, <1>6
<1> QED BY <1>3, <1>4, <1>6, <1>7

(* A list without repetitions is as long as it has members.                  *)
LEMMA DistinctLength ==
    ASSUME NEW S, NEW s \in Seq(S), IsInjective(s)
    PROVE  IsFiniteSet(Range(s)) /\ Cardinality(Range(s)) = Len(s)
<1>1. Len(s) \in Nat /\ DOMAIN s = 1..Len(s) /\ s \in [1..Len(s) -> S]
  OBVIOUS
<1>2. IsFiniteSet(1..Len(s)) /\ Cardinality(1..Len(s)) = Len(s)
  BY <1>1, FS_Interval
<1>3. s \in Bijection(1..Len(s), Range(s))
  BY <1>1 DEF Bijection, Injection, Surjection, IsInjective, Range
<1>4. ExistsBijection(1..Len(s), Range(s))
  BY <1>3 DEF ExistsBijection
<1> QED BY <1>2, <1>4, FS_Bijection

=============================================================================
