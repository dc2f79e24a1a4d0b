-------------------------- MODULE CallStackProofs ---------------------------
(* The call stack of a task is sound, no error is dropped and no walk runs   *)
(* for ever, however many awaitables there are and however often they pause, *)
(* as long as the four uses that break it are left out (see UsedWell).       *)
EXTENDS CallStack, ListFacts, WellFoundedInduction, TLAPS

(* No finalized pausable is called again, none is called from a nested       *)
(* activation or pauses on a paused one, no first poll lets an exception     *)
(* escape.                                                                   *)
UsedWell == ~Reused /\ ~PauseNested /\ ~PauseOnPaused /\ ~FirstThrows

-----------------------------------------------------------------------------
(* The inductive invariant.                                                  *)

(* s leads along link from `from` through the awaitables in B, each of them  *)
(* once, to the task.                                                        *)
Chain(n, s, link, from, B) ==
    /\ s \in [0 .. n -> Awaitables \cup {Task}]
    /\ s[0] = from /\ s[n] = Task
    /\ \A i \in 0 .. (n - 1) : s[i] \in B /\ link[s[i]] = s[i + 1]
    /\ \A b \in B : \E i \in 0 .. (n - 1) : s[i] = b
    /\ \A i, k \in 0 .. (n - 1) : s[i] = s[k] => i = k

Stacked(link, from, B) ==
    \E n \in Nat : \E s \in [0 .. n -> Awaitables \cup {Task}] : Chain(n, s, link, from, B)

(* While a paused awaitable that was called again waits to be moved, its old *)
(* place is still in _prev.                                                  *)
Link == IF Moving THEN [caller EXCEPT ![Running] = prev[Running]] ELSE caller
From == IF Moving THEN caller[Running] ELSE Current

StackInv == Stacked(Link, From, bound)

PlaceInv ==
    /\ at \in {"poll", "body", "handle"} => frames # <<>>
    /\ at \in {"suspended", "exited"} => frames = <<>>
    /\ at # "hung" /\ ret # "Raise"
    /\ at = "polled" /\ ret = "Ready" /\ frames # <<>> => top = Running
    /\ at = "poll" => Running \in Pausables
    /\ at = "body" => ~IsPaused(Running)
    /\ Moving => Len(frames) = 2

(* Each activation was called by the one below, which is not paused.         *)
FramesInv ==
    /\ IsInjective(frames) /\ Range(frames) \subseteq bound
    /\ \A i \in 1 .. Len(frames) : i > 2 => frames[i] \notin Pausables
    /\ \A i \in 1 .. (Len(frames) - 1) : ~IsPaused(frames[i]) /\ caller[frames[i + 1]] = frames[i]

PausedInv ==
    \A q \in Pausables \cap bound :
        IsPaused(q) => prev[q] = caller[q] \/ (Moving /\ q = Running)

ErrorInv ==
    /\ error # {} => error = {top} /\ at \in {"polled", "exited"} /\ ret = "Ready"
    /\ raised => error # {} \/ at = "handle"

CallInv == TypeOK /\ StackInv /\ PlaceInv /\ FramesInv /\ PausedInv /\ ErrorInv

-----------------------------------------------------------------------------
(* Walks.                                                                    *)

(* A set of numbers that is not empty has a least one.                       *)
LEMMA LeastOf == ASSUME NEW T \in SUBSET Nat, T # {} PROVE \E m \in T : \A k \in T : m <= k
<1>1. \E m \in T : \A k \in T : ~(<<k, m>> \in OpToRel(<, Nat))
  BY NatLessThanWellFounded, WFMin
<1>2. \A m, k \in Nat : <<k, m>> \in OpToRel(<, Nat) <=> k < m
  BY DEF OpToRel
<1>3. \A m, k \in Nat : ~(k < m) => m <= k
  OBVIOUS
<1> QED BY <1>1, <1>2, <1>3

(* What holds of 0 and of the next number with every one holds of all.       *)
LEMMA AllOf ==
    ASSUME NEW H \in SUBSET Nat, 0 \in H, \A m \in H : m + 1 \in H
    PROVE  H = Nat
<1> SUFFICES ASSUME Nat \ H # {} PROVE FALSE
  OBVIOUS
<1>1. PICK m \in Nat \ H : \A k \in Nat \ H : m <= k
  BY LeastOf
<1>2. m - 1 \in Nat /\ (m - 1) + 1 = m /\ ~(m <= m - 1)
  BY <1>1
<1>3. m - 1 \in H
  BY <1>1, <1>2
<1> QED BY <1>1, <1>2, <1>3

(* A function can be followed for any number of steps.                       *)
Follows(f, G, a, m) == f[0] = a /\ \A i \in 1 .. m : f[i] = G[f[i - 1]]

LEMMA Iterated ==
    ASSUME NEW X, NEW G \in [X -> X], NEW a \in X, NEW N \in Nat
    PROVE  \E f \in [0 .. N -> X] : Follows(f, G, a, N)
<1> DEFINE H == {m \in Nat : \E f \in [0 .. m -> X] : Follows(f, G, a, m)}
<1>1. 0 \in H
  <2>1. [i \in 0 .. 0 |-> a] \in [0 .. 0 -> X] /\ Follows([i \in 0 .. 0 |-> a], G, a, 0)
    BY DEF Follows
  <2> QED BY <2>1
<1>2. ASSUME NEW m \in H PROVE m + 1 \in H
  <2>1. PICK f \in [0 .. m -> X] : Follows(f, G, a, m)
    OBVIOUS
  <2>2. PICK g \in [0 .. (m + 1) -> X] : g = [i \in 0 .. (m + 1) |-> IF i <= m THEN f[i] ELSE G[f[m]]]
    <3>1. \A i \in 0 .. (m + 1) : i <= m => i \in 0 .. m
      OBVIOUS
    <3>2. m \in 0 .. m
      OBVIOUS
    <3> QED BY <3>1, <3>2
  <2>3. Follows(g, G, a, m + 1)
    <3>1. g[0] = a
      BY <2>1, <2>2 DEF Follows
    <3>2. ASSUME NEW i \in 1 .. (m + 1) PROVE g[i] = G[g[i - 1]]
      <4>1. CASE i <= m
        BY <2>1, <2>2, <4>1 DEF Follows
      <4>2. CASE i = m + 1
        BY <2>2, <4>2
      <4> QED BY <4>1, <4>2
    <3> QED BY <3>1, <3>2 DEF Follows
  <2>4. m + 1 \in Nat
    OBVIOUS
  <2> QED BY <2>3, <2>4
<1>3. H = Nat
  <2> HIDE DEF H
  <2>1. H \in SUBSET Nat
    BY DEF H
  <2> QED BY <1>1, <1>2, <2>1, AllOf
<1> QED BY <1>3

Nodes == Awaitables \cup {Task, Null}

(* Awaitable::_caller is followed step by step.                              *)
LEMMA WalkSteps ==
    ASSUME NEW link \in [Awaitables -> Nodes], NEW a \in Nodes
    PROVE  /\ Walk(link, a)[0] = a
           /\ \A i \in Steps \ {0} :
                 Walk(link, a)[i] = IF Walk(link, a)[i - 1] \in Awaitables
                                    THEN link[Walk(link, a)[i - 1]] ELSE Walk(link, a)[i - 1]
<1> DEFINE Unfolds(w) == w = [i \in Steps |->
                                IF i = 0 THEN a
                                ELSE IF w[i - 1] \in Awaitables THEN link[w[i - 1]] ELSE w[i - 1]]
           G == [x \in Nodes |-> IF x \in Awaitables THEN link[x] ELSE x]
<1>1. Cardinality(Awaitables) \in Nat
  BY StackAssumption, FS_CardinalityType
<1>2. PICK f \in [Steps -> Nodes] : Follows(f, G, a, Cardinality(Awaitables))
  <2>1. G \in [Nodes -> Nodes]
    BY DEF Nodes
  <2> HIDE DEF G
  <2> QED BY <1>1, <2>1, Iterated DEF Steps
<1>3. Unfolds(f)
  <2>1. \A i \in Steps : i = 0 \/ (i \in 1 .. Cardinality(Awaitables) /\ i - 1 \in Steps)
    BY <1>1 DEF Steps
  <2>2. ASSUME NEW i \in Steps
        PROVE  f[i] = IF i = 0 THEN a
                      ELSE IF f[i - 1] \in Awaitables THEN link[f[i - 1]] ELSE f[i - 1]
    <3>1. CASE i = 0
      BY <1>2, <3>1 DEF Follows
    <3>2. CASE i # 0
      <4>1. f[i] = G[f[i - 1]] /\ f[i - 1] \in Nodes
        BY <1>2, <2>1, <3>2 DEF Follows
      <4> QED BY <3>2, <4>1
    <3> QED BY <3>1, <3>2
  <2> QED BY <1>2, <2>2
<1>4. Walk(link, a) = CHOOSE w : Unfolds(w)
  BY DEF Walk
<1>5. Unfolds(Walk(link, a))
  <2> HIDE DEF Unfolds
  <2> QED BY <1>3, <1>4
<1>6. PICK w : w = Walk(link, a)
  OBVIOUS
<1>7. Unfolds(w)
  BY <1>5, <1>6
<1>8. 0 \in Steps
  BY <1>1 DEF Steps
<1> QED BY <1>6, <1>7, <1>8

(* ... so it arrives where a chain of callers leads.                         *)
LEMMA WalkFollows ==
    ASSUME NEW link \in [Awaitables -> Nodes], NEW k \in Steps, NEW s \in [0 .. k -> Nodes],
           \A i \in 0 .. (k - 1) : s[i] \in Awaitables /\ link[s[i]] = s[i + 1]
    PROVE  \A i \in 0 .. k : Walk(link, s[0])[i] = s[i]
<1>1. k \in Nat /\ \A i \in 1 .. k : i \in Steps \ {0}
  <2>1. Cardinality(Awaitables) \in Nat
    BY StackAssumption, FS_CardinalityType
  <2> QED BY <2>1 DEF Steps
<1>2. PICK w : w = Walk(link, s[0])
  OBVIOUS
<1>3. /\ w[0] = s[0]
      /\ \A i \in 1 .. k : w[i] = IF w[i - 1] \in Awaitables THEN link[w[i - 1]] ELSE w[i - 1]
  <2>1. s[0] \in Nodes
    BY <1>1
  <2> QED BY <1>1, <1>2, <2>1, WalkSteps
<1> DEFINE H == {i \in Nat : i <= k => w[i] = s[i]}
<1>4. 0 \in H
  BY <1>3
<1>5. ASSUME NEW m \in H PROVE m + 1 \in H
  <2> SUFFICES ASSUME m + 1 <= k PROVE w[m + 1] = s[m + 1]
    OBVIOUS
  <2>1. m \in Nat /\ m \in 0 .. (k - 1) /\ m + 1 \in 1 .. k /\ (m + 1) - 1 = m /\ m <= k
    BY <1>1
  <2>2. w[m] = s[m] /\ s[m] \in Awaitables /\ link[s[m]] = s[m + 1]
    BY <2>1
  <2> QED BY <1>3, <2>1, <2>2
<1>6. H = Nat
  <2> HIDE DEF H
  <2>1. H \in SUBSET Nat
    BY DEF H
  <2> QED BY <1>4, <1>5, <2>1, AllOf
<1>7. \A i \in 0 .. k : i \in Nat /\ i <= k
  BY <1>1
<1> QED BY <1>2, <1>6, <1>7

-----------------------------------------------------------------------------
(* What the operations do to a stack.                                        *)

Links == [Awaitables -> Nodes]

(* The top awaitable is finalized: the stack goes on at its caller.          *)
LEMMA StackPop ==
    ASSUME NEW link \in Links, NEW a \in Awaitables, NEW B \in SUBSET Awaitables,
           Stacked(link, a, B)
    PROVE  /\ a \in B /\ link[a] # a /\ link[a] \in (B \ {a}) \cup {Task}
           /\ Stacked(link, link[a], B \ {a})
<1>1. PICK n \in Nat : \E s \in [0 .. n -> Awaitables \cup {Task}] : Chain(n, s, link, a, B)
  BY DEF Stacked
<1>2. PICK s \in [0 .. n -> Awaitables \cup {Task}] : Chain(n, s, link, a, B)
  BY <1>1
<1>3. n - 1 \in Nat /\ 0 \in 0 .. (n - 1)
  BY <1>2, StackAssumption DEF Chain
<1>4. PICK m \in Nat : m = n - 1
  BY <1>3
<1>5. PICK u \in [0 .. m -> Awaitables \cup {Task}] : u = [i \in 0 .. m |-> s[i + 1]]
  <2>1. \A i \in 0 .. m : i + 1 \in 0 .. n
    BY <1>4
  <2>2. \A i \in 0 .. m : s[i + 1] \in Awaitables \cup {Task}
    BY <2>1
  <2> QED BY <2>2
<1>6. s[0] = a /\ a \in B /\ link[a] = s[1]
  BY <1>2, <1>3 DEF Chain
<1>7. \A i \in 0 .. (m - 1) : i + 1 \in 0 .. (n - 1) /\ i \in 0 .. m /\ i + 1 \in 0 .. m /\ i + 1 # 0
  BY <1>4
<1>8. \A i \in 0 .. (m - 1) : u[i] = s[i + 1] /\ u[i] \in B \ {a} /\ link[u[i]] = u[i + 1]
  <2> SUFFICES ASSUME NEW i \in 0 .. (m - 1)
               PROVE  u[i] = s[i + 1] /\ u[i] \in B \ {a} /\ link[u[i]] = u[i + 1]
    OBVIOUS
  <2>1. u[i] = s[i + 1] /\ u[i + 1] = s[(i + 1) + 1]
    BY <1>5, <1>7
  <2>2. s[i + 1] \in B /\ link[s[i + 1]] = s[(i + 1) + 1]
    BY <1>2, <1>7 DEF Chain
  <2>3. s[i + 1] # s[0]
    BY <1>2, <1>3, <1>7 DEF Chain
  <2> QED BY <1>6, <2>1, <2>2, <2>3
<1>9. \A b \in B \ {a} : \E i \in 0 .. (m - 1) : u[i] = b
  <2> SUFFICES ASSUME NEW b \in B, b # a PROVE \E i \in 0 .. (m - 1) : u[i] = b
    OBVIOUS
  <2>1. PICK i \in 0 .. (n - 1) : s[i] = b
    BY <1>2 DEF Chain
  <2>2. i # 0
    BY <1>6, <2>1
  <2>3. i - 1 \in 0 .. (m - 1) /\ (i - 1) + 1 = i
    BY <1>4, <2>2
  <2> QED BY <1>8, <2>1, <2>3
<1>10. ASSUME NEW i \in 0 .. (m - 1), NEW k \in 0 .. (m - 1), u[i] = u[k] PROVE i = k
  <2>1. s[i + 1] = s[k + 1] /\ i + 1 \in 0 .. (n - 1) /\ k + 1 \in 0 .. (n - 1)
    BY <1>7, <1>8, <1>10
  <2>2. i + 1 = k + 1
    BY <1>2, <2>1 DEF Chain
  <2> QED BY <2>2
<1>11. u[0] = s[1] /\ u[m] = Task
  <2>1. 0 \in 0 .. m /\ m \in 0 .. m /\ 0 + 1 = 1 /\ m + 1 = n
    BY <1>4
  <2> QED BY <1>2, <1>5, <2>1 DEF Chain
<1>12. Chain(m, u, link, link[a], B \ {a})
  BY <1>6, <1>8, <1>9, <1>10, <1>11 DEF Chain
<1>13. Stacked(link, link[a], B \ {a})
  BY <1>12 DEF Stacked
<1>14. link[a] \in (B \ {a}) \cup {Task}
  <2>1. CASE m = 0
    BY <1>6, <1>11, <2>1
  <2>2. CASE m # 0
    BY <1>6, <1>8, <1>11, <2>2
  <2> QED BY <2>1, <2>2
<1> QED BY <1>6, <1>13, <1>14, StackAssumption

(* An awaitable that is not on the stack is called.                          *)
LEMMA StackPush ==
    ASSUME NEW link \in Links, NEW a, NEW b \in Awaitables,
           NEW B \in SUBSET Awaitables, Stacked(link, a, B), b \notin B
    PROVE  Stacked([link EXCEPT ![b] = a], b, B \cup {b})
<1>1. PICK n \in Nat : \E s \in [0 .. n -> Awaitables \cup {Task}] : Chain(n, s, link, a, B)
  BY DEF Stacked
<1>2. PICK s \in [0 .. n -> Awaitables \cup {Task}] : Chain(n, s, link, a, B)
  BY <1>1
<1>3. PICK m \in Nat : m = n + 1
  OBVIOUS
<1>4. PICK u \in [0 .. m -> Awaitables \cup {Task}] :
         u = [i \in 0 .. m |-> IF i = 0 THEN b ELSE s[i - 1]]
  <2>1. \A i \in 0 .. m : i # 0 => i - 1 \in 0 .. n
    BY <1>3
  <2>2. \A i \in 0 .. m : (IF i = 0 THEN b ELSE s[i - 1]) \in Awaitables \cup {Task}
    BY <2>1
  <2> QED BY <2>2
<1>5. PICK l : l = [link EXCEPT ![b] = a]
  OBVIOUS
<1>6. l[b] = a /\ \A x \in Awaitables : x # b => l[x] = link[x]
  BY <1>5 DEF Links
<1>7. /\ 0 \in 0 .. (m - 1) /\ 0 + 1 = 1 /\ 1 \in 0 .. m
      /\ \A i \in 0 .. (m - 1) : i \in 0 .. m /\ i + 1 \in 0 .. m /\ i + 1 # 0 /\ (i + 1) - 1 = i
      /\ \A i \in 0 .. (m - 1) : i = 0 \/ (i - 1 \in 0 .. (n - 1) /\ (i - 1) + 1 = i)
      /\ \A i \in 0 .. (n - 1) : i + 1 \in 0 .. (m - 1) /\ (i + 1) - 1 = i /\ i + 1 # 0
  BY <1>3
<1>8. /\ u[0] = b /\ \A i \in 0 .. (m - 1) : u[i + 1] = s[i]
  BY <1>4, <1>7
<1>9. u[m] = Task
  BY <1>2, <1>3, <1>4 DEF Chain
<1>10. ASSUME NEW i \in 0 .. (m - 1) PROVE u[i] \in B \cup {b} /\ l[u[i]] = u[i + 1]
  <2>1. CASE i = 0
    BY <1>2, <1>6, <1>7, <1>8, <2>1 DEF Chain
  <2>2. CASE i # 0
    <3>1. i - 1 \in 0 .. (n - 1) /\ (i - 1) + 1 = i
      BY <1>7, <2>2
    <3>2. u[i] = s[i - 1] /\ u[i + 1] = s[i]
      BY <1>4, <1>7, <1>8, <2>2
    <3>3. s[i - 1] \in B /\ link[s[i - 1]] = s[i]
      BY <1>2, <3>1 DEF Chain
    <3> QED BY <1>6, <3>2, <3>3
  <2> QED BY <2>1, <2>2
<1>11. \A x \in B \cup {b} : \E i \in 0 .. (m - 1) : u[i] = x
  <2>1. \E i \in 0 .. (m - 1) : u[i] = b
    BY <1>7, <1>8
  <2>2. ASSUME NEW x \in B PROVE \E i \in 0 .. (m - 1) : u[i] = x
    <3>1. PICK i \in 0 .. (n - 1) : s[i] = x
      BY <1>2 DEF Chain
    <3>2. i + 1 \in 0 .. (m - 1) /\ i \in 0 .. (m - 1)
      BY <1>3, <3>1
    <3>3. u[i + 1] = x
      BY <1>8, <3>1, <3>2
    <3> QED BY <3>2, <3>3
  <2> QED BY <2>1, <2>2
<1>12. ASSUME NEW i \in 0 .. (m - 1), NEW k \in 0 .. (m - 1), u[i] = u[k] PROVE i = k
  <2>1. \A j \in 0 .. (m - 1) :
           j # 0 => j - 1 \in 0 .. (n - 1) /\ u[j] = s[j - 1] /\ u[j] \in B
    BY <1>2, <1>4, <1>7 DEF Chain
  <2>2. CASE i = 0 \/ k = 0
    BY <1>8, <1>12, <2>1, <2>2
  <2>3. CASE i # 0 /\ k # 0
    <3>1. /\ i - 1 \in 0 .. (n - 1) /\ k - 1 \in 0 .. (n - 1)
          /\ s[i - 1] = s[k - 1]
      BY <1>12, <2>1, <2>3
    <3>2. i - 1 = k - 1
      BY <1>2, <3>1 DEF Chain
    <3> QED BY <3>2
  <2> QED BY <2>2, <2>3
<1>13. Chain(m, u, l, b, B \cup {b})
  BY <1>8, <1>9, <1>10, <1>11, <1>12 DEF Chain
<1> QED BY <1>5, <1>13 DEF Stacked

(* async_pause: the top awaitable goes below its caller.                     *)
LEMMA StackSwap ==
    ASSUME NEW link \in Links, NEW a \in Awaitables, NEW B \in SUBSET Awaitables,
           Stacked(link, a, B), NEW c \in Awaitables, link[a] = c
    PROVE  /\ c \in B /\ c # a /\ link[c] \in Awaitables \cup {Task}
           /\ Stacked([link EXCEPT ![c] = a, ![a] = link[c]], c, B)
<1>1. a \in B /\ c # a /\ c \in B /\ Stacked(link, c, B \ {a})
  BY StackPop, StackAssumption
<1>2. link[c] \in Awaitables \cup {Task} /\ Stacked(link, link[c], (B \ {a}) \ {c})
  BY <1>1, StackPop
<1>3. PICK l \in Links : l = [link EXCEPT ![a] = link[c]]
  BY DEF Links, Nodes
<1>4. Stacked(l, a, ((B \ {a}) \ {c}) \cup {a})
  BY <1>2, <1>3, StackPush
<1>5. ((B \ {a}) \ {c}) \cup {a} = B \ {c} /\ (B \ {c}) \cup {c} = B
  BY <1>1
<1>6. Stacked([l EXCEPT ![c] = a], c, B)
  <2>1. Stacked([l EXCEPT ![c] = a], c, (B \ {c}) \cup {c})
    BY <1>4, <1>5, StackPush
  <2> QED BY <1>5, <2>1
<1>7. [l EXCEPT ![c] = a] = [link EXCEPT ![c] = a, ![a] = link[c]]
  BY <1>1, <1>3 DEF Links
<1> QED BY <1>1, <1>2, <1>6, <1>7

(* The length of a stack is the number of awaitables on it.                  *)
LEMMA StackSize ==
    ASSUME NEW n \in Nat, NEW s, NEW link, NEW from, NEW B \in SUBSET Awaitables,
           Chain(n, s, link, from, B)
    PROVE  Cardinality(B) = n /\ n \in Steps
<1> DEFINE f == [i \in 0 .. (n - 1) |-> s[i]]
<1>1. f \in Bijection(0 .. (n - 1), B)
  <2>1. f \in [0 .. (n - 1) -> B]
    BY DEF Chain
  <2>2. \A i, k \in 0 .. (n - 1) : f[i] = f[k] => i = k
    BY DEF Chain
  <2>3. \A b \in B : \E i \in 0 .. (n - 1) : f[i] = b
    BY DEF Chain
  <2> HIDE DEF f
  <2> QED BY <2>1, <2>2, <2>3 DEF Bijection, Injection, Surjection, IsInjective
<1>2. ExistsBijection(0 .. (n - 1), B)
  BY <1>1 DEF ExistsBijection
<1>3. IsFiniteSet(0 .. (n - 1)) /\ Cardinality(0 .. (n - 1)) = n
  <2>1. Cardinality(0 .. (n - 1)) = IF 0 > n - 1 THEN 0 ELSE (n - 1) - 0 + 1
    BY FS_Interval
  <2> QED BY <2>1, FS_Interval
<1>4. Cardinality(B) = n
  BY <1>2, <1>3, FS_Bijection
<1>5. Cardinality(B) <= Cardinality(Awaitables) /\ Cardinality(Awaitables) \in Nat
  BY StackAssumption, FS_Subset, FS_CardinalityType
<1> QED BY <1>4, <1>5 DEF Steps

(* The awaitables a walk down a stack meets are those on it.                 *)
LEMMA StackWalk ==
    ASSUME NEW link \in Links, NEW from, NEW B \in SUBSET Awaitables, Stacked(link, from, B)
    PROVE  /\ {Walk(link, from)[i] : i \in 0 .. (Cardinality(B) - 1)} = B
           /\ Walk(link, from)[Cardinality(B)] = Task
           /\ Walked(link, from) = B
<1>1. PICK n \in Nat : \E s \in [0 .. n -> Awaitables \cup {Task}] : Chain(n, s, link, from, B)
  BY DEF Stacked
<1>2. PICK s \in [0 .. n -> Awaitables \cup {Task}] : Chain(n, s, link, from, B)
  BY <1>1
<1>3. Cardinality(B) = n /\ n \in Steps
  BY <1>2, StackSize
<1>4. PICK w : w = Walk(link, from)
  OBVIOUS
<1>5. \A i \in 0 .. n : w[i] = s[i]
  <2>1. s \in [0 .. n -> Nodes] /\ link \in [Awaitables -> Nodes] /\ s[0] = from
    BY <1>2 DEF Nodes, Links, Chain
  <2>2. \A i \in 0 .. (n - 1) : s[i] \in Awaitables /\ link[s[i]] = s[i + 1]
    BY <1>2 DEF Chain
  <2>3. \A i \in 0 .. n : Walk(link, s[0])[i] = s[i]
    BY <1>3, <2>1, <2>2, WalkFollows
  <2> QED BY <1>4, <2>1, <2>3
<1>6. \A i \in 0 .. (n - 1) : i \in 0 .. n /\ i \in Steps
  BY <1>3, StackAssumption, FS_CardinalityType DEF Steps
<1>7. w[n] = Task
  BY <1>2, <1>5 DEF Chain
<1>8. {w[i] : i \in 0 .. (n - 1)} = B
  BY <1>2, <1>5, <1>6 DEF Chain
<1>9. \A i \in Steps : w[i] \in Awaitables => w[i] \in B
  <2> DEFINE H == {i \in Nat : n + i \in Steps => w[n + i] = Task}
  <2>1. 0 \in H
    BY <1>7
  <2>2. ASSUME NEW m \in H PROVE m + 1 \in H
    <3> SUFFICES ASSUME n + (m + 1) \in Steps PROVE w[n + (m + 1)] = Task
      OBVIOUS
    <3>1. n + m \in Steps /\ n + (m + 1) \in Steps \ {0} /\ (n + (m + 1)) - 1 = n + m
      BY StackAssumption, FS_CardinalityType DEF Steps
    <3>2. link \in [Awaitables -> Nodes] /\ from \in Nodes
      BY <1>2 DEF Nodes, Links, Chain
    <3>3. w[n + (m + 1)] = IF w[n + m] \in Awaitables THEN link[w[n + m]] ELSE w[n + m]
      BY <1>4, <3>1, <3>2, WalkSteps
    <3> QED BY <3>1, <3>3, StackAssumption
  <2>3. H = Nat
    <3> HIDE DEF H
    <3>1. H \in SUBSET Nat
      BY DEF H
    <3> QED BY <2>1, <2>2, <3>1, AllOf
  <2> SUFFICES ASSUME NEW i \in Steps, w[i] \in Awaitables PROVE w[i] \in B
    OBVIOUS
  <2>4. i \in Nat
    BY StackAssumption, FS_CardinalityType DEF Steps
  <2>5. CASE i < n
    BY <1>8, <2>4, <2>5
  <2>6. CASE ~(i < n)
    <3>1. i - n \in Nat /\ n + (i - n) = i
      BY <2>4, <2>6
    <3>2. w[i] = Task
      BY <2>3, <3>1
    <3> QED BY <3>2, StackAssumption
  <2> QED BY <2>5, <2>6
<1>10. Walked(link, from) = B
  <2>1. \A b \in B : \E i \in Steps : w[i] = b
    BY <1>6, <1>8
  <2> QED BY <1>4, <1>9, <2>1 DEF Walked
<1> QED BY <1>3, <1>4, <1>7, <1>8, <1>10

(* swap_awaitable: p, which is on the stack and is called again from its top *)
(* a, is taken out from below the one that had it as caller. The walk from a *)
(* finds that one first, and stops there.                                    *)
LEMMA StackMove ==
    ASSUME NEW link \in Links, NEW a \in Awaitables, NEW B \in SUBSET Awaitables,
           Stacked(link, a, B), NEW p \in B, p # a,
           NEW cyc \in Links, cyc[p] = a, \A x \in Awaitables : x # p => cyc[x] = link[x]
    PROVE  \E i \in Steps : \E x \in B :
              /\ Walk(cyc, a)[i] = x /\ x # p /\ cyc[x] = p /\ link[p] \in Awaitables \cup {Task}
              /\ \A k \in Steps : Walk(cyc, a)[k] \in Awaitables /\ cyc[Walk(cyc, a)[k]] = p => i <= k
              /\ (i > 0) = (x # a)
              /\ Stacked([cyc EXCEPT ![x] = link[p]], p, B)
<1>1. PICK n \in Nat : \E s \in [0 .. n -> Awaitables \cup {Task}] : Chain(n, s, link, a, B)
  BY DEF Stacked
<1>2. PICK s \in [0 .. n -> Awaitables \cup {Task}] : Chain(n, s, link, a, B)
  BY <1>1
<1>3. n \in Steps /\ \A i \in 0 .. n : i \in Steps
  <2>1. n \in Steps
    BY <1>2, StackSize
  <2> QED BY <2>1, StackAssumption, FS_CardinalityType DEF Steps
<1>4. PICK k \in 0 .. (n - 1) : s[k] = p
  BY <1>2 DEF Chain
<1>5. s[0] = a /\ s[n] = Task /\ k # 0 /\ n # 0
  BY <1>2, <1>4 DEF Chain
<1>6. \A i \in 0 .. (n - 1) : s[i] \in B /\ link[s[i]] = s[i + 1]
  BY <1>2 DEF Chain
<1>7. \A i, m \in 0 .. (n - 1) : s[i] = s[m] => i = m
  BY <1>2 DEF Chain
<1>8. k \in Nat /\ k > 0 /\ k < n /\ k - 1 \in 0 .. (n - 1) /\ (k - 1) + 1 = k
  BY <1>4, <1>5
<1>10. \A i \in 0 .. (n - 1) : i # k => s[i] # p /\ cyc[s[i]] = s[i + 1]
  BY <1>4, <1>6, <1>7
<1>11. \A i \in 0 .. k : Walk(cyc, a)[i] = s[i]
  <2>1. PICK t \in [0 .. k -> Nodes] : t = [i \in 0 .. k |-> s[i]]
    <3>1. \A i \in 0 .. k : i \in 0 .. n
      BY <1>8
    <3> QED BY <3>1 DEF Nodes
  <2>2. \A i \in 0 .. (k - 1) : t[i] \in Awaitables /\ cyc[t[i]] = t[i + 1]
    <3> SUFFICES ASSUME NEW i \in 0 .. (k - 1)
                 PROVE  t[i] \in Awaitables /\ cyc[t[i]] = t[i + 1]
      OBVIOUS
    <3>1. i \in 0 .. k /\ i + 1 \in 0 .. k /\ i \in 0 .. (n - 1) /\ i # k
      BY <1>8
    <3> QED BY <1>6, <1>10, <2>1, <3>1
  <2>3. cyc \in [Awaitables -> Nodes]
    BY DEF Links
  <2>4. k \in Steps
    BY <1>3, <1>8
  <2>5. \A i \in 0 .. k : Walk(cyc, t[0])[i] = t[i]
    BY <2>1, <2>2, <2>3, <2>4, WalkFollows
  <2>6. t[0] = a
    BY <1>5, <1>8, <2>1
  <2> QED BY <2>1, <2>5, <2>6
<1>12. PICK x \in B : x = s[k - 1]
  BY <1>6, <1>8
<1>13. x # p /\ cyc[x] = p
  BY <1>4, <1>8, <1>10, <1>12
<1>14. link[p] = s[k + 1] /\ link[p] \in Awaitables \cup {Task}
  <2>1. k + 1 \in 0 .. n
    BY <1>8
  <2> QED BY <1>4, <1>6, <2>1
<1>15. \A m \in Steps : Walk(cyc, a)[m] \in Awaitables /\ cyc[Walk(cyc, a)[m]] = p => k - 1 <= m
  <2> SUFFICES ASSUME NEW m \in Steps, m < k - 1 PROVE cyc[Walk(cyc, a)[m]] # p
    <3>1. \A m \in Steps : m \in Nat
      BY StackAssumption, FS_CardinalityType DEF Steps
    <3>2. \A m \in Steps : ~(k - 1 <= m) => m < k - 1
      BY <1>8, <3>1
    <3> QED BY <3>2
  <2>1. m \in Nat /\ m \in 0 .. k /\ m \in 0 .. (n - 1) /\ m # k /\ m + 1 \in 0 .. (n - 1) /\ m + 1 # k
    BY <1>8, StackAssumption, FS_CardinalityType DEF Steps
  <2>2. Walk(cyc, a)[m] = s[m]
    BY <1>11, <2>1
  <2>3. cyc[s[m]] = s[m + 1] /\ s[m + 1] # p
    BY <1>10, <2>1
  <2> QED BY <2>2, <2>3
<1>16. (k - 1 > 0) = (x # a)
  <2>1. k - 1 = 0 <=> x = a
    BY <1>5, <1>7, <1>8, <1>12
  <2> QED BY <1>8, <2>1
<1>17. Stacked([cyc EXCEPT ![x] = link[p]], p, B)
  <2>1. PICK l : l = [cyc EXCEPT ![x] = link[p]]
    OBVIOUS
  <2>2. l[x] = link[p] /\ l[p] = a /\ \A y \in Awaitables : y # x /\ y # p => l[y] = link[y]
    BY <1>13, <2>1 DEF Links
  <2>3. PICK u \in [0 .. n -> Awaitables \cup {Task}] :
           u = [i \in 0 .. n |-> IF i = 0 THEN p ELSE IF i <= k THEN s[i - 1] ELSE s[i]]
    <3>1. \A i \in 0 .. n : i # 0 => i - 1 \in 0 .. n
      OBVIOUS
    <3>2. \A i \in 0 .. n : (IF i = 0 THEN p ELSE IF i <= k THEN s[i - 1] ELSE s[i])
                            \in Awaitables \cup {Task}
      BY <3>1
    <3> QED BY <3>2
  <2>4. u[0] = p /\ u[n] = Task
    BY <1>5, <1>8, <2>3
  <2>5. \A i \in 1 .. k : i \in 0 .. n /\ i - 1 \in 0 .. (n - 1) /\ u[i] = s[i - 1] /\ i - 1 # k
    BY <1>8, <2>3
  <2>6. \A i \in (k + 1) .. n : u[i] = s[i] /\ i # k
    BY <1>8, <2>3
  <2>7. \A i \in 0 .. (n - 1) : i = 0 \/ i \in 1 .. k \/ i \in (k + 1) .. (n - 1)
    BY <1>8
  <2>8. ASSUME NEW i \in 0 .. (n - 1) PROVE u[i] \in B /\ l[u[i]] = u[i + 1]
    <3>1. CASE i = 0
      <4>1. 1 \in 1 .. k /\ 1 - 1 = 0 /\ 0 + 1 = 1
        BY <1>8
      <4> QED BY <1>5, <2>2, <2>4, <2>5, <3>1, <4>1
    <3>2. CASE i \in 1 .. (k - 1)
      <4>1. i \in 1 .. k /\ i + 1 \in 1 .. k /\ (i + 1) - 1 = i /\ (i - 1) + 1 = i /\ i - 1 # k - 1
        BY <1>8, <3>2
      <4>2. u[i] = s[i - 1] /\ u[i + 1] = s[i] /\ i - 1 \in 0 .. (n - 1) /\ i - 1 # k
        BY <2>5, <4>1
      <4>3. s[i - 1] # x /\ s[i - 1] # p /\ s[i - 1] \in B /\ link[s[i - 1]] = s[i]
        BY <1>6, <1>7, <1>8, <1>10, <1>12, <4>1, <4>2
      <4> QED BY <2>2, <4>2, <4>3
    <3>3. CASE i = k
      <4>1. k \in 1 .. k /\ k + 1 \in (k + 1) .. n
        BY <1>8
      <4>2. u[k] = x /\ u[k + 1] = s[k + 1]
        BY <1>12, <2>5, <2>6, <4>1
      <4> QED BY <1>14, <2>2, <3>3, <4>2
    <3>4. CASE i \in (k + 1) .. (n - 1)
      <4>1. i \in (k + 1) .. n /\ i + 1 \in (k + 1) .. n /\ i # k /\ i # k - 1
        BY <1>8, <3>4
      <4>2. u[i] = s[i] /\ u[i + 1] = s[i + 1]
        BY <2>6, <4>1
      <4>3. s[i] # x /\ s[i] # p /\ s[i] \in B /\ link[s[i]] = s[i + 1]
        BY <1>6, <1>7, <1>8, <1>10, <1>12, <4>1
      <4> QED BY <2>2, <4>2, <4>3
    <3>5. i \in 1 .. k => i = k \/ i \in 1 .. (k - 1)
      BY <1>8
    <3> QED BY <2>7, <3>1, <3>2, <3>3, <3>4, <3>5
  <2>9. ASSUME NEW b \in B PROVE \E i \in 0 .. (n - 1) : u[i] = b
    <3>1. PICK i \in 0 .. (n - 1) : s[i] = b
      BY <1>2 DEF Chain
    <3>2. CASE i = k
      <4>1. 0 \in 0 .. (n - 1)
        BY <1>8
      <4> QED BY <1>4, <2>4, <3>1, <3>2, <4>1
    <3>3. CASE i < k
      <4>1. i + 1 \in 1 .. k /\ i + 1 \in 0 .. (n - 1) /\ (i + 1) - 1 = i
        BY <1>8, <3>3
      <4>2. u[i + 1] = b
        BY <2>5, <3>1, <4>1
      <4> QED BY <4>1, <4>2
    <3>4. CASE i > k
      <4>1. i \in (k + 1) .. n
        BY <1>8, <3>4
      <4>2. u[i] = b
        BY <2>6, <3>1, <4>1
      <4> QED BY <4>2
    <3> QED BY <1>8, <3>2, <3>3, <3>4
  <2>10. ASSUME NEW i \in 0 .. (n - 1), NEW m \in 0 .. (n - 1), u[i] = u[m] PROVE i = m
    <3> DEFINE Src(h) == IF h = 0 THEN k ELSE IF h <= k THEN h - 1 ELSE h
    <3>1. \A h \in 0 .. (n - 1) : Src(h) \in 0 .. (n - 1) /\ u[h] = s[Src(h)]
      <4> SUFFICES ASSUME NEW h \in 0 .. (n - 1)
                   PROVE  Src(h) \in 0 .. (n - 1) /\ u[h] = s[Src(h)]
        OBVIOUS
      <4>1. Src(h) \in 0 .. (n - 1) /\ h \in 0 .. n
        BY <1>8
      <4>2. u[h] = s[Src(h)]
        BY <1>4, <2>3, <4>1
      <4> QED BY <4>1, <4>2
    <3>2. Src(i) = Src(m)
      <4> HIDE DEF Src
      <4> QED BY <1>7, <2>10, <3>1
    <3> QED BY <1>8, <3>2
  <2>11. Chain(n, u, l, p, B)
    BY <2>4, <2>8, <2>9, <2>10 DEF Chain
  <2> QED BY <2>1, <2>11 DEF Stacked
<1>18. k - 1 \in Steps /\ Walk(cyc, a)[k - 1] = x
  <2>1. k - 1 \in 0 .. n /\ k - 1 \in 0 .. k
    BY <1>8
  <2> QED BY <1>3, <1>11, <1>12, <2>1
<1> QED BY <1>13, <1>14, <1>15, <1>16, <1>17, <1>18

-----------------------------------------------------------------------------
(* Activations.                                                              *)

(* run() returns: the activation below becomes the last one.                 *)
LEMMA FramePop ==
    ASSUME NEW S, NEW f \in Seq(S), f # <<>>, IsInjective(f)
    PROVE  /\ Front(f) \in Seq(S) /\ IsInjective(Front(f)) /\ Range(Front(f)) = Range(f) \ {Last(f)}
           /\ Last(f) \in S /\ Last(f) \in Range(f)
           /\ Len(Front(f)) \in Nat /\ Len(f) = Len(Front(f)) + 1
           /\ \A i \in 1 .. Len(Front(f)) : Front(f)[i] = f[i]
           /\ Front(f) # <<>> => /\ Len(Front(f)) >= 1 /\ Last(Front(f)) = f[Len(f) - 1]
           /\ Last(f) = f[Len(f)]
<1>1. PICK n \in Nat : n = Len(f) /\ n > 0
  OBVIOUS
<1>2. PICK g \in Seq(S) : g = Front(f) /\ Len(g) = n - 1
  BY <1>1, BackFacts
<1>3. \A i \in 1 .. (n - 1) : g[i] = f[i]
  BY <1>1, <1>2 DEF Front
<1>4. g # <<>> => Len(g) >= 1 /\ n - 1 \in 1 .. (n - 1) /\ Last(g) = g[n - 1]
  BY <1>1, <1>2 DEF Last
<1>5. Len(g) \in Nat /\ Len(f) = Len(g) + 1
  BY <1>1, <1>2
<1> QED BY <1>1, <1>2, <1>3, <1>4, <1>5, BackFacts DEF Last

(* run() of a callee is entered.                                             *)
LEMMA FramePush ==
    ASSUME NEW S, NEW f \in Seq(S), IsInjective(f), NEW b \in S, b \notin Range(f)
    PROVE  /\ Append(f, b) \in Seq(S) /\ IsInjective(Append(f, b))
           /\ Range(Append(f, b)) = Range(f) \cup {b} /\ Append(f, b) # <<>>
           /\ Len(f) \in Nat /\ Len(Append(f, b)) = Len(f) + 1 /\ Last(Append(f, b)) = b
           /\ Append(f, b)[Len(f) + 1] = b
           /\ \A i \in 1 .. Len(f) : Append(f, b)[i] = f[i]
<1>1. /\ Len(f) \in Nat /\ Len(Append(f, b)) = Len(f) + 1 /\ Last(Append(f, b)) = b
      /\ Append(f, b)[Len(f) + 1] = b /\ \A i \in 1 .. Len(f) : Append(f, b)[i] = f[i]
  BY DEF Last
<1> QED BY <1>1, AppendFacts

-----------------------------------------------------------------------------
(* What is known while the code of an awaitable runs.                        *)
LEMMA HereFacts ==
    ASSUME CallInv, at \in {"poll", "body", "handle"}
    PROVE  /\ frames # <<>> /\ Running \in Awaitables /\ Running \in bound
           /\ caller \in Links /\ bound \in SUBSET Awaitables
           /\ error = {} /\ (raised => at = "handle")
           /\ ~Moving => Stacked(caller, Running, bound)
<1>1. frames # <<>> /\ frames \in Seq(Awaitables) /\ IsInjective(frames)
  BY DEF CallInv, TypeOK, PlaceInv, FramesInv
<1>2. Running \in Awaitables /\ Running \in Range(frames)
  BY <1>1, FramePop DEF Running
<1>3. caller \in Links /\ bound \in SUBSET Awaitables /\ Running \in bound
  BY <1>2 DEF CallInv, TypeOK, Links, Nodes, FramesInv
<1>4. error = {} /\ (raised => at = "handle")
  BY DEF CallInv, ErrorInv
<1>5. ~Moving => Stacked(caller, Running, bound)
  BY DEF CallInv, StackInv, Link, From, Current
<1> QED BY <1>1, <1>2, <1>3, <1>4, <1>5

(* ... and while none does.                                                  *)
LEMMA AwayFacts ==
    ASSUME CallInv, at \in {"polled", "suspended", "exited"}
    PROVE  /\ ~Moving /\ Stacked(caller, top, bound)
           /\ caller \in Links /\ bound \in SUBSET Awaitables
           /\ top \in Awaitables => top \in bound
<1>1. ~Moving /\ Current = top
  BY DEF Moving, Current
<1>2. Stacked(caller, top, bound)
  BY <1>1 DEF CallInv, StackInv, Link, From
<1>3. caller \in Links /\ bound \in SUBSET Awaitables
  BY DEF CallInv, TypeOK, Links, Nodes
<1> QED BY <1>1, <1>2, <1>3, StackPop

(* The last activation is left and _caller and _prev do not change.          *)
LEMMA FramesLeave ==
    ASSUME TypeOK, FramesInv, frames # <<>>, frames' = Front(frames),
           bound' = bound \/ bound' = bound \ {Running}, UNCHANGED <<caller, prev>>
    PROVE  /\ FramesInv' /\ frames' \in Seq(Awaitables)
           /\ frames' # <<>> => Running' = caller[Running]
<1>1. frames \in Seq(Awaitables) /\ IsInjective(frames) /\ Range(frames) \subseteq bound
  BY DEF TypeOK, FramesInv
<1>2. PICK n \in Nat : n = Len(Front(frames))
  BY <1>1, FramePop
<1>3. /\ frames' \in Seq(Awaitables) /\ IsInjective(frames') /\ Len(frames') = n
      /\ Range(frames') = Range(frames) \ {Running} /\ Len(frames) = n + 1
      /\ \A i \in 1 .. n : frames'[i] = frames[i]
      /\ frames' # <<>> => n >= 1 /\ Last(frames') = frames[n]
      /\ Running = frames[n + 1]
  <2>1. frames' \in Seq(Awaitables) /\ IsInjective(frames') /\ Len(frames') = n
      /\ Range(frames') = Range(frames) \ {Running} /\ Len(frames) = n + 1
      /\ \A i \in 1 .. n : frames'[i] = frames[i]
    BY <1>1, <1>2, FramePop DEF Running
  <2>2. frames' # <<>> => n >= 1 /\ Last(frames') = frames[Len(frames) - 1]
    BY <1>1, <1>2, FramePop
  <2>3. Running = frames[Len(frames)]
    BY <1>1, FramePop DEF Running
  <2>4. Len(frames) - 1 = n
    BY <2>1
  <2> QED BY <2>1, <2>2, <2>3, <2>4
<1>4. Range(frames') \subseteq bound'
  BY <1>1, <1>3
<1>5. \A i \in 1 .. Len(frames') : i > 2 => frames'[i] \notin Pausables
  <2>1. \A i \in 1 .. n : i \in 1 .. (n + 1)
    OBVIOUS
  <2> QED BY <1>3, <2>1 DEF FramesInv
<1>6. \A i \in 1 .. (Len(frames') - 1) :
         /\ ~(frames'[i] \in Pausables /\ prev'[frames'[i]] # Null)
         /\ caller'[frames'[i + 1]] = frames'[i]
  <2> SUFFICES ASSUME NEW i \in 1 .. (n - 1)
               PROVE  /\ ~(frames'[i] \in Pausables /\ prev'[frames'[i]] # Null)
                      /\ caller'[frames'[i + 1]] = frames'[i]
    BY <1>3
  <2>1. i \in 1 .. n /\ i + 1 \in 1 .. n /\ i \in 1 .. ((n + 1) - 1)
    OBVIOUS
  <2>2. ~IsPaused(frames[i]) /\ caller[frames[i + 1]] = frames[i]
    BY <1>3, <2>1 DEF FramesInv
  <2>3. frames'[i] = frames[i] /\ frames'[i + 1] = frames[i + 1]
    BY <1>3, <2>1
  <2> QED BY <2>2, <2>3 DEF IsPaused
<1>7. FramesInv'
  BY <1>3, <1>4, <1>5, <1>6 DEF FramesInv, IsPaused
<1>8. ASSUME frames' # <<>> PROVE Running' = caller[Running]
  <2>1. n \in 1 .. (Len(frames) - 1) /\ Running' = frames[n]
    BY <1>3, <1>8 DEF Running
  <2>2. caller[frames[n + 1]] = frames[n]
    BY <2>1 DEF FramesInv
  <2> QED BY <1>3, <2>1, <2>2
<1> QED BY <1>3, <1>7, <1>8

(* run() of a returns Ready and has finalized a: _top is the caller.         *)
Leaves(a) ==
    /\ a = Running /\ at \in {"poll", "body", "handle"} /\ ~Moving
    /\ top' = caller[a] /\ frames' = Front(frames) /\ at' = "polled" /\ ret' = "Ready"
    /\ bound' = bound \ {a} /\ UNCHANGED <<caller, prev>>
    /\ error' = {} \/ error' = {caller[a]}
    /\ raised' \in BOOLEAN /\ (raised' => error' # {})

LEMMA LeavesKeeps == ASSUME CallInv, NEW a, Leaves(a) PROVE CallInv'
<1>1. /\ frames # <<>> /\ a \in Awaitables /\ a \in bound
      /\ caller \in Links /\ bound \in SUBSET Awaitables /\ Stacked(caller, a, bound)
  BY HereFacts DEF Leaves
<1>2. caller[a] \in (bound \ {a}) \cup {Task} /\ Stacked(caller, caller[a], bound \ {a})
  BY <1>1, StackPop
<1>3. FramesInv' /\ frames' \in Seq(Awaitables) /\ (frames' # <<>> => Running' = caller[a])
  BY <1>1, FramesLeave DEF CallInv, Leaves
<1>4. TypeOK'
  BY <1>1, <1>2, <1>3 DEF CallInv, TypeOK, Leaves, Places
<1>5. ~Moving' /\ Current' = top'
  BY DEF Moving, Current, Leaves
<1>6. StackInv'
  BY <1>2, <1>5 DEF StackInv, Link, From, Leaves
<1>7. PlaceInv'
  BY <1>3, <1>5 DEF PlaceInv, Leaves
<1>8. PausedInv'
  BY DEF CallInv, PausedInv, IsPaused, Leaves
<1>9. ErrorInv'
  BY DEF ErrorInv, Leaves
<1> QED BY <1>3, <1>4, <1>6, <1>7, <1>8, <1>9 DEF CallInv

(* run() returns Suspended and finalizes nothing.                            *)
Sleeps ==
    /\ frames # <<>> /\ ~Moving /\ at \in {"poll", "body", "handle", "polled"}
    /\ top' = Current /\ frames' = Front(frames) /\ at' = "polled" /\ ret' = "Suspended"
    /\ UNCHANGED <<bound, caller, prev>> /\ error' = {} /\ raised' = FALSE

LEMMA SleepsKeeps == ASSUME CallInv, Sleeps PROVE CallInv'
<1>1. Stacked(caller, Current, bound) /\ Current \in Awaitables \cup {Task}
  <2>1. CASE at = "polled"
    BY <2>1, AwayFacts DEF Current, CallInv, TypeOK
  <2>2. CASE at \in {"poll", "body", "handle"}
    BY <2>2, HereFacts DEF Current, Sleeps
  <2> QED BY <2>1, <2>2 DEF Sleeps
<1>2. FramesInv' /\ frames' \in Seq(Awaitables)
  BY FramesLeave DEF CallInv, Sleeps
<1>3. TypeOK'
  BY <1>1, <1>2 DEF CallInv, TypeOK, Sleeps, Places
<1>4. ~Moving' /\ Current' = top'
  BY DEF Moving, Current, Sleeps
<1>5. StackInv'
  BY <1>1, <1>4 DEF StackInv, Link, From, Sleeps
<1>6. PlaceInv'
  BY <1>4 DEF PlaceInv, Sleeps
<1>7. PausedInv'
  BY DEF CallInv, PausedInv, IsPaused, Sleeps
<1>8. ErrorInv'
  BY DEF ErrorInv, Sleeps
<1> QED BY <1>2, <1>3, <1>5, <1>6, <1>7, <1>8 DEF CallInv

(* run() of the awaitable on top of the stack goes round, or is entered by   *)
(* Task::run.                                                                *)
Goes(a) ==
    /\ a \in Awaitables /\ ~Moving /\ Current = a
    /\ top' = a /\ UNCHANGED <<ret, bound, caller, prev>> /\ error' = {}
    /\ \/ UNCHANGED frames /\ frames # <<>> /\ a = Running
       \/ frames' = <<a>>
    /\ at' = "handle" \/ at' = IF a \in Pausables THEN "poll" ELSE "body"
    /\ raised' \in BOOLEAN /\ (raised' => at' = "handle")

LEMMA GoesKeeps == ASSUME CallInv, NEW a, Goes(a) PROVE CallInv'
<1>1. caller \in Links /\ bound \in SUBSET Awaitables /\ Stacked(caller, a, bound) /\ a \in bound
  <2>1. caller \in Links /\ bound \in SUBSET Awaitables
    BY DEF CallInv, TypeOK, Links, Nodes
  <2>2. Stacked(caller, a, bound)
    BY DEF CallInv, StackInv, Link, From, Goes
  <2> QED BY <2>1, <2>2, StackPop DEF Goes
<1>2. frames' # <<>> /\ Running' = a /\ frames' \in Seq(Awaitables) /\ FramesInv'
  <2>1. CASE UNCHANGED frames /\ frames # <<>> /\ a = Running
    BY <2>1 DEF Goes, Running, FramesInv, IsPaused, CallInv, TypeOK
  <2>2. CASE frames' = <<a>>
    <3>1. Len(<<a>>) = 1 /\ <<a>>[1] = a /\ Last(<<a>>) = a /\ <<a>> # <<>> /\ <<a>> \in Seq(Awaitables)
      BY DEF Last, Goes
    <3>2. IsInjective(<<a>>) /\ Range(<<a>>) = {a}
      BY DEF IsInjective, Range
    <3>3. 1 .. (1 - 1) = {} /\ \A i \in 1 .. 1 : ~(i > 2)
      OBVIOUS
    <3>4. bound' = bound
      BY DEF Goes
    <3>5. FramesInv'
      BY <1>1, <2>2, <3>1, <3>2, <3>3, <3>4 DEF FramesInv
    <3> QED BY <2>2, <3>1, <3>5 DEF Running
  <2> QED BY <2>1, <2>2 DEF Goes
<1>3. TypeOK'
  BY <1>2 DEF CallInv, TypeOK, Goes, Places
<1>4. a \in Pausables /\ IsPaused(a) => prev[a] = caller[a]
  BY <1>1 DEF CallInv, PausedInv, Goes
<1>5. ~Moving' /\ Current' = a
  <2>1. ~Moving'
    BY <1>2, <1>4 DEF Moving, IsPaused, Goes
  <2> QED BY <1>2, <2>1 DEF Current, Goes
<1>6. StackInv'
  BY <1>1, <1>5 DEF StackInv, Link, From, Goes
<1>7. PlaceInv'
  <2>1. at' \in {"poll", "body", "handle"} /\ (at' = "poll" => a \in Pausables)
        /\ (at' = "body" => a \notin Pausables)
    BY DEF Goes
  <2>2. at' = "body" => ~IsPaused(a)'
    BY <2>1 DEF IsPaused
  <2>3. ret' # "Raise"
    BY DEF CallInv, PlaceInv, Goes
  <2> QED BY <1>2, <1>5, <2>1, <2>2, <2>3 DEF PlaceInv, IsPaused
<1>8. PausedInv'
  BY DEF CallInv, PausedInv, IsPaused, Goes
<1>9. ErrorInv'
  BY DEF ErrorInv, Goes
<1> QED BY <1>2, <1>3, <1>6, <1>7, <1>8, <1>9 DEF CallInv

-----------------------------------------------------------------------------
(* The steps.                                                                *)

LEMMA ReturnKeeps ==
    ASSUME CallInv, NEW a \in Awaitables, AsyncReturn(a) \/ Propagate(a) PROVE CallInv'
<1>1. at \in {"body", "handle"} /\ a = Running /\ ~Moving
  BY DEF AsyncReturn, Propagate, InUserCode, Moving
<1>2. /\ caller \in Links /\ bound \in SUBSET Awaitables /\ Stacked(caller, a, bound)
      /\ error = {} /\ (raised => at = "handle")
  BY <1>1, HereFacts
<1>3. caller[a] # a
  BY <1>2, StackPop
<1>4. CASE AsyncReturn(a)
  <2>1. raised' = FALSE
    BY <1>2, <1>4 DEF AsyncReturn, Settled, CallInv, TypeOK
  <2>2. Leaves(a)
    BY <1>1, <1>2, <1>3, <1>4, <2>1 DEF AsyncReturn, Polled, Leaves
  <2> QED BY <2>2, LeavesKeeps
<1>5. CASE Propagate(a)
  <2>1. Leaves(a)
    BY <1>1, <1>2, <1>5 DEF Propagate, Leaves, CallInv, TypeOK
  <2> QED BY <2>1, LeavesKeeps
<1> QED BY <1>4, <1>5

LEMMA SuspendKeeps ==
    ASSUME CallInv, NEW a \in Awaitables, AsyncSuspend(a) PROVE CallInv'
<1>1. at \in {"body", "handle"} /\ a = Running /\ ~Moving /\ frames # <<>> /\ Current = a
  BY DEF AsyncSuspend, InUserCode, Moving, Current
<1>2. error = {} /\ (raised => at = "handle")
  BY <1>1, HereFacts
<1>3. raised' = FALSE
  BY <1>2 DEF AsyncSuspend, Settled, CallInv, TypeOK
<1>4. Sleeps
  BY <1>1, <1>2, <1>3 DEF AsyncSuspend, Polled, Sleeps
<1> QED BY <1>4, SleepsKeeps

LEMMA ThrowKeeps ==
    ASSUME UsedWell, CallInv, NEW a \in Awaitables, AsyncThrow(a) \/ CxxThrow(a) PROVE CallInv'
<1>1. at = "body" /\ a = Running /\ ~Moving /\ frames # <<>> /\ Current = a
  BY DEF AsyncThrow, CxxThrow, InUserCode, Moving, Current
<1>2. error = {}
  BY <1>1, HereFacts
<1>3. Polled(a, "Raise", a, error \cup {a}) /\ raised' = TRUE /\ UNCHANGED <<caller, prev>>
  BY DEF AsyncThrow, CxxThrow, UsedWell
<1>4. top' = a /\ UNCHANGED <<frames, ret, bound>> /\ at' = "handle" /\ error' = {}
  BY <1>2, <1>3 DEF Polled, Loop
<1>5. Goes(a)
  BY <1>1, <1>3, <1>4 DEF Goes
<1> QED BY <1>5, GoesKeeps

(* Loop takes the error of the awaitable that is on top, if there is one.    *)
LEMMA LoopGoes ==
    ASSUME CallInv, at = "polled", ret = "Ready", top \in Awaitables, Loop(top, error),
           UNCHANGED <<top, ret, bound, caller, prev, raised>>,
           \/ UNCHANGED frames /\ frames # <<>> /\ top = Running
           \/ frames' = <<top>>
    PROVE  CallInv'
<1>1. ~Moving /\ Current = top
  BY DEF Moving, Current
<1>2. error = {} \/ error = {top}
  BY DEF CallInv, ErrorInv
<1>3. error' = {} /\ (raised => error = {top})
  BY <1>2 DEF Loop, CallInv, ErrorInv
<1>4. at' = IF top \in error THEN "handle" ELSE IF top \in Pausables THEN "poll" ELSE "body"
  BY DEF Loop
<1>5. raised' => at' = "handle"
  BY <1>3, <1>4
<1>6. at' = "handle" \/ at' = IF top \in Pausables THEN "poll" ELSE "body"
  BY <1>4
<1>7. Goes(top)
  BY <1>1, <1>3, <1>5, <1>6 DEF Goes, CallInv, TypeOK
<1> QED BY <1>7, GoesKeeps

LEMMA RunKeeps == ASSUME CallInv, CalleeDone \/ TaskRun PROVE CallInv'
<1>1. CASE CalleeDone
  <2>1. at = "polled" /\ frames # <<>> /\ ~Moving /\ Current = top
    BY <1>1 DEF CalleeDone, Moving, Current
  <2>2. CASE ret = "Ready"
    <3>1. top = Running /\ Running \in Awaitables
      BY <2>1, <2>2, FramePop DEF CallInv, PlaceInv, Running, TypeOK, FramesInv
    <3>2. Loop(top, error) /\ UNCHANGED <<top, frames, ret, bound, caller, prev, raised>>
      BY <1>1, <2>2, <3>1 DEF CalleeDone, Polled
    <3> QED BY <2>1, <2>2, <3>1, <3>2, LoopGoes
  <2>3. CASE ret = "Suspended"
    <3>1. error = {} /\ raised = FALSE
      BY <2>1, <2>3 DEF CallInv, ErrorInv, TypeOK
    <3>2. Sleeps
      BY <1>1, <2>1, <2>3, <3>1 DEF CalleeDone, Polled, Sleeps
    <3> QED BY <3>2, SleepsKeeps
  <2> QED BY <2>2, <2>3 DEF CallInv, TypeOK, PlaceInv
<1>2. CASE TaskRun
  <2>1. top \in Awaitables
    BY <1>2 DEF TaskRun, CallInv, TypeOK
  <2> QED BY <1>2, <2>1, LoopGoes DEF TaskRun
<1> QED BY <1>1, <1>2

(* The task leaves its run, is resumed by the loop, or is cancelled.         *)
LEMMA TaskKeeps == ASSUME CallInv, TaskLeave \/ Resume \/ Cancel PROVE CallInv'
<1>1. /\ at \in {"polled", "suspended"} /\ at' \in {"polled", "suspended", "exited"}
      /\ frames = <<>> /\ UNCHANGED <<frames, caller, prev>>
  BY DEF TaskLeave, Resume, Cancel, CallInv, PlaceInv
<1>2. /\ ~Moving /\ Stacked(caller, top, bound) /\ caller \in Links /\ bound \in SUBSET Awaitables
  BY <1>1, AwayFacts
<1>3. ~Moving' /\ Current' = top'
  BY <1>1 DEF Moving, Current
<1>4. /\ Stacked(caller, top', bound') /\ top' \in Awaitables \cup {Task}
      /\ bound' \in SUBSET Awaitables /\ bound' \subseteq bound
  <2>1. CASE TaskLeave \/ Resume
    BY <1>2, <2>1 DEF TaskLeave, Resume, CallInv, TypeOK
  <2>2. CASE Cancel
    <3>1. bound' = {} /\ top' = Task
      BY <1>2, <2>2, StackWalk DEF Cancel
    <3>2. PICK s \in [0 .. 0 -> Awaitables \cup {Task}] : s = [i \in 0 .. 0 |-> Task]
      OBVIOUS
    <3>3. Chain(0, s, caller, Task, {})
      BY <3>2 DEF Chain
    <3>4. Stacked(caller, Task, {})
      BY <3>3 DEF Stacked
    <3> QED BY <3>1, <3>4
  <2> QED BY <2>1, <2>2
<1>5. /\ ret' \in {"Ready", "Suspended"} /\ raised' \in BOOLEAN
      /\ error' \subseteq Awaitables \cup {Task} /\ ErrorInv'
  <2>1. CASE TaskLeave
    BY <2>1 DEF TaskLeave, CallInv, TypeOK, PlaceInv, ErrorInv
  <2>2. CASE Resume \/ Cancel
    <3>1. error = {} /\ raised = FALSE
      BY <2>2 DEF Resume, Cancel, CallInv, ErrorInv, TypeOK
    <3> QED BY <2>2, <3>1 DEF Resume, Cancel, CallInv, TypeOK, PlaceInv, ErrorInv
  <2> QED BY <2>1, <2>2
<1>6. TypeOK'
  BY <1>1, <1>4, <1>5 DEF CallInv, TypeOK, Places
<1>7. StackInv'
  BY <1>1, <1>3, <1>4 DEF StackInv, Link, From
<1>8. PlaceInv'
  BY <1>1, <1>3, <1>5 DEF PlaceInv
<1>9. FramesInv'
  <2>1. Range(frames) = {}
    BY <1>1 DEF Range
  <2> QED BY <1>1, <2>1 DEF CallInv, FramesInv, IsPaused
<1>10. PausedInv'
  BY <1>1, <1>2, <1>4 DEF CallInv, PausedInv, IsPaused
<1> QED BY <1>5, <1>6, <1>7, <1>8, <1>9, <1>10 DEF CallInv

(* async_call enters the run() of b above the one of a.                      *)
LEMMA FramesEnter ==
    ASSUME TypeOK, FramesInv, frames # <<>>, ~IsPaused(Running), NEW b \in Awaitables,
           b \notin Range(frames), frames' = Append(frames, b),
           caller' = [caller EXCEPT ![b] = Running], UNCHANGED prev, bound' = bound \cup {b},
           b \in Pausables => Len(frames) = 1
    PROVE  /\ FramesInv' /\ frames' \in Seq(Awaitables) /\ frames' # <<>> /\ Running' = b
           /\ Len(frames') = Len(frames) + 1
<1>1. frames \in Seq(Awaitables) /\ IsInjective(frames) /\ Range(frames) \subseteq bound
  BY DEF TypeOK, FramesInv
<1>2. PICK n \in Nat : n = Len(frames) /\ n > 0
  BY <1>1
<1>3. /\ frames' \in Seq(Awaitables) /\ IsInjective(frames') /\ Len(frames') = n + 1
      /\ Range(frames') = Range(frames) \cup {b} /\ frames' # <<>>
      /\ Last(frames') = b /\ frames'[n + 1] = b
      /\ \A i \in 1 .. n : frames'[i] = frames[i]
  BY <1>1, <1>2, FramePush
<1>4. Running = frames[n]
  BY <1>1, <1>2, FramePop DEF Running
<1>5. \A i \in 1 .. n : frames[i] # b /\ frames[i] \in Awaitables /\ caller'[frames[i]] = caller[frames[i]]
  <2>1. DOMAIN frames = 1 .. n
    BY <1>1, <1>2
  <2>2. \A i \in 1 .. n : frames[i] # b /\ frames[i] \in Awaitables
    BY <1>1, <2>1 DEF Range
  <2> QED BY <2>2 DEF TypeOK
<1>6. \A i \in 1 .. (n + 1) : i > 2 => frames'[i] \notin Pausables
  <2> SUFFICES ASSUME NEW i \in 1 .. (n + 1), i > 2 PROVE frames'[i] \notin Pausables
    OBVIOUS
  <2>1. CASE i \in 1 .. n
    BY <1>2, <1>3, <2>1 DEF FramesInv
  <2>2. CASE i = n + 1
    BY <1>2, <1>3, <2>2
  <2>3. \A m \in Nat : \A k \in 1 .. (m + 1) : k \in 1 .. m \/ k = m + 1
    OBVIOUS
  <2> QED BY <2>1, <2>2, <2>3
<1>7. ASSUME NEW i \in 1 .. n
      PROVE  /\ ~(frames'[i] \in Pausables /\ prev'[frames'[i]] # Null)
             /\ caller'[frames'[i + 1]] = frames'[i]
  <2>1. CASE i = n
    <3>1. frames'[i] = Running /\ frames'[i + 1] = b /\ caller'[b] = Running
      BY <1>2, <1>3, <1>4, <2>1 DEF TypeOK
    <3> QED BY <3>1 DEF IsPaused
  <2>2. CASE i \in 1 .. (n - 1)
    <3>1. i + 1 \in 1 .. n
      BY <2>2
    <3>2. ~IsPaused(frames[i]) /\ caller[frames[i + 1]] = frames[i]
      BY <1>2, <2>2 DEF FramesInv
    <3>3. frames'[i] = frames[i] /\ frames'[i + 1] = frames[i + 1]
          /\ caller'[frames[i + 1]] = caller[frames[i + 1]]
      BY <1>3, <1>5, <3>1
    <3> QED BY <3>2, <3>3 DEF IsPaused
  <2>3. \A m \in Nat : \A k \in 1 .. m : k = m \/ k \in 1 .. (m - 1)
    OBVIOUS
  <2> QED BY <2>1, <2>2, <2>3
<1>8. (n + 1) - 1 = n
  OBVIOUS
<1>9. FramesInv'
  BY <1>1, <1>3, <1>6, <1>7, <1>8 DEF FramesInv, IsPaused
<1> QED BY <1>2, <1>3, <1>9 DEF Running

LEMMA CallKeeps ==
    ASSUME UsedWell, CallInv, NEW a \in Awaitables, NEW b \in Awaitables, AsyncCall(a, b)
    PROVE  CallInv'
<1>1. at \in {"body", "handle"} /\ a = Running /\ ~Moving /\ frames # <<>> /\ b # a
      /\ ~IsPaused(Running)
  BY DEF AsyncCall, InUserCode, Moving, CallInv, PlaceInv
<1>2. /\ caller \in Links /\ bound \in SUBSET Awaitables /\ Stacked(caller, a, bound)
      /\ error = {} /\ (raised => at = "handle") /\ a \in bound
  BY <1>1, HereFacts
<1>3. /\ caller' = [caller EXCEPT ![b] = a] /\ bound' = bound \cup {b}
      /\ frames' = Append(frames, b) /\ UNCHANGED <<ret, top, prev>> /\ error' = {}
      /\ at' = IF b \in Pausables THEN "poll" ELSE "body"
  BY <1>2 DEF AsyncCall, Loop
<1>4. raised' = FALSE
  BY <1>2 DEF AsyncCall, Settled, CallInv, TypeOK
<1>5. b \in Pausables => Len(frames) = 1
  <2>1. frames \in Seq(Awaitables)
    BY DEF CallInv, TypeOK
  <2>2. b \in Pausables => ~(Len(frames) > 1)
    BY DEF AsyncCall, UsedWell
  <2>3. PICK n \in Nat : n = Len(frames) /\ n # 0
    BY <1>1, <2>1
  <2>4. ~(n > 1) => n = 1
    BY <2>3
  <2> QED BY <2>2, <2>3, <2>4
<1>6. b \in bound => IsPaused(b)
  BY DEF AsyncCall
<1>7. b \notin Range(frames)
  <2> SUFFICES ASSUME b \in Range(frames) PROVE FALSE
    OBVIOUS
  <2>1. frames \in Seq(Awaitables) /\ IsPaused(b)
    BY <1>6 DEF CallInv, TypeOK, FramesInv
  <2>2. PICK n \in Nat : n = Len(frames) /\ n > 0 /\ DOMAIN frames = 1 .. n
    BY <1>1, <2>1
  <2>3. PICK i \in 1 .. n : frames[i] = b
    BY <2>2 DEF Range
  <2>4. i # n
    BY <1>1, <2>2, <2>3 DEF Running, Last
  <2>5. i \in 1 .. (Len(frames) - 1)
    BY <2>2, <2>4
  <2> QED BY <2>1, <2>3, <2>5 DEF CallInv, FramesInv
<1>8. FramesInv' /\ frames' \in Seq(Awaitables) /\ frames' # <<>> /\ Running' = b
      /\ (b \in Pausables => Len(frames') = 2)
  <2>1. FramesInv' /\ frames' \in Seq(Awaitables) /\ frames' # <<>> /\ Running' = b
        /\ Len(frames') = Len(frames) + 1
    BY <1>1, <1>3, <1>5, <1>7, FramesEnter DEF CallInv
  <2>2. 1 + 1 = 2
    OBVIOUS
  <2>3. b \in Pausables => Len(frames') = 2
    BY <1>5, <2>1, <2>2
  <2> QED BY <2>1, <2>3
<1>9. TypeOK'
  <2>1. caller' \in [Awaitables -> Awaitables \cup {Task, Null}]
    BY <1>3 DEF CallInv, TypeOK
  <2> QED BY <1>2, <1>3, <1>4, <1>8, <2>1 DEF CallInv, TypeOK, Places
<1>10. caller'[b] = a /\ \A x \in Awaitables : x # b => caller'[x] = caller[x]
  BY <1>3 DEF CallInv, TypeOK
<1>11. CASE b \notin bound
  <2>1. ~IsPaused(b) /\ ~IsPaused(b)'
    BY <1>3, <1>11 DEF AsyncCall, UsedWell, IsPaused
  <2>2. ~Moving' /\ Current' = b
    BY <1>3, <1>8, <2>1 DEF Moving, Current, IsPaused
  <2>3. Stacked(caller', b, bound')
    BY <1>2, <1>3, <1>11, StackPush
  <2>4. StackInv'
    BY <2>2, <2>3 DEF StackInv, Link, From
  <2>5. PlaceInv'
    BY <1>3, <1>8, <2>1, <2>2 DEF PlaceInv, IsPaused, CallInv
  <2>6. PausedInv'
    <3> SUFFICES ASSUME NEW q \in Pausables \cap bound', prev'[q] # Null
                 PROVE  prev'[q] = caller'[q]
      BY DEF PausedInv, IsPaused
    <3>1. q # b
      BY <1>3, <2>1 DEF IsPaused
    <3>2. q \in bound /\ q \in Awaitables /\ IsPaused(q)
      BY <1>2, <1>3, <3>1 DEF IsPaused
    <3> QED BY <1>1, <1>3, <1>10, <3>1, <3>2 DEF CallInv, PausedInv
  <2>7. ErrorInv'
    BY <1>3, <1>4 DEF ErrorInv
  <2> QED BY <1>8, <1>9, <2>4, <2>5, <2>6, <2>7 DEF CallInv
<1>12. CASE b \in bound
  <2>1. b \in Pausables /\ prev[b] # Null /\ prev[b] = caller[b] /\ bound' = bound
    BY <1>1, <1>3, <1>6, <1>12 DEF CallInv, PausedInv, IsPaused
  <2>2. caller[b] # a
    <3>1. \A x \in bound : caller[x] # a
      <4>1. PICK n \in Nat : \E s \in [0 .. n -> Awaitables \cup {Task}] : Chain(n, s, caller, a, bound)
        BY <1>2 DEF Stacked
      <4>2. PICK s \in [0 .. n -> Awaitables \cup {Task}] : Chain(n, s, caller, a, bound)
        BY <4>1
      <4> SUFFICES ASSUME NEW x \in bound PROVE caller[x] # a
        OBVIOUS
      <4>3. PICK i \in 0 .. (n - 1) : s[i] = x /\ caller[x] = s[i + 1]
        BY <4>2 DEF Chain
      <4>4. CASE i = n - 1
        BY <4>2, <4>3, <4>4, StackAssumption DEF Chain
      <4>5. CASE i # n - 1
        <5>1. i + 1 \in 0 .. (n - 1) /\ 0 \in 0 .. (n - 1) /\ i + 1 # 0
          BY <4>5
        <5>2. s[i + 1] # s[0]
          BY <4>2, <5>1 DEF Chain
        <5> QED BY <4>2, <4>3, <5>2 DEF Chain
      <4> QED BY <4>4, <4>5
    <3> QED BY <1>12, <3>1
  <2>3. at' = "poll" /\ prev'[b] = caller[b] /\ prev'[b] # Null
    BY <1>3, <2>1
  <2>4. Moving' /\ Running' = b
    BY <1>8, <1>10, <2>1, <2>2, <2>3 DEF Moving, IsPaused
  <2>5. Link' = caller /\ From' = a
    <3>1. Link' = [caller' EXCEPT ![b] = prev'[b]]
      BY <2>4 DEF Link
    <3>2. From' = caller'[b]
      BY <2>4 DEF From
    <3> QED BY <1>3, <1>10, <2>3, <3>1, <3>2 DEF CallInv, TypeOK
  <2>6. StackInv'
    BY <1>2, <2>1, <2>5 DEF StackInv
  <2>7. PlaceInv'
    BY <1>3, <1>8, <2>1, <2>3 DEF PlaceInv, CallInv
  <2>8. PausedInv'
    <3> SUFFICES ASSUME NEW q \in Pausables \cap bound', prev'[q] # Null, q # b
                 PROVE  prev'[q] = caller'[q]
      BY <2>4 DEF PausedInv, IsPaused
    <3>1. q \in bound /\ q \in Awaitables /\ IsPaused(q)
      BY <1>2, <1>3, <2>1 DEF IsPaused
    <3> QED BY <1>1, <1>3, <1>10, <3>1 DEF CallInv, PausedInv
  <2>9. ErrorInv'
    BY <1>3, <1>4 DEF ErrorInv
  <2> QED BY <1>8, <1>9, <2>6, <2>7, <2>8, <2>9 DEF CallInv
<1> QED BY <1>11, <1>12

LEMMA PauseKeeps ==
    ASSUME UsedWell, CallInv, NEW a \in Awaitables, AsyncPause(a) PROVE CallInv'
<1>1. at \in {"body", "handle"} /\ a = Running /\ ~Moving /\ frames # <<>> /\ a \in Pausables
  BY DEF AsyncPause, InUserCode, Moving
<1>2. /\ caller \in Links /\ bound \in SUBSET Awaitables /\ Stacked(caller, a, bound)
      /\ error = {} /\ (raised => at = "handle") /\ a \in bound
  BY <1>1, HereFacts
<1>3. PICK c \in Awaitables : c = caller[a]
  BY <1>2, StackPop DEF AsyncPause
<1>4. /\ c \in bound /\ c # a /\ caller[c] \in Awaitables \cup {Task}
      /\ Stacked([caller EXCEPT ![c] = a, ![a] = caller[c]], c, bound)
  BY <1>2, <1>3, StackSwap
<1>5. /\ prev' = [prev EXCEPT ![a] = caller[c]]
      /\ caller' = [caller EXCEPT ![c] = a, ![a] = caller[c]]
      /\ top' = c /\ frames' = Front(frames) /\ at' = "polled" /\ ret' = "Ready"
      /\ UNCHANGED <<bound, error>> /\ ~IsPaused(c)
  BY <1>3 DEF AsyncPause, UsedWell
<1>6. raised' = FALSE
  BY <1>2 DEF AsyncPause, Settled, CallInv, TypeOK
<1>7. frames \in Seq(Awaitables) /\ IsInjective(frames) /\ Range(frames) \subseteq bound
  BY DEF CallInv, TypeOK, FramesInv
<1>8. PICK n \in Nat : n = Len(Front(frames))
  BY <1>7, <1>1, FramePop
<1>9. /\ frames' \in Seq(Awaitables) /\ IsInjective(frames') /\ Len(frames') = n
      /\ Range(frames') = Range(frames) \ {a} /\ Len(frames) = n + 1 /\ Len(frames) - 1 = n
      /\ \A i \in 1 .. n : frames'[i] = frames[i]
      /\ frames' # <<>> => n >= 1 /\ Last(frames') = frames[n]
      /\ a = frames[n + 1]
  <2>1. /\ frames' \in Seq(Awaitables) /\ IsInjective(frames') /\ Len(frames') = n
        /\ Range(frames') = Range(frames) \ {a} /\ Len(frames) = n + 1
        /\ \A i \in 1 .. n : frames'[i] = frames[i]
    BY <1>1, <1>5, <1>7, <1>8, FramePop DEF Running
  <2>2. Len(frames) - 1 = n
    BY <2>1
  <2>3. frames' # <<>> => n >= 1 /\ Last(frames') = frames[n]
    BY <1>1, <1>5, <1>7, <1>8, <2>2, FramePop
  <2>4. a = frames[Len(frames)]
    BY <1>1, <1>7, FramePop DEF Running
  <2> QED BY <2>1, <2>2, <2>3, <2>4
<1>10. n <= 1
  <2>1. n + 1 \in 1 .. Len(frames) /\ ~(n + 1 > 2)
    BY <1>1, <1>9 DEF CallInv, FramesInv
  <2> QED BY <2>1
<1>11. frames' # <<>> => n \in 1 .. (Len(frames) - 1) /\ Running' = c
  <2> SUFFICES ASSUME frames' # <<>> PROVE n \in 1 .. (Len(frames) - 1) /\ Running' = c
    OBVIOUS
  <2>1. n \in 1 .. (Len(frames) - 1)
    BY <1>9
  <2>2. caller[frames[n + 1]] = frames[n]
    BY <2>1 DEF CallInv, FramesInv
  <2> QED BY <1>3, <1>9, <2>1, <2>2 DEF Running
<1>12. FramesInv'
  <2>1. Range(frames') \subseteq bound'
    BY <1>5, <1>7, <1>9
  <2>2. \A i \in 1 .. n : ~(i > 2)
    BY <1>10
  <2>3. 1 .. (n - 1) = {}
    BY <1>10
  <2> QED BY <1>9, <2>1, <2>2, <2>3 DEF FramesInv
<1>13. TypeOK'
  <2>1. caller' \in [Awaitables -> Awaitables \cup {Task, Null}]
    BY <1>4, <1>5 DEF CallInv, TypeOK
  <2>2. prev' \in [Pausables -> Awaitables \cup {Task, Null}]
    BY <1>4, <1>5 DEF CallInv, TypeOK
  <2> QED BY <1>3, <1>5, <1>6, <1>9, <2>1, <2>2 DEF CallInv, TypeOK, Places
<1>14. ~Moving' /\ Current' = c
  BY <1>5 DEF Moving, Current
<1>15. StackInv'
  BY <1>4, <1>5, <1>14 DEF StackInv, Link, From
<1>16. PlaceInv'
  BY <1>5, <1>11, <1>14 DEF PlaceInv
<1>17. PausedInv'
  <2> SUFFICES ASSUME NEW q \in Pausables \cap bound', prev'[q] # Null
               PROVE  prev'[q] = caller'[q]
    BY DEF PausedInv, IsPaused
  <2>1. q \in bound /\ q \in Awaitables
    BY <1>2, <1>5
  <2>2. CASE q = a
    BY <1>1, <1>4, <1>5, <2>2 DEF CallInv, TypeOK
  <2>3. CASE q # a
    <3>1. prev'[q] = prev[q]
      BY <1>5, <2>3 DEF CallInv, TypeOK
    <3>2. q # c
      BY <1>5, <3>1 DEF IsPaused
    <3>3. prev[q] = caller[q]
      BY <1>1, <2>1, <3>1 DEF CallInv, PausedInv, IsPaused
    <3>4. caller'[q] = caller[q]
      BY <1>5, <2>1, <2>3, <3>2 DEF CallInv, TypeOK
    <3> QED BY <3>1, <3>3, <3>4
  <2> QED BY <2>2, <2>3
<1>18. ErrorInv'
  BY <1>2, <1>5, <1>6 DEF ErrorInv
<1> QED BY <1>12, <1>13, <1>15, <1>16, <1>17, <1>18 DEF CallInv

LEMMA PollKeeps ==
    ASSUME CallInv, NEW p \in Pausables, PollFirst(p) \/ PollPaused(p) PROVE CallInv'
<1>1. at = "poll" /\ p = Running /\ ~Moving /\ p \in Awaitables
  BY StackAssumption DEF PollFirst, PollPaused, Moving
<1>2. /\ caller \in Links /\ bound \in SUBSET Awaitables /\ Stacked(caller, p, bound)
      /\ error = {} /\ raised = FALSE /\ frames # <<>>
  BY <1>1, HereFacts DEF CallInv, TypeOK
<1>3. CASE PollPaused(p)
  <2>1. caller[p] # p
    BY <1>1, <1>2, StackPop
  <2>2. Leaves(p)
    BY <1>1, <1>2, <1>3, <2>1 DEF PollPaused, Polled, Leaves
  <2> QED BY <2>2, LeavesKeeps
<1>4. CASE PollFirst(p)
  <2>1. at' = "body" /\ UNCHANGED <<ret, top, caller, prev, bound, error, frames, raised>>
        /\ ~IsPaused(p)
    BY <1>4 DEF PollFirst
  <2>2. ~Moving' /\ Running' = p /\ Current' = p
    BY <1>1, <2>1 DEF Moving, Running, Current
  <2>3. TypeOK'
    BY <2>1 DEF CallInv, TypeOK, Places
  <2>4. StackInv'
    BY <1>2, <2>1, <2>2 DEF StackInv, Link, From
  <2>5. PlaceInv'
    BY <1>2, <2>1, <2>2 DEF CallInv, PlaceInv, IsPaused
  <2>6. FramesInv'
    BY <2>1 DEF CallInv, FramesInv, IsPaused
  <2>7. PausedInv'
    BY <1>1, <2>1 DEF CallInv, PausedInv, IsPaused
  <2>8. ErrorInv'
    BY <1>2, <2>1 DEF ErrorInv
  <2> QED BY <2>3, <2>4, <2>5, <2>6, <2>7, <2>8 DEF CallInv
<1> QED BY <1>3, <1>4

(* swap_awaitable finds its place, and p is on top of the stack again.       *)
LEMMA ReenterKeeps ==
    ASSUME CallInv, NEW p \in Pausables, Reenter(p) PROVE CallInv'
<1>1. /\ at = "poll" /\ p = Running /\ Moving /\ p \in Awaitables /\ prev[p] # Null
      /\ prev[p] # caller[p]
  BY StackAssumption DEF Reenter, Moving, IsPaused
<1>2. /\ caller \in Links /\ bound \in SUBSET Awaitables
      /\ error = {} /\ raised = FALSE /\ frames # <<>> /\ p \in bound
  BY <1>1, HereFacts DEF CallInv, TypeOK
<1>3. frames \in Seq(Awaitables) /\ Len(frames) = 2 /\ IsInjective(frames)
  BY <1>1 DEF CallInv, PlaceInv, TypeOK, FramesInv
<1>4. PICK a \in Awaitables : a = frames[1] /\ frames[2] = p /\ a # p /\ ~IsPaused(a) /\ caller[p] = a
  <2>1. 1 \in 1 .. Len(frames) /\ 2 \in 1 .. Len(frames) /\ 1 \in 1 .. (Len(frames) - 1) /\ 1 + 1 = 2
    BY <1>3
  <2>2. frames[2] = p
    BY <1>1, <1>3 DEF Running, Last
  <2>3. frames[1] \in Awaitables /\ frames[1] # frames[2]
    BY <1>3, <2>1 DEF IsInjective
  <2>4. ~IsPaused(frames[1]) /\ caller[frames[2]] = frames[1]
    BY <2>1 DEF CallInv, FramesInv
  <2> QED BY <2>2, <2>3, <2>4
<1>5. PICK link \in Links : link = [caller EXCEPT ![p] = prev[p]]
  BY <1>1, <1>2 DEF CallInv, TypeOK, Links, Nodes
<1>6. Stacked(link, a, bound) /\ link[p] = prev[p]
  BY <1>1, <1>2, <1>4, <1>5 DEF CallInv, StackInv, Link, From, Links
<1>7. \A y \in Awaitables : y # p => caller[y] = link[y]
  BY <1>2, <1>5 DEF Links
<1>8. PICK i \in Steps, x \in bound :
         /\ Walk(caller, a)[i] = x /\ x # p /\ caller[x] = p /\ link[p] \in Awaitables \cup {Task}
         /\ \A k \in Steps : Walk(caller, a)[k] \in Awaitables /\ caller[Walk(caller, a)[k]] = p => i <= k
         /\ (i > 0) = (x # a)
         /\ Stacked([caller EXCEPT ![x] = link[p]], p, bound)
  BY <1>2, <1>4, <1>6, <1>7, StackMove
<1>9. x \in Awaitables
  BY <1>2
<1>10. PICK w : w = Walk(caller, a)
  OBVIOUS
<1> DEFINE above == {k \in Steps : w[k] \in Awaitables /\ caller[w[k]] = p}
<1>11. i \in above /\ w[i] = x /\ \A k \in above : i <= k
  BY <1>8, <1>9, <1>10
<1>12. /\ IF above = {}
          THEN at' = "hung" /\ UNCHANGED <<caller, prev>>
          ELSE \E k \in above :
                 /\ \A m \in above : k <= m
                 /\ at' = "body"
                 /\ caller' = [caller EXCEPT ![w[k]] = prev[p]]
                 /\ prev' = [q \in Pausables |->
                               IF q = p THEN Null
                               ELSE IF k > 0 /\ q = w[k] THEN prev[p] ELSE prev[q]]
       /\ UNCHANGED <<ret, top, bound, error, frames, raised>>
  BY <1>4, <1>10 DEF Reenter
<1>13. /\ at' = "body" /\ caller' = [caller EXCEPT ![x] = prev[p]]
       /\ prev' = [q \in Pausables |-> IF q = p THEN Null
                                       ELSE IF x # a /\ q = x THEN prev[p] ELSE prev[q]]
       /\ UNCHANGED <<ret, top, bound, error, frames, raised>>
  <2>1. \A k \in above : k \in Nat
    BY StackAssumption, FS_CardinalityType DEF Steps
  <2>2. \A k, m \in Nat : k <= m /\ m <= k => k = m
    OBVIOUS
  <2>3. PICK k \in above :
                 /\ \A m \in above : k <= m
                 /\ at' = "body"
                 /\ caller' = [caller EXCEPT ![w[k]] = prev[p]]
                 /\ prev' = [q \in Pausables |->
                               IF q = p THEN Null
                               ELSE IF k > 0 /\ q = w[k] THEN prev[p] ELSE prev[q]]
    <3> HIDE DEF above
    <3>1. above # {}
      BY <1>11
    <3> QED BY <1>12, <3>1
  <2>4. k = i
    <3> HIDE DEF above
    <3> QED BY <1>11, <2>1, <2>2, <2>3
  <2>5. w[k] = x /\ (k > 0) = (x # a)
    BY <1>8, <1>11, <2>4
  <2>6. prev' = [q \in Pausables |-> IF q = p THEN Null
                                    ELSE IF x # a /\ q = x THEN prev[p] ELSE prev[q]]
    BY <2>3, <2>5
  <2> QED BY <1>12, <2>3, <2>5, <2>6
<1>14. Stacked(caller', p, bound')
  BY <1>6, <1>8, <1>13
<1>15. ~Moving' /\ Running' = p /\ Current' = p
  BY <1>1, <1>13 DEF Moving, Running, Current
<1>16. prev'[p] = Null /\ ~IsPaused(p)'
  BY <1>13 DEF IsPaused
<1>17. TypeOK'
  <2>1. prev[p] \in Awaitables \cup {Task, Null}
    BY DEF CallInv, TypeOK
  <2>2. caller' \in [Awaitables -> Awaitables \cup {Task, Null}]
    BY <1>13, <2>1 DEF CallInv, TypeOK
  <2>3. prev' \in [Pausables -> Awaitables \cup {Task, Null}]
    BY <1>13, <2>1 DEF CallInv, TypeOK
  <2> QED BY <1>13, <2>2, <2>3 DEF CallInv, TypeOK, Places
<1>18. StackInv'
  BY <1>14, <1>15 DEF StackInv, Link, From
<1>19. PlaceInv'
  BY <1>2, <1>13, <1>15, <1>16 DEF CallInv, PlaceInv, IsPaused
<1>20. FramesInv'
  <2>1. caller'[p] = a /\ (a \in Pausables => prev'[a] = prev[a])
    BY <1>2, <1>4, <1>8, <1>13 DEF Links
  <2>2. \A k \in 1 .. (Len(frames) - 1) : k = 1 /\ k + 1 = 2
    BY <1>3
  <2>3. \A k \in 1 .. (Len(frames') - 1) :
           /\ ~(frames'[k] \in Pausables /\ prev'[frames'[k]] # Null)
           /\ caller'[frames'[k + 1]] = frames'[k]
    BY <1>4, <1>13, <2>1, <2>2 DEF IsPaused
  <2> QED BY <1>13, <2>3 DEF CallInv, FramesInv, IsPaused
<1>21. PausedInv'
  <2> SUFFICES ASSUME NEW q \in Pausables \cap bound', prev'[q] # Null
               PROVE  prev'[q] = caller'[q]
    BY DEF PausedInv, IsPaused
  <2>1. q # p /\ q \in bound /\ q \in Awaitables
    BY <1>2, <1>13, <1>16
  <2>2. CASE q = x
    <3>1. x # a
      BY <1>4, <1>13, <2>1, <2>2 DEF IsPaused
    <3> QED BY <1>2, <1>13, <2>1, <2>2, <3>1 DEF Links
  <2>3. CASE q # x
    <3>1. prev'[q] = prev[q] /\ caller'[q] = caller[q]
      BY <1>2, <1>13, <2>1, <2>3 DEF Links
    <3>2. prev[q] = caller[q]
      BY <1>1, <2>1, <3>1 DEF CallInv, PausedInv, IsPaused
    <3> QED BY <3>1, <3>2
  <2> QED BY <2>2, <2>3
<1>22. ErrorInv'
  BY <1>2, <1>13 DEF ErrorInv
<1> QED BY <1>17, <1>18, <1>19, <1>20, <1>21, <1>22 DEF CallInv

-----------------------------------------------------------------------------
LEMMA CallInvInit == Init => CallInv
<1> SUFFICES ASSUME Init PROVE CallInv
  OBVIOUS
<1>1. TypeOK /\ frames = <<>> /\ at = "polled" /\ ~Moving /\ Current = Entry
  <2>1. frames = <<>> /\ at = "polled" /\ ~Moving /\ Current = Entry
    BY DEF Init, Moving, Current
  <2>2. caller \in [Awaitables -> Awaitables \cup {Task, Null}]
    BY DEF Init
  <2>3. prev \in [Pausables -> Awaitables \cup {Task, Null}]
    BY DEF Init
  <2>4. frames \in Seq(Awaitables)
    BY <2>1
  <2> QED BY <2>1, <2>2, <2>3, <2>4, StackAssumption DEF Init, TypeOK, Places
<1>2. StackInv
  <2>1. PICK s \in [0 .. 1 -> Awaitables \cup {Task}] :
           s = [i \in 0 .. 1 |-> IF i = 0 THEN Entry ELSE Task]
    BY StackAssumption
  <2>2. \A i \in 0 .. (1 - 1) : i = 0 /\ i + 1 = 1
    OBVIOUS
  <2>3. s[0] = Entry /\ s[1] = Task /\ caller[Entry] = Task /\ bound = {Entry}
    BY <2>1, StackAssumption DEF Init
  <2>4. Chain(1, s, caller, Entry, bound)
    BY <2>1, <2>2, <2>3 DEF Chain
  <2>5. Stacked(caller, Entry, bound)
    BY <2>4 DEF Stacked
  <2> QED BY <1>1, <2>5 DEF StackInv, Link, From
<1>3. Range(frames) = {} /\ IsInjective(frames) /\ Len(frames) = 0
  BY <1>1 DEF Range, IsInjective
<1>4. PlaceInv /\ FramesInv
  BY <1>1, <1>3 DEF Init, PlaceInv, FramesInv
<1>5. PausedInv /\ ErrorInv
  BY DEF Init, PausedInv, ErrorInv, IsPaused
<1> QED BY <1>1, <1>2, <1>4, <1>5 DEF CallInv

LEMMA CallInvStep == ASSUME UsedWell PROVE CallInv /\ [Next]_vars => CallInv'
<1> SUFFICES ASSUME CallInv, [Next]_vars PROVE CallInv'
  OBVIOUS
<1>1. CASE UNCHANGED vars
  BY <1>1 DEF vars, CallInv, TypeOK, StackInv, Link, From, Moving, Current, Running, IsPaused,
              PlaceInv, FramesInv, PausedInv, ErrorInv
<1>2. CASE Next
  BY <1>2, ReturnKeeps, SuspendKeeps, ThrowKeeps, RunKeeps, TaskKeeps, CallKeeps, PauseKeeps,
     PollKeeps, ReenterKeeps DEF Next
<1> QED BY <1>1, <1>2

(* The inductive invariant holds of every state of the call stack.           *)
THEOREM CallInvariant == ASSUME UsedWell PROVE Spec => []CallInv
<1>1. CallInv /\ [Next]_vars => CallInv'
  BY CallInvStep
<1> QED BY <1>1, CallInvInit, PTL DEF Spec

LEMMA CallInvMeans == CallInv => StackSound /\ RaisedIsKept /\ NeverHangs
<1> SUFFICES ASSUME CallInv PROVE StackSound /\ RaisedIsKept /\ NeverHangs
  OBVIOUS
<1>1. RaisedIsKept /\ NeverHangs
  BY DEF CallInv, ErrorInv, PlaceInv, RaisedIsKept, NeverHangs
<1>2. ASSUME ~Moving
      PROVE  /\ {Walk(caller, Current)[i] : i \in 0 .. (Cardinality(bound) - 1)} = bound
             /\ Walk(caller, Current)[Cardinality(bound)] = Task
  <2>1. caller \in Links /\ bound \in SUBSET Awaitables /\ Stacked(caller, Current, bound)
    BY <1>2 DEF CallInv, TypeOK, StackInv, Link, From, Links, Nodes
  <2> QED BY <2>1, StackWalk
<1> QED BY <1>1, <1>2 DEF StackSound

(* The stack that _caller links is sound: it leads from the awaitable that   *)
(* runs through every one that was called and not finalized, each once, to   *)
(* the task, whatever they call, return, throw, pause and resume.            *)
THEOREM StackIsSound == ASSUME UsedWell PROVE Spec => []StackSound
BY CallInvariant, CallInvMeans, PTL

(* An error that async_throw or an exception has raised is on its way down   *)
(* until somebody handles it.                                                *)
THEOREM ErrorsAreKept == ASSUME UsedWell PROVE Spec => []RaisedIsKept
BY CallInvariant, CallInvMeans, PTL

(* The walk of swap_awaitable always comes to its end.                       *)
THEOREM WalksEnd == ASSUME UsedWell PROVE Spec => []NeverHangs
BY CallInvariant, CallInvMeans, PTL

(* What run() or TaskQueue::cancel finalizes has left the stack.             *)
LEMMA FinalizedLeaves ==
    ASSUME CallInv, CallInv', Next
    PROVE  \A a \in bound \ bound' : a \notin Walked(caller', top')
<1> SUFFICES ASSUME bound \ bound' # {} PROVE Walked(caller', top') = bound'
  OBVIOUS
<1>1. at' \in {"polled", "exited"}
  BY DEF Next, CalleeDone, TaskRun, TaskLeave, Resume, Cancel, AsyncReturn, AsyncSuspend,
         AsyncThrow, CxxThrow, AsyncPause, Propagate, AsyncCall, PollFirst, PollPaused, Reenter,
         Polled
<1>2. ~Moving' /\ Current' = top'
  BY <1>1 DEF Moving, Current
<1>3. caller' \in Links /\ bound' \in SUBSET Awaitables /\ Stacked(caller', top', bound')
  BY <1>2 DEF CallInv, TypeOK, StackInv, Link, From, Links, Nodes
<1> QED BY <1>3, StackWalk

(* Nothing is finalized while it is on the stack.                            *)
THEOREM FinalizedInOrder == ASSUME UsedWell PROVE Spec => PausedFinalizedFirst
<1>1. CallInv /\ CallInv' /\ [Next]_vars
         => [\A a \in bound \ bound' : a \notin Walked(caller', top')]_vars
  BY FinalizedLeaves
<1> QED BY <1>1, CallInvariant, PTL DEF Spec, PausedFinalizedFirst

=============================================================================
