----------------------------- MODULE LockProofs -----------------------------
(* What is proved of lock::Lock for any tasks and threads: the counter, the  *)
(* single owner and the list of waiters, with the loop and other threads in  *)
(* between the steps of an unlock(). The argument counts claims: whoever is  *)
(* inside or waits has one, but for a user whose unlock() is under way.      *)
EXTENDS Lock, ListFacts, TLAPS

Claims == {u \in Users : phase[u] # "out" /\ u # mutex}
Queued == {u \in Users : phase[u] = "waiting" /\ u \notin woken}

TypeInv ==
    /\ count \in Nat
    /\ pending \in Seq(Users \cup {Nobody})
    /\ mutex \in Users \cup {Nobody}
    /\ phase \in [Users -> {"out", "waiting", "inside"}]
    /\ woken \subseteq Users
    /\ ready \in Seq(Tasks)
    /\ running \in Tasks \cup {Nobody}
    /\ loop \in {"pop", "body", "leave", "poll"}

(* Lock::_lock counts the claims, and one user at the most owns the lock.    *)
CountInv == count = Cardinality(Claims)
OwnerInv == \A u, w \in Owners : u = w

(* The list holds those that wait and were not woken; while an unlock() is   *)
(* under way its front is the user that was woken, the new owner.            *)
ListInv ==
    /\ IsInjective(pending)
    /\ ListIntact /\ mutex = Nobody => Range(pending) = Queued
    /\ mutex # Nobody =>
         /\ ListIntact
         /\ phase[mutex] = "inside"
         /\ pending # <<>>
         /\ Head(pending) \in Owners
         /\ Range(Tail(pending)) = Queued
    /\ ~ListIntact => Owners # {}

(* A task that waits and was not woken is neither listed as ready nor in its *)
(* body: the loop does not run AsyncLock::locked for it.                     *)
LoopInv ==
    /\ IsInjective(ready)
    /\ running \notin Range(ready)
    /\ \A u \in woken : phase[u] = "waiting"
    /\ \A t \in Tasks : phase[t] = "waiting" /\ t \notin woken =>
                           t \notin Range(ready) /\ ~InBody(t)

(* Unless a woken task is cancelled, no claim is left without an owner.      *)
HeldInv == ~CancelWoken => (Owners = {} => Claims = {})

IndInv == TypeInv /\ CountInv /\ OwnerInv /\ ListInv /\ LoopInv /\ HeldInv

-----------------------------------------------------------------------------
(* Task::resume keeps a ready list sound: a task that is listed or runs is   *)
(* not listed again.                                                         *)
LEMMA ResumeFacts ==
    ASSUME ready \in Seq(Tasks), IsInjective(ready), running \notin Range(ready),
           NEW t \in Tasks, Resume(t)
    PROVE  /\ ready' \in Seq(Tasks) /\ IsInjective(ready')
           /\ running \notin Range(ready')
           /\ Range(ready') \subseteq Range(ready) \cup {t}
<1>1. Contains(ready, t) <=> t \in Range(ready)
  BY DEF Contains, Range
<1>2. CASE t = running \/ t \in Range(ready)
  BY <1>1, <1>2 DEF Resume
<1>3. CASE t # running /\ t \notin Range(ready)
  <2>1. ready' = <<t>> \o ready
    BY <1>1, <1>3 DEF Resume
  <2> QED BY <1>3, <2>1, PushFacts
<1> QED BY <1>2, <1>3

(* A list with an entry that is no user is not intact, and conversely.       *)
LEMMA IntactFacts ==
    ASSUME UsersApart, NEW s \in Seq(Users \cup {Nobody})
    PROVE  ~Contains(s, Nobody) <=> s \in Seq(Users)
<1>1. ASSUME ~Contains(s, Nobody) PROVE s \in Seq(Users)
  <2>1. \A i \in 1..Len(s) : s[i] \in Users
    BY <1>1 DEF Contains
  <2> QED BY <2>1
<1>2. ASSUME s \in Seq(Users) PROVE ~Contains(s, Nobody)
  BY <1>2 DEF Contains, UsersApart
<1> QED BY <1>1, <1>2

(* Claims are finitely many, so that the counter can be compared with them.  *)
LEMMA ClaimsFacts ==
    ASSUME UsersApart, NEW S \in SUBSET Users
    PROVE  /\ IsFiniteSet(S) /\ Cardinality(S) \in Nat
           /\ Cardinality(S) = 0 <=> S = {}
           /\ \A u : Cardinality(S \cup {u}) =
                        IF u \in S THEN Cardinality(S) ELSE Cardinality(S) + 1
           /\ \A u \in S : Cardinality(S \ {u}) = Cardinality(S) - 1
<1>1. IsFiniteSet(S)
  BY FS_Subset DEF UsersApart
<1> QED BY <1>1, FS_CardinalityType, FS_EmptySet, FS_AddElement, FS_RemoveElement

LEMMA LockInit == ASSUME UsersApart PROVE Init => IndInv
<1> SUFFICES ASSUME Init PROVE IndInv
  OBVIOUS
<1>1. Claims = {} /\ Owners = {} /\ Queued = {}
  BY DEF Init, Claims, Owners, Inside, Granted, Queued
<1>2. Cardinality({}) = 0
  BY FS_EmptySet
<1>3. TypeInv /\ ListIntact /\ Range(pending) = {} /\ Range(ready) = {}
  BY DEF Init, TypeInv, ListIntact, Contains, Range
<1>4. CountInv /\ OwnerInv /\ HeldInv
  BY <1>1, <1>2 DEF Init, CountInv, OwnerInv, HeldInv
<1>5. ListInv
  BY <1>1, <1>3 DEF Init, ListInv, IsInjective
<1>6. LoopInv
  BY <1>3 DEF Init, LoopInv, IsInjective, InBody, Users
<1> QED BY <1>3, <1>4, <1>5, <1>6 DEF IndInv

(* The loop and the events of the program leave the lock alone.              *)
LEMMA LoopKeeps ==
    ASSUME UsersApart, IndInv, UNCHANGED <<lockVars, phase, woken>>,
           RunTask \/ StoreSuspended \/ PollDone \/
              (\E t \in Tasks : SuspendBody(t) \/ EventResume(t)) \/ UNCHANGED vars
    PROVE  IndInv'
<1> USE DEF IndInv, lockVars
<1>1. Claims' = Claims /\ Owners' = Owners /\ Queued' = Queued /\ (ListIntact' <=> ListIntact)
  BY DEF Claims, Owners, Inside, Granted, Queued, ListIntact
<1>2. CountInv' /\ OwnerInv' /\ HeldInv' /\ ListInv'
  BY <1>1 DEF CountInv, OwnerInv, HeldInv, ListInv
<1>3. TypeInv' /\ LoopInv'
  <2>1. CASE RunTask /\ ready = <<>>
    BY <2>1 DEF RunTask, TypeInv, LoopInv, InBody
  <2>2. CASE RunTask /\ ready # <<>>
    <3>1. /\ loop' = "body" /\ running' = Head(ready) /\ ready' = Tail(ready)
      BY <2>2 DEF RunTask
    <3>2. /\ Head(ready) \in Tasks /\ Head(ready) \in Range(ready) /\ ready' \in Seq(Tasks)
          /\ Range(ready') = Range(ready) \ {Head(ready)} /\ IsInjective(ready')
      BY <2>2, <3>1, PopFacts DEF TypeInv, LoopInv
    <3> QED BY <3>1, <3>2 DEF TypeInv, LoopInv, InBody
  <2>3. CASE StoreSuspended
    <3>1. Nobody \notin Range(ready)
      BY DEF TypeInv, UsersApart, Users, Range
    <3> QED BY <2>3, <3>1 DEF StoreSuspended, TypeInv, LoopInv, InBody
  <2>4. CASE PollDone
    BY <2>4 DEF PollDone, TypeInv, LoopInv, InBody
  <2>5. ASSUME NEW t \in Tasks, SuspendBody(t) PROVE TypeInv' /\ LoopInv'
    BY <2>5 DEF SuspendBody, TypeInv, LoopInv, InBody
  <2>6. ASSUME NEW t \in Tasks, EventResume(t) PROVE TypeInv' /\ LoopInv'
    <3>1. /\ ready' \in Seq(Tasks) /\ IsInjective(ready') /\ running \notin Range(ready')
          /\ Range(ready') \subseteq Range(ready) \cup {t}
      BY <2>6, ResumeFacts DEF EventResume, TypeInv, LoopInv
    <3> QED BY <2>6, <3>1 DEF EventResume, TypeInv, LoopInv, InBody
  <2>7. CASE UNCHANGED vars
    BY <2>7 DEF vars, loopVars, TypeInv, LoopInv, InBody
  <2> QED BY <2>1, <2>2, <2>3, <2>4, <2>5, <2>6, <2>7
<1> QED BY <1>2, <1>3

(* A user that was woken enters: AsyncLock::locked, the return of lock().    *)
LEMMA EnterKeeps ==
    ASSUME UsersApart, IndInv,
           NEW u \in Users, phase[u] = "waiting", u \in woken,
           phase' = [phase EXCEPT ![u] = "inside"], woken' = woken \ {u},
           UNCHANGED <<lockVars, loopVars>>
    PROVE  IndInv'
<1> USE DEF IndInv, lockVars, loopVars
<1>1. u # mutex /\ phase'[u] = "inside" /\ \A w \in Users \ {u} : phase'[w] = phase[w]
  BY DEF TypeInv, ListInv, UsersApart
<1>2. Claims' = Claims
  BY <1>1 DEF Claims
<1>3. Owners' = Owners
  BY <1>1 DEF Owners, Inside, Granted
<1>4. Queued' = Queued /\ (ListIntact' <=> ListIntact)
  BY <1>1 DEF Queued, ListIntact
<1>5. CountInv' /\ OwnerInv' /\ HeldInv'
  BY <1>2, <1>3 DEF CountInv, OwnerInv, HeldInv
<1>6. ListInv'
  BY <1>1, <1>3, <1>4 DEF ListInv, TypeInv
<1>7. TypeInv'
  BY DEF TypeInv
<1>8. LoopInv'
  BY <1>1 DEF LoopInv, InBody, Users, TypeInv
<1> QED BY <1>5, <1>6, <1>7, <1>8

(* lock() and AsyncLock::try_lock take one claim: that of the owner when     *)
(* there was none, at the front of the list otherwise.                       *)
LEMMA AcquireKeeps ==
    ASSUME UsersApart, IndInv, NEW u \in Users, Acquire(u),
           u \in Tasks => u \notin Range(ready),
           ready' = ready /\ running' = running /\ loop' \in {"pop", "body", "leave", "poll"},
           (loop' = "body" /\ running \in Tasks) =>
               loop = "body" /\ (phase'[running] = "waiting" => running # u)
    PROVE  IndInv'
<1> USE DEF IndInv
<1>1. ListIntact /\ mutex = Nobody /\ mutex' = Nobody /\ phase[u] = "out" /\ woken' = woken
      /\ count' = count + 1
  BY DEF Acquire
<1>2. u \notin Claims /\ u \notin woken /\ u \notin Queued
  BY <1>1 DEF Claims, Queued, LoopInv
<1>3. pending \in Seq(Users) /\ Range(pending) = Queued
  BY <1>1, IntactFacts DEF TypeInv, ListIntact, ListInv
<1>4. count = 0 <=> Claims = {}
  BY ClaimsFacts DEF CountInv, Claims
<1>5. Owners \subseteq Claims
  BY DEF Owners, Claims, Inside, Granted, ListInv, TypeInv, UsersApart
<1>6. \A w \in Users \ {u} : phase'[w] = phase[w]
  BY DEF Acquire, TypeInv
<1>7. Claims' = Claims \cup {u} /\ CountInv'
  <2>1. Claims' = Claims \cup {u}
    BY <1>1, <1>6 DEF Claims, Acquire, TypeInv, UsersApart
  <2>2. Cardinality(Claims \cup {u}) = Cardinality(Claims) + 1
    BY <1>2, ClaimsFacts DEF Claims
  <2> QED BY <1>1, <2>1, <2>2 DEF CountInv
<1>8. LoopInv'
  BY <1>1, <1>2, <1>6 DEF LoopInv, InBody, Users, TypeInv
<1>9. CASE count = 0
  <2>1. phase'[u] = "inside" /\ pending' = pending /\ Claims = {} /\ Owners = {}
    BY <1>4, <1>5, <1>9 DEF Acquire, TypeInv
  <2>2. Owners' = {u}
    <3>1. \A w \in Users \ {u} : phase'[w] = "out"
      BY <1>1, <1>6, <2>1 DEF Claims, TypeInv, UsersApart
    <3> QED BY <1>1, <2>1, <3>1 DEF Owners, Inside, Granted, UsersApart
  <2>3. Queued' = Queued /\ ListIntact'
    BY <1>1, <1>6, <2>1 DEF Queued, ListIntact
  <2>4. ListInv'
    BY <1>1, <1>3, <2>1, <2>3 DEF ListInv
  <2>5. TypeInv'
    BY <1>1, <1>9 DEF TypeInv, Acquire
  <2> QED BY <1>7, <1>8, <2>2, <2>4, <2>5 DEF OwnerInv, HeldInv
<1>10. CASE count # 0
  <2>1. phase'[u] = "waiting" /\ pending' = <<u>> \o pending
    BY <1>10 DEF Acquire, TypeInv
  <2>2. Owners' = Owners
    BY <1>1, <1>2, <1>6, <2>1 DEF Owners, Inside, Granted
  <2>3. Queued' = Queued \cup {u}
    BY <1>1, <1>2, <1>6, <2>1 DEF Queued
  <2>4. /\ pending' \in Seq(Users) /\ Range(pending') = {u} \cup Range(pending)
        /\ IsInjective(pending')
    BY <1>2, <1>3, <2>1, PushFacts DEF ListInv
  <2>5. TypeInv' /\ ListIntact'
    <3>1. pending' \in Seq(Users \cup {Nobody})
      BY <2>4
    <3>2. TypeInv'
      <4>1. count' \in Nat /\ phase' = [phase EXCEPT ![u] = "waiting"]
        BY <1>1, <1>10 DEF TypeInv, Acquire
      <4> QED BY <1>1, <3>1, <4>1 DEF TypeInv
    <3>3. ~Contains(pending', Nobody)
      BY <2>4, <3>1, IntactFacts
    <3> QED BY <3>2, <3>3 DEF ListIntact
  <2>6. ListInv'
    BY <1>1, <1>3, <2>3, <2>4, <2>5 DEF ListInv
  <2>7. OwnerInv' /\ HeldInv'
    BY <1>4, <1>10, <2>2 DEF OwnerInv, HeldInv
  <2> QED BY <1>7, <1>8, <2>5, <2>6, <2>7
<1> QED BY <1>9, <1>10

(* unlock() up to the wake(): the claim is given up; the front of the list,  *)
(* if there is one, owns the lock from now on.                               *)
LEMMA UnlockKeeps ==
    ASSUME UsersApart, IndInv, NEW u \in Users, Unlock(u)
    PROVE  IndInv'
<1> USE DEF IndInv
<1>1. ListIntact /\ mutex = Nobody /\ phase[u] = "inside" /\ count' = count - 1
      /\ pending' = pending /\ running' = running /\ loop' = loop
  BY DEF Unlock
<1>2. u # Nobody /\ u \in Owners /\ Owners = {u} /\ u \in Claims /\ u \notin woken
  BY <1>1 DEF UsersApart, Owners, Inside, Claims, OwnerInv, LoopInv
<1>3. pending \in Seq(Users) /\ Range(pending) = Queued /\ ListIntact'
  BY <1>1, IntactFacts DEF TypeInv, ListIntact, ListInv
<1>4. Cardinality(Claims \ {u}) = count - 1 /\ count \in Nat \ {0}
  <2>1. Cardinality(Claims \ {u}) \in Nat
    BY ClaimsFacts DEF Claims
  <2>2. Cardinality(Claims \ {u}) = count - 1
    BY <1>2, ClaimsFacts DEF Claims, CountInv
  <2> QED BY <2>1, <2>2 DEF TypeInv
<1>5. Claims = {u} \cup Queued
  <2>1. \A w \in Claims : w = u \/ w \in Queued
    BY <1>1, <1>2 DEF Claims, Owners, Inside, Granted, Queued, TypeInv, UsersApart
  <2>2. \A w \in Queued : w \in Claims
    BY <1>1 DEF Queued, Claims, UsersApart
  <2> QED BY <1>2, <2>1, <2>2
<1>6. count = 1 <=> Queued = {}
  <2>1. Claims \ {u} = Queued
    BY <1>1, <1>5 DEF Queued
  <2>2. Cardinality(Queued) = 0 <=> Queued = {}
    BY ClaimsFacts DEF Queued
  <2> QED BY <1>4, <2>1, <2>2
<1>7. CASE count = 1
  <2>1. phase' = [phase EXCEPT ![u] = "out"] /\ mutex' = Nobody /\ woken' = woken /\ ready' = ready
    BY <1>1, <1>7 DEF Unlock
  <2>2. phase'[u] = "out" /\ \A w \in Users \ {u} : phase'[w] = phase[w]
    BY <2>1 DEF TypeInv
  <2>3. Claims' = Claims \ {u}
    BY <1>1, <2>1, <2>2 DEF Claims
  <2>4. Claims' = {} /\ Queued' = {} /\ Owners' = {}
    <3>1. Queued' = Queued
      BY <1>1, <2>1, <2>2 DEF Queued
    <3>2. Owners' = {}
      BY <1>1, <1>2, <2>1, <2>2 DEF Owners, Inside, Granted
    <3> QED BY <1>5, <1>6, <1>7, <2>3, <3>1, <3>2
  <2>5. CountInv' /\ OwnerInv' /\ HeldInv'
    BY <1>1, <1>4, <2>3, <2>4 DEF CountInv, OwnerInv, HeldInv
  <2>6. ListInv'
    BY <1>1, <1>3, <1>6, <1>7, <2>1, <2>4 DEF ListInv
  <2>7. TypeInv' /\ LoopInv'
    BY <1>1, <1>2, <1>4, <2>1, <2>2 DEF TypeInv, LoopInv, InBody, Users
  <2> QED BY <2>5, <2>6, <2>7
<1>8. CASE count # 1
  <2> DEFINE f == Head(pending)
  <2>1. pending # <<>> /\ PendingFront = f
    BY <1>3, <1>6, <1>8 DEF PendingFront, Range
  <2>2. /\ f \in Users /\ f \in Range(pending) /\ Range(Tail(pending)) = Queued \ {f}
    BY <1>3, <2>1, PopFacts DEF ListInv
  <2> HIDE DEF f
  <2>3. f \in Queued /\ phase[f] = "waiting" /\ f \notin woken /\ f # u
    BY <1>1, <1>3, <2>2 DEF Queued
  <2>4. mutex' = u /\ woken' = woken \cup {f} /\ phase' = phase
        /\ IF f \in Tasks THEN Resume(f) ELSE ready' = ready
    BY <1>8, <2>1 DEF Unlock
  <2>5. Claims' = Claims \ {u}
    BY <1>1, <2>4 DEF Claims, TypeInv, UsersApart
  <2>6. Queued' = Queued \ {f}
    BY <2>4 DEF Queued
  <2>7. Owners' = {f}
    BY <1>1, <1>2, <2>2, <2>3, <2>4 DEF Owners, Inside, Granted, UsersApart
  <2>8. CountInv' /\ OwnerInv' /\ HeldInv'
    BY <1>1, <1>4, <2>5, <2>7 DEF CountInv, OwnerInv, HeldInv
  <2>9. ListInv'
    <3>1. f = Head(pending)
      BY DEF f
    <3> QED BY <1>1, <1>2, <1>3, <2>1, <2>2, <2>4, <2>6, <2>7, <3>1 DEF ListInv
  <2>10. /\ ready' \in Seq(Tasks) /\ IsInjective(ready') /\ running \notin Range(ready')
         /\ Range(ready') \subseteq Range(ready) \cup {f}
    BY <2>4, ResumeFacts DEF TypeInv, LoopInv
  <2>11. TypeInv' /\ LoopInv'
    BY <1>1, <1>4, <2>2, <2>3, <2>4, <2>10 DEF TypeInv, LoopInv, InBody, Users
  <2> QED BY <2>8, <2>9, <2>11
<1> QED BY <1>7, <1>8

(* The rest of unlock(): the front has left the list, or, where the woken    *)
(* thread has gone already, the list is destroyed; the owner stays.          *)
LEMMA UnlockPopKeeps ==
    ASSUME UsersApart, IndInv, NEW u \in Users, UnlockPop(u)
    PROVE  IndInv'
<1> USE DEF IndInv
<1>1. mutex = u /\ mutex' = Nobody /\ u # Nobody /\ count' = count /\ woken' = woken
      /\ phase' = [phase EXCEPT ![u] = "out"]
      /\ ready' = ready /\ running' = running /\ loop' = loop
  BY DEF UnlockPop, UsersApart, loopVars
<1>2. /\ ListIntact /\ phase[u] = "inside" /\ pending # <<>>
      /\ Head(pending) \in Owners /\ Range(Tail(pending)) = Queued
  BY <1>1 DEF ListInv
<1>3. pending \in Seq(Users)
  BY <1>2, IntactFacts DEF TypeInv, ListIntact
<1>4. phase'[u] = "out" /\ \A w \in Users \ {u} : phase'[w] = phase[w]
  BY <1>1 DEF TypeInv
<1>5. u \notin woken
  BY <1>2 DEF LoopInv
<1>6. Claims' = Claims
  BY <1>1, <1>4 DEF Claims, UsersApart
<1>7. Owners' = Owners
  BY <1>1, <1>2, <1>4 DEF Owners, Inside, Granted, UsersApart
<1>8. Queued' = Queued
  BY <1>1, <1>2, <1>4 DEF Queued
<1>9. CountInv' /\ OwnerInv' /\ HeldInv'
  BY <1>1, <1>6, <1>7 DEF CountInv, OwnerInv, HeldInv
<1>10. LoopInv'
  BY <1>1, <1>4, <1>5 DEF LoopInv, InBody, Users, TypeInv
<1>11. CASE pending' = PopFront
  <2>1. pending' = Tail(pending)
    BY <1>2, <1>11 DEF PopFront
  <2>2. pending' \in Seq(Users) /\ IsInjective(pending') /\ Range(pending') = Queued
    BY <1>2, <1>3, <2>1, PopFacts DEF ListInv
  <2>3. TypeInv'
    BY <1>1, <2>2 DEF TypeInv
  <2>4. ListIntact'
    <3>1. pending' \in Seq(Users \cup {Nobody})
      BY <2>3 DEF TypeInv
    <3>2. ~Contains(pending', Nobody)
      BY <2>2, <3>1, IntactFacts
    <3> QED BY <3>2 DEF ListIntact
  <2>5. ListInv'
    BY <1>1, <1>8, <2>2, <2>4 DEF ListInv
  <2> QED BY <1>9, <1>10, <2>3, <2>5
<1>12. CASE pending' = <<Nobody>>
  <2>1. TypeInv'
    BY <1>1, <1>12 DEF TypeInv
  <2>2. IsInjective(pending') /\ ~ListIntact'
    BY <1>12 DEF IsInjective, ListIntact, Contains
  <2>3. ListInv'
    BY <1>1, <1>2, <1>7, <2>2 DEF ListInv
  <2> QED BY <1>9, <1>10, <2>1, <2>3
<1> QED BY <1>11, <1>12 DEF UnlockPop

(* AsyncLock::async_finalize of a task that waits: it gives up its claim and *)
(* leaves the list.                                                          *)
LEMMA CancelKeeps ==
    ASSUME UsersApart, IndInv, NEW t \in Tasks, Cancel(t)
    PROVE  IndInv'
<1> USE DEF IndInv
<1>1. /\ phase[t] = "waiting" /\ t # running /\ ListIntact /\ mutex = Nobody
      /\ (t \in woken => CancelWoken)
      /\ count' = count - 1 /\ pending' = RemoveFirst(pending, t)
      /\ phase' = [phase EXCEPT ![t] = "out"] /\ woken' = woken \ {t}
      /\ ready' = RemoveFirst(ready, t)
      /\ mutex' = mutex /\ running' = running /\ loop' = loop
  BY DEF Cancel
<1>2. t \in Users /\ t \in Claims
  BY <1>1 DEF Users, Claims, UsersApart
<1>3. pending \in Seq(Users) /\ Range(pending) = Queued
  BY <1>1, IntactFacts DEF TypeInv, ListIntact, ListInv
<1>4. phase'[t] = "out" /\ \A w \in Users \ {t} : phase'[w] = phase[w]
  BY <1>1, <1>2 DEF TypeInv
<1>5. Cardinality(Claims \ {t}) = count - 1 /\ count - 1 \in Nat
  <2>1. Cardinality(Claims \ {t}) \in Nat
    BY ClaimsFacts DEF Claims
  <2>2. Cardinality(Claims \ {t}) = count - 1
    BY <1>2, ClaimsFacts DEF Claims, CountInv
  <2> QED BY <2>1, <2>2
<1>6. Claims' = Claims \ {t} /\ Queued' = Queued \ {t} /\ Owners' = Owners \ {t}
  BY <1>1, <1>2, <1>4 DEF Claims, Queued, Owners, Inside, Granted
<1>7. /\ pending' \in Seq(Users) /\ Range(pending') = Range(pending) \ {t}
      /\ IsInjective(pending')
  BY <1>1, <1>3, EraseFacts DEF ListInv
<1>8. /\ ready' \in Seq(Tasks) /\ Range(ready') = Range(ready) \ {t} /\ IsInjective(ready')
  BY <1>1, EraseFacts DEF TypeInv, LoopInv
<1>9. TypeInv' /\ ListIntact'
  <2>1. pending' \in Seq(Users \cup {Nobody})
    BY <1>7
  <2>2. TypeInv'
    BY <1>1, <1>2, <1>5, <1>8, <2>1 DEF TypeInv
  <2>3. ~Contains(pending', Nobody)
    BY <1>7, <2>1, IntactFacts
  <2> QED BY <2>2, <2>3 DEF ListIntact
<1>10. CountInv' /\ OwnerInv'
  BY <1>1, <1>5, <1>6 DEF CountInv, OwnerInv
<1>11. ListInv'
  BY <1>1, <1>3, <1>6, <1>7, <1>9 DEF ListInv
<1>12. LoopInv'
  BY <1>1, <1>4, <1>8 DEF LoopInv, InBody, Users, TypeInv
<1>13. HeldInv'
  <2> SUFFICES ASSUME ~CancelWoken, Owners' = {} PROVE Claims' = {}
    BY DEF HeldInv
  <2>1. t \notin Owners
    BY <1>1 DEF Owners, Inside, Granted
  <2> QED BY <1>6, <2>1 DEF HeldInv
<1> QED BY <1>9, <1>10, <1>11, <1>12, <1>13

LEMMA LockStep == ASSUME UsersApart PROVE IndInv /\ [Next]_vars => IndInv'
<1> SUFFICES ASSUME IndInv, [Next]_vars PROVE IndInv'
  OBVIOUS
<1>1. CASE RunTask
  BY <1>1, LoopKeeps DEF RunTask
<1>2. CASE StoreSuspended
  BY <1>2, LoopKeeps DEF StoreSuspended
<1>3. CASE PollDone
  BY <1>3, LoopKeeps DEF PollDone
<1>4. ASSUME NEW t \in Tasks, Locked(t) PROVE IndInv'
  <2>1. t \in Users /\ phase[t] = "waiting" /\ t \in woken
    BY <1>4 DEF Locked, IndInv, LoopInv, Users
  <2> QED BY <1>4, <2>1, EnterKeeps DEF Locked
<1>5. ASSUME NEW t \in Tasks, SuspendBody(t) PROVE IndInv'
  BY <1>5, LoopKeeps DEF SuspendBody
<1>6. ASSUME NEW t \in Tasks, EventResume(t) PROVE IndInv'
  BY <1>6, LoopKeeps DEF EventResume
<1>7. ASSUME NEW t \in Tasks, TryLock(t) PROVE IndInv'
  <2>1. /\ t \in Users /\ running = t /\ loop = "body" /\ t \notin Range(ready)
        /\ ready' = ready /\ running' = running /\ Acquire(t)
        /\ loop' = IF count = 0 THEN "body" ELSE "leave"
    BY <1>7 DEF TryLock, InBody, IndInv, LoopInv, Users
  <2>2. count = 0 => phase'[t] = "inside"
    BY <2>1 DEF Acquire, IndInv, TypeInv
  <2> QED BY <2>1, <2>2, AcquireKeeps
<1>8. ASSUME NEW t \in Tasks, Cancel(t) PROVE IndInv'
  BY <1>8, CancelKeeps
<1>9. ASSUME NEW h \in Threads, ThreadLock(h) PROVE IndInv'
  <2>1. /\ h \in Users /\ h \notin Tasks /\ Acquire(h)
        /\ ready' = ready /\ running' = running /\ loop' = loop
    BY <1>9 DEF ThreadLock, loopVars, UsersApart, Users
  <2>2. loop \in {"pop", "body", "leave", "poll"}
    BY DEF IndInv, TypeInv
  <2> QED BY <2>1, <2>2, AcquireKeeps
<1>10. ASSUME NEW h \in Threads, ThreadLocked(h) PROVE IndInv'
  <2>1. h \in Users /\ phase[h] = "waiting" /\ h \in woken
    BY <1>10 DEF ThreadLocked, Users
  <2> QED BY <1>10, <2>1, EnterKeeps DEF ThreadLocked
<1>11. ASSUME NEW u \in Users, Unlock(u) PROVE IndInv'
  BY <1>11, UnlockKeeps
<1>12. ASSUME NEW u \in Users, UnlockPop(u) PROVE IndInv'
  BY <1>12, UnlockPopKeeps
<1>13. CASE UNCHANGED vars
  BY <1>13, LoopKeeps DEF vars
<1> QED BY <1>1, <1>2, <1>3, <1>4, <1>5, <1>6, <1>7, <1>8, <1>9, <1>10, <1>11, <1>12, <1>13
        DEF Next, LoopStep

(* The state of the lock, its list, its users and the loop keep to IndInv,   *)
(* whatever the threads and the loop do between the steps of each other.     *)
THEOREM LockInvariant == ASSUME UsersApart PROVE Spec => []IndInv
<1>1. Init => IndInv
  BY LockInit
<1>2. IndInv /\ [Next]_vars => IndInv'
  BY LockStep
<1> QED BY <1>1, <1>2, PTL DEF Spec

(* The counter is at most the number of users, and all else has its type.    *)
THEOREM LockTypes == ASSUME UsersApart PROVE Spec => []TypeOK
<1>1. IndInv => TypeOK
  <2> SUFFICES ASSUME IndInv PROVE TypeOK
    OBVIOUS
  <2>1. Cardinality(Claims) <= Cardinality(Users) /\ Cardinality(Users) \in Nat
    BY FS_Subset, FS_CardinalityType DEF UsersApart, Claims
  <2> QED BY <2>1 DEF IndInv, TypeInv, TypeOK, CountInv
<1> QED BY <1>1, LockInvariant, PTL

(* At most one user is inside or about to enter, and Lock::_lock is exactly  *)
(* the owner and those that wait, also when a woken task is cancelled.       *)
THEOREM LockExclusion ==
    ASSUME UsersApart
    PROVE  Spec => [](MutualExclusion /\ CountExact)
<1>1. IndInv => MutualExclusion /\ CountExact
  <2> SUFFICES ASSUME IndInv PROVE MutualExclusion /\ CountExact
    OBVIOUS
  <2> USE DEF IndInv
  <2>1. Owners \subseteq Users /\ Queued \subseteq Users /\ Owners \cap Queued = {}
    BY DEF Owners, Inside, Granted, Queued
  <2>2. IsFiniteSet(Owners) /\ IsFiniteSet(Queued)
    BY <2>1, ClaimsFacts
  <2>3. Cardinality(Owners) <= 1
    <3>1. CASE Owners = {}
      BY <3>1, FS_EmptySet
    <3>2. CASE Owners # {}
      <4>1. PICK u : Owners = {u}
        BY <3>2 DEF OwnerInv
      <4> QED BY <4>1, FS_Singleton
    <3> QED BY <3>1, <3>2
  <2>4. Claims = Owners \cup Queued
    BY DEF Claims, Owners, Inside, Granted, Queued, TypeInv, ListInv, UsersApart
  <2>5. Cardinality(Claims) = Cardinality(Owners) + Cardinality(Queued)
    <3>1. Cardinality(Owners \cup Queued)
            = Cardinality(Owners) + Cardinality(Queued) - Cardinality(Owners \cap Queued)
      BY <2>2, FS_Union
    <3>2. Cardinality({}) = 0 /\ Cardinality(Owners) \in Nat /\ Cardinality(Queued) \in Nat
      BY <2>2, FS_EmptySet, FS_CardinalityType
    <3>3. Cardinality(Owners \cap Queued) = 0
      BY <2>1, <3>2
    <3> QED BY <2>4, <3>1, <3>2, <3>3
  <2>6. ASSUME ListIntact PROVE Range(pending) \ (woken \cup Inside) = Queued
    <3>1. \A w \in Queued : w \notin woken /\ w \notin Inside
      BY DEF Queued, Inside
    <3>2. CASE mutex = Nobody
      BY <2>6, <3>1, <3>2 DEF ListInv
    <3>3. CASE mutex # Nobody
      <4>1. pending \in Seq(Users) /\ pending # <<>> /\ IsInjective(pending)
            /\ Head(pending) \in Owners /\ Range(Tail(pending)) = Queued
        BY <2>6, <3>3, IntactFacts DEF ListInv, ListIntact, TypeInv
      <4>2. Head(pending) \in Range(pending) /\ Queued = Range(pending) \ {Head(pending)}
        BY <4>1, PopFacts
      <4>3. Head(pending) \in woken \cup Inside
        BY <4>1 DEF Owners, Granted
      <4> QED BY <3>1, <4>2, <4>3
    <3> QED BY <3>2, <3>3
  <2> QED BY <2>3, <2>5, <2>6 DEF MutualExclusion, CountExact, CountInv
<1> QED BY <1>1, LockInvariant, PTL

(* Whoever waits can count on an unlock(), unless a woken task is cancelled. *)
THEOREM WaitersServed ==
    ASSUME UsersApart, ~CancelWoken
    PROVE  Spec => []WaitersHaveOwner
<1>1. IndInv => WaitersHaveOwner
  <2> SUFFICES ASSUME IndInv, pending # <<>> PROVE Owners # {}
    BY DEF WaitersHaveOwner
  <2> USE DEF IndInv
  <2>1. CASE mutex # Nobody \/ ~ListIntact
    BY <2>1 DEF ListInv
  <2>2. CASE mutex = Nobody /\ ListIntact
    <3>1. pending[1] \in Range(pending)
      BY DEF TypeInv, Range
    <3>2. Queued # {}
      BY <2>2, <3>1 DEF ListInv
    <3>3. Queued \subseteq Claims
      BY <2>2 DEF Queued, Claims, UsersApart
    <3> QED BY <3>2, <3>3 DEF HeldInv
  <2> QED BY <2>1, <2>2
<1> QED BY <1>1, LockInvariant, PTL

=============================================================================
