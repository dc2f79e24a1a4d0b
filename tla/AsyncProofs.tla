---------------------------- MODULE AsyncProofs -----------------------------
(* What MCAsync checks on small instances of the awaitables, proved for all  *)
(* of them. The proofs of Lock and Queue are in LockProofs and QueueProofs;  *)
(* the other parts leave the variables of a part alone, so that what is      *)
(* proved of its steps holds in every behaviour of the composition.          *)
EXTENDS MCAsync, ListFacts, TLAPS

LP == INSTANCE LockProofs WITH phase <- stage
QP == INSTANCE QueueProofs

allVars == <<part, vars, lockVars, queueVars, v, j>>

-----------------------------------------------------------------------------
(* The lock of the composition is that of LockProofs.                        *)
LEMMA SameRemoveFirst ==
    ASSUME NEW s, NEW x
    PROVE  L!RemoveFirst(s, x) = LP!RemoveFirst(s, x)
BY DEF L!RemoveFirst, LP!RemoveFirst, L!RemoveAt, LP!RemoveAt, L!SelectInSeq, LP!SelectInSeq,
       L!Min, LP!Min

LEMMA SameCardinality ==
    ASSUME NEW S
    PROVE  L!Cardinality(S) = LP!Cardinality(S) /\ Q!Cardinality(S) = QP!Cardinality(S)
BY DEF L!Cardinality, LP!Cardinality, Q!Cardinality, QP!Cardinality

LEMMA SameLockStep == L!Next => LP!Next
<1>1. ASSUME L!RunTask PROVE LP!RunTask
  BY <1>1 DEF L!RunTask, LP!RunTask, L!lockVars, LP!lockVars
<1>2. ASSUME L!StoreSuspended PROVE LP!StoreSuspended
  BY <1>2 DEF L!StoreSuspended, LP!StoreSuspended, L!lockVars, LP!lockVars
<1>3. ASSUME L!PollDone PROVE LP!PollDone
  BY <1>3 DEF L!PollDone, LP!PollDone, L!lockVars, LP!lockVars
<1>4. ASSUME NEW u, L!Locked(u) PROVE LP!Locked(u)
  BY <1>4 DEF L!Locked, LP!Locked, L!InBody, LP!InBody, L!lockVars, LP!lockVars, L!loopVars,
              LP!loopVars
<1>5. ASSUME NEW u, L!SuspendBody(u) PROVE LP!SuspendBody(u)
  BY <1>5 DEF L!SuspendBody, LP!SuspendBody, L!InBody, LP!InBody, L!lockVars, LP!lockVars
<1>6. ASSUME NEW u, L!EventResume(u) PROVE LP!EventResume(u)
  BY <1>6 DEF L!EventResume, LP!EventResume, L!Resume, LP!Resume, L!Contains, LP!Contains,
              L!lockVars, LP!lockVars
<1>7. ASSUME NEW u, L!TryLock(u) PROVE LP!TryLock(u)
  BY <1>7 DEF L!TryLock, LP!TryLock, L!InBody, LP!InBody, L!Acquire, LP!Acquire, L!ListIntact,
              LP!ListIntact, L!Contains, LP!Contains
<1>8. ASSUME NEW u, L!Cancel(u) PROVE LP!Cancel(u)
  BY <1>8, SameRemoveFirst DEF L!Cancel, LP!Cancel, L!ListIntact, LP!ListIntact, L!Contains,
                               LP!Contains, L!UserCode, LP!UserCode
<1>9. ASSUME NEW u, L!ThreadLock(u) PROVE LP!ThreadLock(u)
  BY <1>9 DEF L!ThreadLock, LP!ThreadLock, L!Acquire, LP!Acquire, L!ListIntact, LP!ListIntact,
              L!Contains, LP!Contains, L!loopVars, LP!loopVars
<1>10. ASSUME NEW u, L!ThreadLocked(u) PROVE LP!ThreadLocked(u)
  BY <1>10 DEF L!ThreadLocked, LP!ThreadLocked, L!lockVars, LP!lockVars, L!loopVars,
               LP!loopVars
<1>11. ASSUME NEW u, L!Unlock(u) PROVE LP!Unlock(u)
  BY <1>11 DEF L!Unlock, LP!Unlock, L!ListIntact, LP!ListIntact, L!Contains, LP!Contains,
               L!InBody, LP!InBody, L!Resume, LP!Resume, L!PendingFront, LP!PendingFront
<1>12. ASSUME NEW u, L!UnlockPop(u) PROVE LP!UnlockPop(u)
  BY <1>12 DEF L!UnlockPop, LP!UnlockPop, L!PopFront, LP!PopFront, L!PendingFront,
               LP!PendingFront, L!loopVars, LP!loopVars
<1> QED BY <1>1, <1>2, <1>3, <1>4, <1>5, <1>6, <1>7, <1>8, <1>9, <1>10, <1>11, <1>12
       DEF L!Next, LP!Next, L!LoopStep, LP!LoopStep, L!Users, LP!Users

(* A behaviour of the composition is one of the lock.                        *)
LEMMA LockBehaviour == MCSpec => LP!Spec
<1>1. MCInit => LP!Init
  BY DEF MCInit, L!Init, LP!Init, L!Users, LP!Users
<1>2. [MCNext]_allVars => [LP!Next]_(LP!vars)
  <2> SUFFICES ASSUME [MCNext]_allVars PROVE LP!Next \/ UNCHANGED lockVars
    BY DEF LP!vars, LP!lockVars, LP!loopVars, lockVars
  <2>1. CASE MCNext
    BY <2>1, SameLockStep DEF MCNext
  <2> QED BY <2>1 DEF allVars
<1> QED BY <1>1, <1>2, PTL DEF MCSpec, LP!Spec, allVars

(* The lock (lock.hpp), for any tasks and threads: at most one owns it, the  *)
(* counter is exact, and whoever waits can count on an unlock, provided that *)
(* nobody cancels a task between its wake-up and its next run.               *)
THEOREM LockIsSound == ASSUME ~CancelWoken PROVE MCSpec => []LockSound
<1>1. LP!UsersApart
  BY AsyncAssumption
     DEF L!UsersApart, LP!UsersApart, L!Users, LP!Users, L!IsFiniteSet, LP!IsFiniteSet
<1>2. LP!Spec => [](LP!MutualExclusion /\ LP!CountExact)
  BY <1>1, LP!LockExclusion
<1>3. LP!Spec => []LP!WaitersHaveOwner
  BY <1>1, LP!WaitersServed
<1>4. L!Owners = LP!Owners /\ L!Inside = LP!Inside /\ (L!ListIntact <=> LP!ListIntact)
  BY DEF L!Owners, LP!Owners, L!Inside, LP!Inside, L!Granted, LP!Granted, L!Users, LP!Users,
         L!ListIntact, LP!ListIntact, L!Contains, LP!Contains
<1>5. LP!MutualExclusion /\ LP!CountExact /\ LP!WaitersHaveOwner => LockSound
  BY <1>4, SameCardinality DEF LockSound, L!MutualExclusion, LP!MutualExclusion, L!CountExact, LP!CountExact,
              L!WaitersHaveOwner, LP!WaitersHaveOwner, L!Range, LP!Range
<1> QED BY <1>2, <1>3, <1>5, LockBehaviour, PTL

-----------------------------------------------------------------------------
(* The queues of the composition are those of QueueProofs.                   *)
LEMMA SameRemoveFirstQ ==
    ASSUME NEW s, NEW x
    PROVE  Q!RemoveFirst(s, x) = QP!RemoveFirst(s, x)
BY DEF Q!RemoveFirst, QP!RemoveFirst, Q!RemoveAt, QP!RemoveAt, Q!SelectInSeq, QP!SelectInSeq,
       Q!Min, QP!Min

LEMMA SameErase ==
    ASSUME NEW a
    PROVE  (Q!EraseGet(a) <=> QP!EraseGet(a)) /\ (Q!ErasePut(a) <=> QP!ErasePut(a))
BY SameRemoveFirstQ DEF Q!EraseGet, QP!EraseGet, Q!ErasePut, QP!ErasePut, Q!HeadAfter,
                        QP!HeadAfter

LEMMA SamePoll ==
    ASSUME NEW a, NEW x
    PROVE  (Q!PollGet(a) <=> QP!PollGet(a)) /\ (Q!PollPut(a, x) <=> QP!PollPut(a, x))
BY SameErase DEF Q!PollGet, QP!PollGet, Q!PollPut, QP!PollPut, Q!Full, QP!Full, Q!Last,
                 QP!Last, Q!listVars, QP!listVars

LEMMA SamePut2 == ASSUME NEW a, NEW x PROVE Q!Put2(a, x) <=> QP!Put2(a, x)
BY DEF Q!Put2, QP!Put2, Q!GetsAndPuts, QP!GetsAndPuts, Q!Last, QP!Last, Q!Front, QP!Front

(* A step of Queue or Queue2 is one of QueueProofs, and the other way round. *)
LEMMA SameQueueSteps ==
    /\ Q!Next <=> QP!Next
    /\ Q!Next2 <=> QP!Next2
    /\ Q!Puts2 <=> QP!Puts2
    /\ Q!Direct <=> QP!Direct
<1>1. ASSUME NEW a PROVE Q!StartGet(a) <=> QP!StartGet(a)
  BY SamePoll DEF Q!StartGet, QP!StartGet
<1>2. ASSUME NEW a, NEW x PROVE Q!StartPut(a, x) <=> QP!StartPut(a, x)
  BY SamePoll DEF Q!StartPut, QP!StartPut, Q!Pending, QP!Pending, Q!GetsAndPuts, QP!GetsAndPuts
<1>3. ASSUME NEW a PROVE Q!Return(a) <=> QP!Return(a)
  BY DEF Q!Return, QP!Return, Q!listVars, QP!listVars
<1>4. ASSUME NEW a PROVE Q!PollAgain(a) <=> QP!PollAgain(a)
  BY SamePoll DEF Q!PollAgain, QP!PollAgain
<1>5. ASSUME NEW a PROVE Q!Cancel(a) <=> QP!Cancel(a)
  BY SameErase DEF Q!Cancel, QP!Cancel, Q!listVars, QP!listVars
<1>6. Q!Reset <=> QP!Reset
  BY DEF Q!Reset, QP!Reset, Q!GetsAndPuts, QP!GetsAndPuts, Q!Range, QP!Range
<1>7. ASSUME NEW a, NEW x PROVE Q!StartPut2(a, x) <=> QP!StartPut2(a, x)
  BY SamePut2 DEF Q!StartPut2, QP!StartPut2, Q!Pending, QP!Pending, Q!GetsAndPuts,
                  QP!GetsAndPuts
<1>8. ASSUME NEW a PROVE Q!StartGet2(a) <=> QP!StartGet2(a)
  BY SamePoll DEF Q!StartGet2, QP!StartGet2, Q!Get2, QP!Get2
<1>9. ASSUME NEW a PROVE Q!PollAgain2(a) <=> QP!PollAgain2(a)
  BY SamePoll, SamePut2 DEF Q!PollAgain2, QP!PollAgain2, Q!Get2, QP!Get2
<1>10. ASSUME NEW x PROVE Q!Emplace(x) <=> QP!Emplace(x)
  BY DEF Q!Emplace, QP!Emplace, Q!Full, QP!Full, Q!Pending, QP!Pending, Q!GetsAndPuts,
         QP!GetsAndPuts, Q!listVars, QP!listVars
<1>11. Q!Pop <=> QP!Pop
  BY DEF Q!Pop, QP!Pop, Q!listVars, QP!listVars
<1>12. (Q!Puts2 <=> QP!Puts2) /\ (Q!Direct <=> QP!Direct)
  BY <1>7, <1>10, <1>11 DEF Q!Puts2, QP!Puts2, Q!Direct, QP!Direct
<1>13. Q!Next <=> QP!Next
  BY <1>1, <1>2, <1>3, <1>4, <1>5, <1>6 DEF Q!Next, QP!Next, Q!Puts, QP!Puts, Q!GetsAndPuts,
                                            QP!GetsAndPuts
<1>14. Q!Next2 <=> QP!Next2
  BY <1>3, <1>5, <1>6, <1>8, <1>9, <1>12 DEF Q!Next2, QP!Next2, Q!GetsAndPuts, QP!GetsAndPuts,
                                             Q!Reset2, QP!Reset2, Q!CancelGet2, QP!CancelGet2,
                                             Q!CancelPut2, QP!CancelPut2
<1> QED BY <1>12, <1>13, <1>14

(* What holds in every state of the queues, whoever uses them: QueueInv, and *)
(* in a Queue nobody waits for what is there.                                *)
LEMMA QueueInvariant == MCSpec => [](QP!QueueInv /\ (part # "queue2" => QP!NoMissedMatch))
<1> DEFINE I == QP!QueueInv /\ (part # "queue2" => QP!NoMissedMatch)
<1>1. QP!QueueUse
  BY AsyncAssumption DEF Q!QueueUse, QP!QueueUse, Q!IsFiniteSet, QP!IsFiniteSet
<1>2. MCInit => I
  <2>1. MCInit => QP!Init
    BY DEF MCInit, Q!Init, QP!Init, Q!GetsAndPuts, QP!GetsAndPuts
  <2> QED BY <1>1, <2>1, QP!QueueInit
<1>3. I /\ [MCNext]_allVars => I'
  <2> SUFFICES ASSUME I, [MCNext]_allVars PROVE I'
    OBVIOUS
  <2>1. CASE part = "queue" /\ Q!Next /\ UNCHANGED part
    BY <1>1, <2>1, SameQueueSteps, QP!QueueStep
  <2>2. CASE part = "queue2" /\ Q!Next2 /\ UNCHANGED part
    BY <1>1, <2>2, SameQueueSteps, QP!Queue2Step
  <2>3. CASE UNCHANGED <<part, queueVars>>
    <3>1. UNCHANGED QP!vars
      BY <2>3 DEF queueVars, QP!vars, QP!listVars
    <3>2. QP!QueueInv'
      BY <1>1, <3>1, QP!Queue2Step
    <3>3. QP!NoMissedMatch => QP!NoMissedMatch'
      BY <2>3 DEF queueVars, QP!NoMissedMatch
    <3> QED BY <2>3, <3>2, <3>3
  <2>4. MCNext => \/ part = "queue" /\ Q!Next /\ UNCHANGED part
                  \/ part = "queue2" /\ Q!Next2 /\ UNCHANGED part
                  \/ UNCHANGED <<part, queueVars>>
    BY DEF MCNext
  <2> QED BY <2>1, <2>2, <2>3, <2>4 DEF allVars
<1> QED BY <1>2, <1>3, PTL DEF MCSpec, allVars

(* The queues (queue.hpp, queue2.hpp), for any Gets, Puts, values and limit: *)
(* no value is lost or repeated, the lists hold exactly those that wait, the *)
(* limit holds, and in a Queue nobody waits for what is there.               *)
THEOREM QueuesAreSound == MCSpec => []QueuesSound
<1>1. QP!QueueUse
  BY AsyncAssumption DEF Q!QueueUse, QP!QueueUse, Q!IsFiniteSet, QP!IsFiniteSet
<1>2. QP!QueueInv => QP!FlyingExact /\ QP!ListsExact /\ QP!WithinLimit
  BY <1>1, QP!QueueInvMeans
<1>3. /\ QP!FlyingExact => Q!FlyingExact
      /\ QP!ListsExact => Q!ListsExact
      /\ QP!WithinLimit => Q!WithinLimit
      /\ QP!NoMissedMatch => Q!NoMissedMatch
  BY SameCardinality DEF Q!FlyingExact, QP!FlyingExact, Q!ListsExact, QP!ListsExact, Q!WithinLimit,
         QP!WithinLimit, Q!NoMissedMatch, QP!NoMissedMatch, Q!Range, QP!Range, Q!IsInjective,
         QP!IsInjective, Q!GetsAndPuts, QP!GetsAndPuts
<1>4. QP!QueueInv /\ (part # "queue2" => QP!NoMissedMatch) => QueuesSound
  BY <1>2, <1>3 DEF QueuesSound
<1> QED BY <1>4, QueueInvariant, PTL

(* Queue2 is a Queue to its Gets and Puts as long as its owner does not put  *)
(* or take values past waiting Gets (Queue2::get, put, emplace, pop).        *)
THEOREM Queue2IsQueue == MCSpec => Queue2ActsAsQueue
<1>1. QP!QueueUse
  BY AsyncAssumption DEF Q!QueueUse, QP!QueueUse, Q!IsFiniteSet, QP!IsFiniteSet
<1>2. (Q!NoMissedMatch <=> QP!NoMissedMatch) /\ (Q!NoMissedMatch' <=> QP!NoMissedMatch')
  BY DEF Q!NoMissedMatch, QP!NoMissedMatch
<1>3. ASSUME QP!QueueInv, part # "queue2" => QP!NoMissedMatch, [MCNext]_allVars
      PROVE  /\ [Q!Direct \/ ~Q!NoMissedMatch \/ Q!Next]_(Q!vars)
             /\ [Q!Puts2 => Q!NoMissedMatch']_(Q!vars)
  <2>1. CASE part = "queue2" /\ Q!Next2
    BY <1>1, <1>2, <1>3, <2>1, SameQueueSteps, QP!Queue2StepActs
  <2>2. CASE part = "queue" /\ Q!Next
    BY <1>1, <1>2, <1>3, <2>2, SameQueueSteps, QP!QueueStep
  <2>3. CASE UNCHANGED queueVars
    BY <2>3 DEF queueVars, Q!vars, Q!listVars
  <2>4. MCNext => \/ part = "queue" /\ Q!Next
                  \/ part = "queue2" /\ Q!Next2
                  \/ UNCHANGED queueVars
    BY DEF MCNext
  <2> QED BY <1>3, <2>1, <2>2, <2>3, <2>4 DEF allVars
<1> QED BY <1>3, QueueInvariant, PTL DEF MCSpec, allVars, Queue2ActsAsQueue, Q!ActsAsQueue

-----------------------------------------------------------------------------
(* Join. A hook in a task belongs to one observer, which waits for that task *)
(* or was cancelled while it did; an observer that is resumed finds its hook *)
(* done and its target ended. A hook stays done for ever, so that only joins *)
(* after the first can return early.                                         *)
JoinType ==
    j \in [task : [Targets -> {"live", "ending", "exited", "cancelled"}],
           hooks : [Targets -> Seq(Observers)],
           st : [Observers -> {"idle", "waiting", "ready", "joined", "cancelled"}],
           on : [Observers -> Targets \cup {NoTarget}], done : [Observers -> BOOLEAN],
           holds : SUBSET Observers, used : SUBSET Observers, early : SUBSET Observers,
           late : SUBSET Observers, lost : SUBSET Observers, freed : BOOLEAN]

HookInv == \A t \in Targets :
    /\ IsInjective(j.hooks[t])
    /\ \A o \in Range(j.hooks[t]) :
          o \in j.holds /\ j.st[o] \in {"waiting", "cancelled"} /\ j.on[o] = t

DoneInv == \A o \in Observers :
    /\ j.st[o] = "ready" => j.done[o] /\ j.on[o] \in Targets /\ j.task[j.on[o]] # "live"
    /\ j.st[o] \in {"idle", "waiting"} /\ o \notin j.used => ~j.done[o]
    /\ o \in j.early => o \in j.used

FreedInv == j.freed => \E o \in Observers : j.st[o] = "cancelled"

JoinInv == JoinType /\ HookInv /\ DoneInv /\ FreedInv

(* AsyncJoin::async_poll, first or again.                                    *)
PollsJoin(o, t) == j' = J!PollJoin(j, o, t)

LEMMA PollJoinKeeps ==
    ASSUME JoinInv, NEW o \in Observers, NEW t \in Targets, j.st[o] \in {"idle", "ready"},
           j.st[o] = "ready" => t = j.on[o], PollsJoin(o, t)
    PROVE  JoinInv'
<1> USE DEF JoinInv
<1>1. \A u \in Targets : j.hooks[u] \in Seq(Observers) /\ o \notin Range(j.hooks[u])
  BY DEF HookInv, JoinType
<1>2. CASE j.done[o]
  <2>1. j' = [j EXCEPT !.st[o] = "joined",
                       !.early = IF j.task[t] = "live" THEN j.early \cup {o} ELSE j.early]
    BY <1>2 DEF PollsJoin, J!PollJoin
  <2>2. JoinType'
    <3>1. PICK e \in SUBSET Observers :
             e = IF j.task[t] = "live" THEN j.early \cup {o} ELSE j.early
      BY DEF JoinType
    <3>2. j' = [j EXCEPT !.st[o] = "joined", !.early = e]
      BY <2>1, <3>1
    <3> QED BY <3>2 DEF JoinType
  <2>3. HookInv'
    BY <1>1, <2>1 DEF HookInv, JoinType
  <2>4. DoneInv'
    BY <1>2, <2>1 DEF DoneInv, JoinType
  <2>5. FreedInv'
    BY <2>1 DEF FreedInv, JoinType
  <2> QED BY <2>2, <2>3, <2>4, <2>5
<1>3. CASE ~j.done[o]
  <2>1. j' = [j EXCEPT !.st[o] = "waiting", !.on[o] = t, !.hooks[t] = Append(j.hooks[t], o),
                       !.holds = j.holds \cup {o},
                       !.late = IF J!Over(t) THEN j.late \cup {o} ELSE j.late]
    BY <1>3 DEF PollsJoin, J!PollJoin
  <2>2. /\ Append(j.hooks[t], o) \in Seq(Observers)
        /\ Range(Append(j.hooks[t], o)) = Range(j.hooks[t]) \cup {o}
        /\ IsInjective(Append(j.hooks[t], o))
    BY <1>1, AppendFacts DEF HookInv
  <2>3. JoinType'
    <3>1. PICK e \in SUBSET Observers : e = IF J!Over(t) THEN j.late \cup {o} ELSE j.late
      BY DEF JoinType
    <3>2. PICK h \in SUBSET Observers : h = j.holds \cup {o}
      BY DEF JoinType
    <3>3. PICK q \in Seq(Observers) : q = Append(j.hooks[t], o)
      BY <2>2
    <3>4. j' = [j EXCEPT !.st[o] = "waiting", !.on[o] = t, !.hooks[t] = q, !.holds = h,
                         !.late = e]
      BY <2>1, <3>1, <3>2, <3>3
    <3> QED BY <3>4 DEF JoinType
  <2>4. HookInv'
    BY <1>1, <2>1, <2>2 DEF HookInv, JoinType
  <2>5. DoneInv'
    BY <1>3, <2>1 DEF DoneInv, JoinType
  <2>6. FreedInv'
    BY <2>1 DEF FreedInv, JoinType
  <2> QED BY <2>3, <2>4, <2>5, <2>6
<1>4. QED BY <1>2, <1>3

(* AwaitableTaskNode::async_poll, and the end of a target by cancellation.   *)
LEMMA PollHookKeeps == ASSUME JoinInv, NEW t \in Targets, J!PollHook(t) PROVE JoinInv'
<1> USE DEF JoinInv
<1>1. j.hooks[t] \in Seq(Observers) /\ IsInjective(j.hooks[t]) /\ j.hooks[t] # <<>>
  BY DEF JoinType, HookInv, J!PollHook
<1>2. PICK o : o = Head(j.hooks[t])
  OBVIOUS
<1>3. /\ j.task[t] = "ending"
      /\ j' = [j EXCEPT !.hooks[t] = Tail(j.hooks[t]), !.done[o] = TRUE, !.holds = j.holds \ {o},
                        !.st[o] = IF j.st[o] = "waiting" THEN "ready" ELSE j.st[o],
                        !.freed = j.freed \/ J!Destroyed(o)]
  BY <1>2 DEF J!PollHook
<1>4. /\ o \in Observers /\ o \in Range(j.hooks[t]) /\ Tail(j.hooks[t]) \in Seq(Observers)
      /\ Range(Tail(j.hooks[t])) = Range(j.hooks[t]) \ {o} /\ IsInjective(Tail(j.hooks[t]))
  BY <1>1, <1>2, PopFacts
<1>5. j.st[o] \in {"waiting", "cancelled"} /\ j.on[o] = t
  BY <1>4 DEF HookInv
<1>6. \A u \in Targets : u # t => o \notin Range(j.hooks[u])
  BY <1>5 DEF HookInv
<1>7. JoinType'
  <2>1. (j.freed \/ J!Destroyed(o)) \in BOOLEAN
    BY DEF JoinType, J!Destroyed
  <2> QED BY <1>3, <1>4, <2>1 DEF JoinType
<1>8. HookInv'
  BY <1>3, <1>4, <1>6 DEF HookInv, JoinType
<1>9. DoneInv'
  BY <1>3, <1>4, <1>5 DEF DoneInv, JoinType
<1>10. FreedInv'
  BY <1>3, <1>4 DEF FreedInv, JoinType, J!Destroyed
<1> QED BY <1>7, <1>8, <1>9, <1>10

LEMMA CancelTargetKeeps == ASSUME JoinInv, NEW t \in Targets, J!CancelTarget(t) PROVE JoinInv'
<1> USE DEF JoinInv
<1> DEFINE hooked == {j.hooks[t][i] : i \in DOMAIN j.hooks[t]}
<1>1. /\ j' = [j EXCEPT !.task[t] = "cancelled", !.hooks[t] = <<>>, !.holds = j.holds \ hooked,
                        !.lost = j.lost \cup hooked]
  BY DEF J!CancelTarget
<1>2. j.hooks[t] \in Seq(Observers) /\ hooked = Range(j.hooks[t]) /\ hooked \subseteq Observers
  BY DEF JoinType, Range
<1>3. \A u \in Targets : u # t => hooked \cap Range(j.hooks[u]) = {}
  BY <1>2 DEF HookInv
<1>4. <<>> \in Seq(Observers) /\ Range(<<>>) = {} /\ IsInjective(<<>>)
  BY DEF Range, IsInjective
<1> HIDE DEF hooked
<1>5. JoinType'
  BY <1>1, <1>2, <1>4 DEF JoinType
<1>6. HookInv'
  BY <1>1, <1>3, <1>4 DEF HookInv, JoinType
<1>7. DoneInv'
  BY <1>1 DEF DoneInv, JoinType
<1>8. FreedInv'
  BY <1>1 DEF FreedInv, JoinType
<1> QED BY <1>5, <1>6, <1>7, <1>8

LEMMA JoinStep == JoinInv /\ [J!Next]_j => JoinInv'
<1> SUFFICES ASSUME JoinInv, [J!Next]_j PROVE JoinInv'
  OBVIOUS
<1> USE DEF JoinInv
<1>1. CASE UNCHANGED j
  BY <1>1 DEF JoinType, HookInv, DoneInv, FreedInv
<1>2. ASSUME NEW o \in Observers, NEW t \in Targets, J!Join(o, t) PROVE JoinInv'
  BY <1>2, PollJoinKeeps DEF J!Join, PollsJoin
<1>3. ASSUME NEW t \in Targets, J!PollHook(t) PROVE JoinInv'
  BY <1>3, PollHookKeeps
<1>4. ASSUME NEW t \in Targets, J!CancelTarget(t) PROVE JoinInv'
  BY <1>4, CancelTargetKeeps
<1>5. ASSUME NEW o \in Observers, J!ObserverRuns(o) PROVE JoinInv'
  <2>1. j.st[o] = "ready" /\ j.on[o] \in Targets /\ j' = J!PollJoin(j, o, j.on[o])
    BY <1>5 DEF J!ObserverRuns, DoneInv
  <2> QED BY <2>1, PollJoinKeeps DEF PollsJoin
<1>6. ASSUME NEW t \in Targets, J!EntryReturns(t) \/ J!TargetExits(t) PROVE JoinInv'
  <2>1. PICK x \in {"ending", "exited"} : j' = [j EXCEPT !.task[t] = x]
    BY <1>6 DEF J!EntryReturns, J!TargetExits
  <2>2. JoinType'
    BY <2>1 DEF JoinType
  <2>3. HookInv'
    BY <2>1 DEF HookInv, JoinType
  <2>4. DoneInv'
    BY <2>1 DEF DoneInv, JoinType
  <2>5. FreedInv'
    BY <2>1 DEF FreedInv, JoinType
  <2> QED BY <2>2, <2>3, <2>4, <2>5
<1>7. ASSUME NEW o \in Observers, J!Continue(o) PROVE JoinInv'
  <2>1. /\ j.st[o] = "joined"
        /\ j' = [j EXCEPT !.st[o] = "idle", !.on[o] = NoTarget, !.used = j.used \cup {o}]
    BY <1>7 DEF J!Continue
  <2>2. JoinType'
    BY <2>1 DEF JoinType
  <2>3. HookInv'
    BY <2>1 DEF HookInv, JoinType
  <2>4. DoneInv' /\ FreedInv'
    BY <2>1 DEF DoneInv, FreedInv, JoinType
  <2> QED BY <2>2, <2>3, <2>4
<1>8. ASSUME NEW o \in Observers, J!CancelObserver(o) PROVE JoinInv'
  <2>1. j.st[o] = "waiting" /\ j' = [j EXCEPT !.st[o] = "cancelled"]
    BY <1>8 DEF J!CancelObserver
  <2>2. JoinType'
    BY <2>1 DEF JoinType
  <2>3. HookInv'
    BY <2>1 DEF HookInv, JoinType
  <2>4. DoneInv' /\ FreedInv'
    BY <2>1 DEF DoneInv, FreedInv, JoinType
  <2> QED BY <2>2, <2>3, <2>4
<1> QED BY <1>1, <1>2, <1>3, <1>4, <1>5, <1>6, <1>7, <1>8 DEF J!Next

(* AsyncJoin (awaitable.ipp), for any observers and targets: the first join  *)
(* waits for its target, a hook keeps its observer in memory, and is freed   *)
(* in use only when its observer was cancelled.                              *)
THEOREM FirstJoinIsKept == MCSpec => []FirstJoinWaits
<1>1. MCInit => JoinInv
  <2> SUFFICES ASSUME J!Init PROVE JoinInv
    BY DEF MCInit
  <2>1. <<>> \in Seq(Observers) /\ Range(<<>>) = {} /\ IsInjective(<<>>)
    BY DEF Range, IsInjective
  <2>2. JoinType
    BY <2>1 DEF J!Init, JoinType
  <2>3. HookInv
    BY <2>1 DEF J!Init, HookInv
  <2>4. DoneInv /\ FreedInv
    BY DEF J!Init, DoneInv, FreedInv
  <2> QED BY <2>2, <2>3, <2>4 DEF JoinInv
<1>2. JoinInv /\ [MCNext]_allVars => JoinInv'
  <2>1. [MCNext]_allVars => [J!Next]_j
    BY DEF MCNext, allVars
  <2> QED BY <2>1, JoinStep
<1>3. JoinInv => FirstJoinWaits
  <2> SUFFICES ASSUME JoinInv PROVE J!FirstJoinWaits
    BY DEF FirstJoinWaits
  <2> USE DEF JoinInv
  <2>1. \A t \in Targets : \A i \in DOMAIN j.hooks[t] : j.hooks[t][i] \in Range(j.hooks[t])
    BY DEF Range
  <2> QED BY <2>1 DEF J!FirstJoinWaits, HookInv, DoneInv, FreedInv
<1> QED BY <1>1, <1>2, <1>3, PTL DEF MCSpec, allVars

-----------------------------------------------------------------------------
(* Wait. The lists hold each branch once and agree with what the branches    *)
(* are; a parent in its Wait has a branch to wait for, and sleeps only when  *)
(* none could run; a completed branch holds no reference to the parent.      *)
WaitRecords ==
    [cond : Conditions, p : {"running", "suspended", "ready", "gone"},
     at : {"user", "wait", "other"}, called : BOOLEAN, paused : BOOLEAN, back : BOOLEAN,
     all : SUBSET Branches, ready : Seq(Branches), done : Seq(Branches),
     err : SUBSET Branches, other : BOOLEAN,
     st : [Branches -> {"new", "ready", "suspended", "exited", "cancelled"}],
     owed : SUBSET Branches, bound : SUBSET Branches, held : SUBSET Branches]

WaitType == v \in WaitRecords

BranchInv ==
    /\ IsInjective(v.ready) /\ IsInjective(v.done)
    /\ Range(v.ready) = {b \in v.all : v.st[b] = "ready"}
    /\ v.owed = v.all \cup Range(v.done) /\ v.all \cap Range(v.done) = {}
    /\ v.bound \subseteq v.all \cup v.held /\ v.bound \cap Range(v.done) = {}

PlaceInv ==
    /\ v.p = "gone" => v.all = {} /\ v.done = <<>>
    /\ v.at = "wait" /\ v.p # "gone" => v.called /\ v.all # {}
    /\ v.at = "wait" /\ v.p = "suspended" => v.ready = <<>>

BackInv == v.back =>
    /\ v.p = "running" /\ v.at = "user" /\ v.done # <<>>
    /\ v.cond = "AllCompleted" => v.all = {}
    /\ v.cond = "FirstException" => v.all = {} \/ v.done[1] \in v.err

WaitInv == WaitType /\ BranchInv /\ PlaceInv /\ BackInv

(* A ready branch runs and ends.                                             *)
LEMMA RunExitsKeeps == ASSUME WaitInv, W!RunExits PROVE WaitInv'
<1> USE DEF WaitInv
<1>1. v.ready \in Seq(Branches) /\ v.done \in Seq(Branches) /\ v.ready # <<>>
      /\ IsInjective(v.ready) /\ IsInjective(v.done) /\ v.p = "running" /\ v.at = "wait"
  BY DEF WaitType, WaitRecords, BranchInv, W!RunExits, W!Running
<1>2. PICK b : b = Head(v.ready)
  OBVIOUS
<1>3. /\ b \in Branches /\ Tail(v.ready) \in Seq(Branches) /\ b \in Range(v.ready)
      /\ Range(Tail(v.ready)) = Range(v.ready) \ {b} /\ IsInjective(Tail(v.ready))
  BY <1>1, <1>2, PopFacts
<1>4. b \in v.all /\ b \notin Range(v.done)
  BY <1>3 DEF BranchInv
<1>5. /\ <<b>> \o v.done \in Seq(Branches) /\ IsInjective(<<b>> \o v.done)
      /\ Range(<<b>> \o v.done) = {b} \cup Range(v.done)
      /\ <<b>> \o v.done # <<>> /\ (<<b>> \o v.done)[1] = b
  BY <1>1, <1>3, <1>4, PushFacts
<1>6. PICK e \in BOOLEAN : v' = W!TaskExit(W!Popped, b, e)
  BY <1>2 DEF W!RunExits
<1> DEFINE u == [v EXCEPT !.ready = Tail(v.ready), !.bound = v.bound \cup {b}]
           t == [u EXCEPT !.st[b] = "exited", !.all = @ \ {b}, !.done = <<b>> \o @,
                          !.bound = @ \ {b}, !.err = IF e THEN @ \cup {b} ELSE @ \ {b}]
<1>7. W!Popped = u
  BY <1>2 DEF W!Popped, W!Bind
<1>8. v' = IF W!Completes(t, e) THEN [t EXCEPT !.at = "user", !.paused = TRUE, !.back = TRUE]
           ELSE t
  <2> HIDE DEF u
  <2> QED BY <1>6, <1>7 DEF W!TaskExit
<1>9. /\ t.cond = v.cond /\ t.p = v.p /\ t.at = v.at /\ t.called = v.called /\ t.back = v.back
      /\ t.all = v.all \ {b} /\ t.ready = Tail(v.ready) /\ t.done = <<b>> \o v.done
      /\ t.err = (IF e THEN v.err \cup {b} ELSE v.err \ {b}) /\ t.owed = v.owed
      /\ t.st = [v.st EXCEPT ![b] = "exited"] /\ t.bound = v.bound \ {b} /\ t.held = v.held
      /\ t.paused = v.paused /\ t.other = v.other
  BY DEF WaitType, WaitRecords
<1>10. t \in WaitRecords
  <2>1. PICK f \in SUBSET Branches : f = IF e THEN v.err \cup {b} ELSE v.err \ {b}
    BY <1>3 DEF WaitType, WaitRecords
  <2>2. PICK d \in Seq(Branches) : d = <<b>> \o v.done
    BY <1>5
  <2>3. PICK r \in Seq(Branches) : r = Tail(v.ready)
    BY <1>3
  <2>4. t = [[v EXCEPT !.ready = r, !.bound = v.bound \cup {b}] EXCEPT !.st[b] = "exited",
                !.all = @ \ {b}, !.done = d, !.bound = @ \ {b}, !.err = f]
    BY <2>1, <2>2, <2>3 DEF WaitType, WaitRecords
  <2> HIDE DEF t
  <2> QED BY <1>3, <2>4 DEF WaitType, WaitRecords
<1> HIDE DEF t, u
<1>11. /\ v' \in WaitRecords
       /\ v'.cond = t.cond /\ v'.p = t.p /\ v'.called = t.called /\ v'.all = t.all
       /\ v'.ready = t.ready /\ v'.done = t.done /\ v'.err = t.err /\ v'.owed = t.owed
       /\ v'.st = t.st /\ v'.bound = t.bound /\ v'.held = t.held
       /\ IF W!Completes(t, e) THEN v'.at = "user" /\ v'.back ELSE v'.at = t.at /\ v'.back = t.back
  BY <1>8, <1>10 DEF WaitRecords
<1>12. BranchInv'
  <2>1. \A c \in Branches : v'.st[c] = IF c = b THEN "exited" ELSE v.st[c]
    BY <1>3, <1>9, <1>11 DEF WaitType, WaitRecords
  <2>2. Range(v'.ready) = {c \in v'.all : v'.st[c] = "ready"}
    BY <1>3, <1>9, <1>11, <2>1 DEF BranchInv, WaitType, WaitRecords
  <2>3. v'.owed = v'.all \cup Range(v'.done) /\ v'.all \cap Range(v'.done) = {}
    BY <1>4, <1>5, <1>9, <1>11 DEF BranchInv
  <2>4. v'.bound \subseteq v'.all \cup v'.held /\ v'.bound \cap Range(v'.done) = {}
    BY <1>5, <1>9, <1>11 DEF BranchInv
  <2> QED BY <1>3, <1>5, <1>9, <1>11, <2>2, <2>3, <2>4 DEF BranchInv
<1>13. PlaceInv'
  BY <1>1, <1>9, <1>11 DEF PlaceInv, W!Completes
<1>14. BackInv'
  <2> SUFFICES ASSUME v'.back PROVE BackInv'
    BY DEF BackInv
  <2>1. W!Completes(t, e) /\ v'.p = "running" /\ v'.at = "user"
    BY <1>1, <1>9, <1>11 DEF BackInv
  <2>2. v'.done # <<>> /\ v'.done[1] = b
    BY <1>5, <1>9, <1>11
  <2>3. e => b \in v'.err
    BY <1>9, <1>11
  <2> QED BY <1>11, <2>1, <2>2, <2>3 DEF BackInv, W!Completes
<1> QED BY <1>11, <1>12, <1>13, <1>14 DEF WaitType

(* A ready branch runs and suspends, or yields while the event engine may    *)
(* make another one ready.                                                   *)
LEMMA RunSuspendsKeeps == ASSUME WaitInv, W!RunSuspends PROVE WaitInv'
<1> USE DEF WaitInv
<1>1. v.ready \in Seq(Branches) /\ v.ready # <<>> /\ IsInjective(v.ready) /\ v.p = "running"
      /\ v.at = "wait"
  BY DEF WaitType, WaitRecords, BranchInv, W!RunSuspends, W!Running
<1>2. PICK b : b = Head(v.ready)
  OBVIOUS
<1>3. /\ b \in Branches /\ Tail(v.ready) \in Seq(Branches) /\ b \in Range(v.ready)
      /\ Range(Tail(v.ready)) = Range(v.ready) \ {b} /\ IsInjective(Tail(v.ready))
  BY <1>1, <1>2, PopFacts
<1>4. b \in v.all /\ b \notin Range(v.done)
  BY <1>3 DEF BranchInv
<1>5. v' = [v EXCEPT !.ready = Tail(v.ready), !.bound = v.bound \cup {b}, !.st[b] = "suspended"]
  BY <1>2 DEF W!RunSuspends, W!Popped, W!Bind
<1>6. /\ v'.cond = v.cond /\ v'.p = v.p /\ v'.at = v.at /\ v'.called = v.called
      /\ v'.back = v.back /\ v'.all = v.all /\ v'.ready = Tail(v.ready) /\ v'.done = v.done
      /\ v'.err = v.err /\ v'.owed = v.owed /\ v'.st = [v.st EXCEPT ![b] = "suspended"]
      /\ v'.bound = v.bound \cup {b} /\ v'.held = v.held
  BY <1>5 DEF WaitType, WaitRecords
<1>7. WaitType'
  <2>1. PICK r \in Seq(Branches) : r = Tail(v.ready)
    BY <1>3
  <2>2. v' = [v EXCEPT !.ready = r, !.bound = v.bound \cup {b}, !.st[b] = "suspended"]
    BY <1>5, <2>1
  <2> QED BY <1>3, <2>2 DEF WaitType, WaitRecords
<1>8. BranchInv'
  <2>1. \A c \in Branches : v'.st[c] = IF c = b THEN "suspended" ELSE v.st[c]
    BY <1>3, <1>6 DEF WaitType, WaitRecords
  <2>2. Range(v'.ready) = {c \in v'.all : v'.st[c] = "ready"}
    BY <1>3, <1>6, <2>1 DEF BranchInv, WaitType, WaitRecords
  <2> QED BY <1>3, <1>4, <1>6, <2>2 DEF BranchInv
<1>9. PlaceInv'
  BY <1>1, <1>6 DEF PlaceInv
<1>10. BackInv'
  BY <1>1, <1>6 DEF BackInv
<1> QED BY <1>7, <1>8, <1>9, <1>10

LEMMA RunYieldsKeeps == ASSUME WaitInv, W!RunYields PROVE WaitInv'
<1> USE DEF WaitInv
<1>1. v.ready \in Seq(Branches) /\ v.ready # <<>> /\ IsInjective(v.ready) /\ v.p = "running"
      /\ v.at = "wait"
  BY DEF WaitType, WaitRecords, BranchInv, W!RunYields, W!Running
<1>2. PICK b : b = Head(v.ready)
  OBVIOUS
<1>3. /\ b \in Branches /\ Tail(v.ready) \in Seq(Branches) /\ b \in Range(v.ready)
      /\ Range(Tail(v.ready)) = Range(v.ready) \ {b} /\ IsInjective(Tail(v.ready))
  BY <1>1, <1>2, PopFacts
<1>4. b \in v.all /\ b \notin Range(v.done) /\ v.st[b] = "ready"
  BY <1>3 DEF BranchInv
<1> DEFINE u == [v EXCEPT !.ready = Tail(v.ready), !.bound = v.bound \cup {b}]
           After(q) == IF q = <<>> THEN v.ready ELSE <<Head(q), b>> \o Tail(q)
<1>5. W!Popped = u
  BY <1>2 DEF W!Popped, W!Bind
<1>6. PICK C \in SUBSET v.all, q \in Seq(Branches) :
         /\ \A c \in C : v.st[c] = "suspended"
         /\ Range(q) = C \cup Range(Tail(v.ready)) /\ IsInjective(q)
         /\ v' = [v EXCEPT !.ready = After(q), !.bound = v.bound \cup {b},
                           !.st = [c \in Branches |-> IF c \in C THEN "ready" ELSE v.st[c]]]
  <2>1. PICK x \in {u} \cup {W!Schedule(u, c) : c \in {d \in v.all : v.st[d] = "suspended"}} :
           v' = [x EXCEPT !.ready = After(@)]
    <3>1. PICK x \in {W!Popped} \cup {W!Schedule(W!Popped, c) :
                                         c \in {d \in v.all : v.st[d] = "suspended"}} :
             v' = [x EXCEPT !.ready = IF @ = <<>> THEN v.ready
                                      ELSE <<Head(@), Head(v.ready)>> \o Tail(@)]
      BY DEF W!RunYields
    <3> QED BY <1>2, <1>5, <3>1
  <2>2. CASE x = u
    <3>1. v' = [v EXCEPT !.ready = After(Tail(v.ready)), !.bound = v.bound \cup {b}]
      BY <2>1, <2>2 DEF WaitType, WaitRecords
    <3>2. v.st = [c \in Branches |-> IF c \in {} THEN "ready" ELSE v.st[c]]
      BY DEF WaitType, WaitRecords
    <3>3. v' = [v EXCEPT !.ready = After(Tail(v.ready)), !.bound = v.bound \cup {b},
                         !.st = [c \in Branches |-> IF c \in {} THEN "ready" ELSE v.st[c]]]
      BY <3>1, <3>2 DEF WaitType, WaitRecords
    <3>4. PICK q \in Seq(Branches) : q = Tail(v.ready)
      BY <1>3
    <3>5. PICK C \in SUBSET v.all : C = {}
      OBVIOUS
    <3>6. /\ \A c \in C : v.st[c] = "suspended"
          /\ Range(q) = C \cup Range(Tail(v.ready)) /\ IsInjective(q)
      BY <1>3, <3>4, <3>5
    <3>7. v' = [v EXCEPT !.ready = After(q), !.bound = v.bound \cup {b},
                         !.st = [c \in Branches |-> IF c \in C THEN "ready" ELSE v.st[c]]]
      BY <3>3, <3>4, <3>5
    <3> HIDE DEF After
    <3> QED BY <3>6, <3>7
  <2>3. ASSUME NEW c \in v.all, v.st[c] = "suspended", x = W!Schedule(u, c)
        PROVE  \E C \in SUBSET v.all, q \in Seq(Branches) :
                 /\ \A d \in C : v.st[d] = "suspended"
                 /\ Range(q) = C \cup Range(Tail(v.ready)) /\ IsInjective(q)
                 /\ v' = [v EXCEPT !.ready = After(q), !.bound = v.bound \cup {b},
                           !.st = [d \in Branches |-> IF d \in C THEN "ready" ELSE v.st[d]]]
    <3>1. c \in Branches /\ c \notin Range(Tail(v.ready))
      BY <1>3, <2>3 DEF BranchInv, WaitType, WaitRecords
    <3>2. /\ <<c>> \o Tail(v.ready) \in Seq(Branches) /\ IsInjective(<<c>> \o Tail(v.ready))
          /\ Range(<<c>> \o Tail(v.ready)) = {c} \cup Range(Tail(v.ready))
      BY <1>3, <3>1, PushFacts
    <3>3. [v.st EXCEPT ![c] = "ready"] = [d \in Branches |-> IF d \in {c} THEN "ready" ELSE v.st[d]]
      BY DEF WaitType, WaitRecords
    <3>4. x = [u EXCEPT !.st[c] = "ready", !.ready = <<c>> \o @,
                        !.p = IF @ = "suspended" /\ u.called THEN "ready" ELSE @]
      BY <2>3 DEF W!Schedule
    <3>5. x = [v EXCEPT !.ready = <<c>> \o Tail(v.ready), !.bound = v.bound \cup {b},
                        !.st = [v.st EXCEPT ![c] = "ready"]]
      BY <1>1, <3>4 DEF WaitType, WaitRecords
    <3>6. v' = [v EXCEPT !.ready = After(<<c>> \o Tail(v.ready)), !.bound = v.bound \cup {b},
                         !.st = [v.st EXCEPT ![c] = "ready"]]
      <4> HIDE DEF After
      <4> QED BY <2>1, <3>5 DEF WaitType, WaitRecords
    <3>7. {c} \in SUBSET v.all /\ \A d \in {c} : v.st[d] = "suspended"
      BY <2>3
    <3> HIDE DEF After
    <3> QED BY <3>2, <3>3, <3>6, <3>7
  <2> QED BY <2>1, <2>2, <2>3
<1>7. b \notin C /\ b \notin Range(q) /\ C \subseteq Branches
  BY <1>3, <1>4, <1>6 DEF WaitType, WaitRecords
<1>8. After(q) \in Seq(Branches) /\ IsInjective(After(q)) /\ Range(After(q)) = C \cup Range(v.ready)
  <2>1. CASE q = <<>>
    <3>1. Range(q) = {}
      BY <2>1 DEF Range
    <3> QED BY <1>1, <1>3, <1>6, <2>1, <3>1
  <2>2. CASE q # <<>>
    <3>1. After(q) = <<Head(q), b>> \o Tail(q)
      BY <2>2
    <3>2. After(q) \in Seq(Branches) /\ IsInjective(After(q)) /\ Range(After(q)) = Range(q) \cup {b}
      BY <1>3, <1>6, <1>7, <2>2, <3>1, SecondFacts
    <3> HIDE DEF After
    <3> QED BY <1>3, <1>6, <3>2
  <2> QED BY <2>1, <2>2
<1> HIDE DEF After
<1>9. /\ v'.cond = v.cond /\ v'.p = v.p /\ v'.at = v.at /\ v'.called = v.called
      /\ v'.back = v.back /\ v'.all = v.all /\ v'.ready = After(q) /\ v'.done = v.done
      /\ v'.err = v.err /\ v'.owed = v.owed
      /\ v'.st = [c \in Branches |-> IF c \in C THEN "ready" ELSE v.st[c]]
      /\ v'.bound = v.bound \cup {b} /\ v'.held = v.held
  BY <1>6 DEF WaitType, WaitRecords
<1>10. WaitType'
  <2>1. PICK r \in Seq(Branches) : r = After(q)
    BY <1>8
  <2>2. PICK f \in [Branches -> {"new", "ready", "suspended", "exited", "cancelled"}] :
           f = [c \in Branches |-> IF c \in C THEN "ready" ELSE v.st[c]]
    BY DEF WaitType, WaitRecords
  <2>3. v' = [v EXCEPT !.ready = r, !.bound = v.bound \cup {b}, !.st = f]
    BY <1>6, <2>1, <2>2
  <2> QED BY <1>3, <2>3 DEF WaitType, WaitRecords
<1>11. BranchInv'
  <2>1. \A c \in Branches : v'.st[c] = IF c \in C THEN "ready" ELSE v.st[c]
    BY <1>9
  <2>2. Range(v'.ready) = {c \in v'.all : v'.st[c] = "ready"}
    BY <1>6, <1>7, <1>8, <1>9, <2>1 DEF BranchInv, WaitType, WaitRecords
  <2> QED BY <1>4, <1>8, <1>9, <2>2 DEF BranchInv
<1>12. PlaceInv'
  BY <1>1, <1>9 DEF PlaceInv
<1>13. BackInv'
  BY <1>1, <1>9 DEF BackInv
<1> QED BY <1>10, <1>11, <1>12, <1>13

(* The steps that move the parent and leave the branches alone.              *)
LEMMA ParentKeeps ==
    ASSUME WaitInv,
           W!Suspend \/ W!LoopRun \/ W!OtherEvent \/ W!Await \/ W!AwaitOther
    PROVE  WaitInv'
<1> USE DEF WaitInv
<1>1. PICK p \in {"running", "suspended", "ready", "gone"}, spot \in {"user", "wait", "other"},
           called, paused, back, other \in BOOLEAN :
         /\ v' = [v EXCEPT !.p = p, !.at = spot, !.called = called, !.paused = paused,
                           !.back = back, !.other = other]
         /\ p # "gone" /\ v.p # "gone" /\ (back => v.back /\ p = v.p /\ spot = v.at)
         /\ spot = "wait" => called /\ v.all # {}
         /\ spot = "wait" /\ p = "suspended" => v.ready = <<>>
  <2>1. CASE W!Suspend
    <3>1. v' = [v EXCEPT !.p = "suspended", !.at = v.at, !.called = v.called, !.paused = v.paused,
                         !.back = FALSE, !.other = v.other]
      BY <2>1 DEF W!Suspend, W!Running, WaitType, WaitRecords, BackInv
    <3> QED BY <2>1, <3>1 DEF W!Suspend, W!Running, WaitType, WaitRecords, PlaceInv
  <2>2. CASE W!LoopRun
    <3>1. v.p = "ready" /\ v.back = FALSE
      BY <2>2 DEF W!LoopRun, WaitType, WaitRecords, BackInv
    <3>2. CASE v.at = "other" /\ ~v.other
      <4>1. v' = [v EXCEPT !.p = "suspended", !.at = v.at, !.called = v.called,
                           !.paused = v.paused, !.back = v.back, !.other = v.other]
        BY <2>2, <3>2 DEF W!LoopRun, WaitType, WaitRecords
      <4> QED BY <3>1, <3>2, <4>1 DEF WaitType, WaitRecords
    <3>3. CASE ~(v.at = "other" /\ ~v.other)
      <4>1. PICK a \in {"user", "wait", "other"} : a = IF v.at = "other" THEN "user" ELSE v.at
        BY DEF WaitType, WaitRecords
      <4>2. v' = [v EXCEPT !.p = "running", !.at = a, !.called = v.called,
                           !.paused = v.paused, !.back = v.back, !.other = v.other]
        BY <2>2, <3>3, <4>1 DEF W!LoopRun, WaitType, WaitRecords
      <4>3. a = "wait" => v.at = "wait"
        BY <4>1
      <4> QED BY <3>1, <4>2, <4>3 DEF WaitType, WaitRecords, PlaceInv
    <3> QED BY <3>2, <3>3
  <2>3. CASE W!OtherEvent
    <3>1. v.at = "other" /\ v.back = FALSE /\ v.p # "gone"
      BY <2>3 DEF W!OtherEvent, WaitType, WaitRecords, BackInv
    <3>2. v' = [v EXCEPT !.p = "ready", !.at = v.at, !.called = v.called, !.paused = v.paused,
                         !.back = v.back, !.other = TRUE]
      BY <2>3 DEF W!OtherEvent, WaitType, WaitRecords
    <3> QED BY <3>1, <3>2 DEF WaitType, WaitRecords
  <2>4. CASE W!Await
    <3>1. v' = [v EXCEPT !.p = v.p, !.at = "wait", !.called = TRUE, !.paused = FALSE,
                         !.back = FALSE, !.other = v.other]
      BY <2>4 DEF W!Await, WaitType, WaitRecords
    <3> QED BY <2>4, <3>1 DEF W!Await, W!Running, WaitType, WaitRecords
  <2>5. CASE W!AwaitOther
    <3>1. v' = [v EXCEPT !.p = "suspended", !.at = "other", !.called = v.called,
                         !.paused = v.paused, !.back = FALSE, !.other = FALSE]
      BY <2>5 DEF W!AwaitOther, WaitType, WaitRecords
    <3> QED BY <2>5, <3>1 DEF W!AwaitOther, W!Running, WaitType, WaitRecords
  <2> QED BY <2>1, <2>2, <2>3, <2>4, <2>5
<1>2. /\ v'.cond = v.cond /\ v'.p = p /\ v'.at = spot /\ v'.called = called
      /\ v'.back = back /\ v'.all = v.all /\ v'.ready = v.ready /\ v'.done = v.done
      /\ v'.err = v.err /\ v'.owed = v.owed /\ v'.st = v.st
      /\ v'.bound = v.bound /\ v'.held = v.held
  BY <1>1 DEF WaitType, WaitRecords
<1>3. WaitType'
  <2>1. PICK w \in WaitRecords : w = [v EXCEPT !.p = p, !.at = spot]
    BY DEF WaitType, WaitRecords
  <2>2. PICK x \in WaitRecords : x = [w EXCEPT !.called = called, !.paused = paused]
    BY DEF WaitRecords
  <2>3. PICK y \in WaitRecords : y = [x EXCEPT !.back = back, !.other = other]
    BY DEF WaitRecords
  <2>4. v' = y
    BY <1>1, <2>1, <2>2, <2>3 DEF WaitType, WaitRecords
  <2> QED BY <2>4 DEF WaitType
<1>4. BranchInv'
  BY <1>2 DEF BranchInv
<1>5. PlaceInv'
  BY <1>1, <1>2 DEF PlaceInv
<1>6. BackInv'
  BY <1>1, <1>2 DEF BackInv
<1> QED BY <1>3, <1>4, <1>5, <1>6

(* Wait::schedule: an event makes a branch ready, and the parent with it; or *)
(* the routine creates a branch.                                             *)
LEMMA ScheduleKeeps ==
    ASSUME WaitInv, NEW b \in Branches, W!Event(b) \/ W!BranchCreate(b)
    PROVE  WaitInv'
<1> USE DEF WaitInv
<1>1. v.ready \in Seq(Branches) /\ b \notin Range(v.ready) /\ IsInjective(v.ready)
  <2>1. b \in v.all => v.st[b] # "ready"
    BY DEF W!Event, W!BranchCreate, BranchInv
  <2> QED BY <2>1 DEF WaitType, WaitRecords, BranchInv
<1>2. PICK r \in Seq(Branches) :
         r = <<b>> \o v.ready /\ IsInjective(r) /\ Range(r) = {b} \cup Range(v.ready)
  BY <1>1, PushFacts
<1>3. PICK p \in {"running", "suspended", "ready", "gone"} :
         p = IF v.p = "suspended" /\ v.called THEN "ready" ELSE v.p
  BY DEF WaitType, WaitRecords
<1>4. W!Schedule(v, b) = [v EXCEPT !.st[b] = "ready", !.ready = r, !.p = p]
  BY <1>2, <1>3 DEF W!Schedule, WaitType, WaitRecords
<1>5. PICK new \in SUBSET {b}, back \in BOOLEAN :
         /\ v' = [v EXCEPT !.st[b] = "ready", !.ready = r, !.p = p, !.all = v.all \cup new,
                           !.owed = v.owed \cup new, !.back = back]
         /\ b \in v.all \cup new /\ ~back /\ b \notin Range(v.done) /\ v.p # "gone"
         /\ v.at = "wait" => v.p # "running"
  <2>1. CASE W!Event(b)
    <3>1. b \in v.all /\ v.p # "running" /\ v.back = FALSE
      BY <2>1 DEF W!Event, BackInv, WaitType, WaitRecords
    <3>2. PICK new \in SUBSET {b} : new = {}
      OBVIOUS
    <3>3. v' = [v EXCEPT !.st[b] = "ready", !.ready = r, !.p = p, !.all = v.all \cup new,
                         !.owed = v.owed \cup new, !.back = v.back]
      <4>1. v.all \cup new = v.all /\ v.owed \cup new = v.owed
        BY <3>2
      <4>2. v' = [v EXCEPT !.st[b] = "ready", !.ready = r, !.p = p]
        BY <1>4, <2>1 DEF W!Event
      <4> QED BY <4>1, <4>2 DEF WaitType, WaitRecords
    <3>4. v.p # "gone" /\ b \notin Range(v.done)
      BY <3>1 DEF PlaceInv, BranchInv
    <3> QED BY <3>1, <3>3, <3>4
  <2>2. CASE W!BranchCreate(b)
    <3>1. v.p = "running" /\ v.at = "user" /\ b \notin v.owed
      BY <2>2 DEF W!BranchCreate, W!Running
    <3>2. v' = [v EXCEPT !.st[b] = "ready", !.ready = r, !.p = p, !.all = v.all \cup {b},
                         !.owed = v.owed \cup {b}, !.back = FALSE]
      BY <1>4, <2>2 DEF W!BranchCreate, WaitType, WaitRecords
    <3>3. b \notin Range(v.done)
      BY <3>1 DEF BranchInv
    <3> QED BY <3>1, <3>2, <3>3
  <2> QED BY <2>1, <2>2
<1>6. /\ v'.cond = v.cond /\ v'.p = p /\ v'.at = v.at /\ v'.called = v.called
      /\ v'.back = back /\ v'.all = v.all \cup new /\ v'.ready = r /\ v'.done = v.done
      /\ v'.err = v.err /\ v'.owed = v.owed \cup new /\ v'.st = [v.st EXCEPT ![b] = "ready"]
      /\ v'.bound = v.bound /\ v'.held = v.held
  BY <1>5 DEF WaitType, WaitRecords
<1>7. WaitType'
  <2>1. v.all \cup new \in SUBSET Branches /\ v.owed \cup new \in SUBSET Branches
    BY DEF WaitType, WaitRecords
  <2> QED BY <1>5, <2>1 DEF WaitType, WaitRecords
<1>8. BranchInv'
  <2>1. \A c \in Branches : v'.st[c] = IF c = b THEN "ready" ELSE v.st[c]
    BY <1>6 DEF WaitType, WaitRecords
  <2>2. Range(v'.ready) = {c \in v'.all : v'.st[c] = "ready"}
    BY <1>2, <1>5, <1>6, <2>1 DEF BranchInv, WaitType, WaitRecords
  <2>3. v'.owed = v'.all \cup Range(v'.done) /\ v'.all \cap Range(v'.done) = {}
    BY <1>5, <1>6 DEF BranchInv
  <2> QED BY <1>2, <1>6, <2>2, <2>3 DEF BranchInv
<1>9. PlaceInv'
  BY <1>3, <1>5, <1>6 DEF PlaceInv
<1>10. BackInv'
  BY <1>5, <1>6 DEF BackInv
<1> QED BY <1>7, <1>8, <1>9, <1>10

(* The program takes or drops a pointer to a branch, or takes the completed  *)
(* branches over; the routine ends or the parent is cancelled.               *)
LEMMA HoldKeeps ==
    ASSUME WaitInv, NEW b \in Branches, W!Hold(b) \/ W!Drop(b) PROVE WaitInv'
<1> USE DEF WaitInv
<1>1. PICK held, kept \in SUBSET Branches :
         /\ v' = [v EXCEPT !.held = held, !.bound = kept]
         /\ kept \subseteq v.bound /\ kept \subseteq v.all \cup held
  <2>1. CASE W!Hold(b)
    <3>1. v' = [v EXCEPT !.held = v.held \cup {b}, !.bound = v.bound]
      BY <2>1 DEF W!Hold, WaitType, WaitRecords
    <3>2. PICK h, d \in SUBSET Branches : h = v.held \cup {b} /\ d = v.bound
      BY DEF WaitType, WaitRecords
    <3>3. d \subseteq v.bound /\ d \subseteq v.all \cup h
      BY <3>2 DEF BranchInv
    <3>4. v' = [v EXCEPT !.held = h, !.bound = d]
      BY <3>1, <3>2
    <3> QED BY <3>3, <3>4
  <2>2. CASE W!Drop(b)
    <3>1. PICK h, d, e \in SUBSET Branches :
             h = v.held \ {b} /\ d = v.bound /\ e = v.bound \ {b}
      BY DEF WaitType, WaitRecords
    <3>2. CASE b \in v.owed
      <4>1. v' = [v EXCEPT !.held = v.held \ {b}, !.bound = v.bound]
        BY <2>2, <3>2 DEF W!Drop, WaitType, WaitRecords
      <4>2. d \subseteq v.bound /\ d \subseteq v.all \cup h
        BY <3>1, <3>2 DEF BranchInv
      <4>3. v' = [v EXCEPT !.held = h, !.bound = d]
        BY <3>1, <4>1
      <4> QED BY <4>2, <4>3
    <3>3. CASE b \notin v.owed
      <4>1. v' = W!Unref([v EXCEPT !.held = v.held \ {b}], {b})
        BY <2>2, <3>3 DEF W!Drop
      <4>2. v' = [v EXCEPT !.held = v.held \ {b}, !.bound = v.bound \ ({b} \ (v.held \ {b}))]
        BY <4>1 DEF W!Unref, WaitType, WaitRecords
      <4>3. v.bound \ ({b} \ (v.held \ {b})) = v.bound \ {b}
        OBVIOUS
      <4>4. e \subseteq v.bound /\ e \subseteq v.all \cup h
        BY <3>1 DEF BranchInv
      <4>5. v' = [v EXCEPT !.held = h, !.bound = e]
        BY <3>1, <4>2, <4>3
      <4> QED BY <4>4, <4>5
    <3> QED BY <3>2, <3>3
  <2> QED BY <2>1, <2>2
<1>2. /\ v'.cond = v.cond /\ v'.p = v.p /\ v'.at = v.at /\ v'.called = v.called
      /\ v'.back = v.back /\ v'.all = v.all /\ v'.ready = v.ready /\ v'.done = v.done
      /\ v'.err = v.err /\ v'.owed = v.owed /\ v'.st = v.st
      /\ v'.bound = kept /\ v'.held = held
  BY <1>1 DEF WaitType, WaitRecords
<1>3. WaitType'
  BY <1>1 DEF WaitType, WaitRecords
<1>4. BranchInv'
  BY <1>1, <1>2 DEF BranchInv
<1>5. PlaceInv' /\ BackInv'
  BY <1>2 DEF PlaceInv, BackInv
<1> QED BY <1>3, <1>4, <1>5

LEMMA DropKeeps ==
    ASSUME WaitInv, W!ForEach \/ W!Return \/ W!CancelParent PROVE WaitInv'
<1> USE DEF WaitInv
<1>1. /\ <<>> \in Seq(Branches) /\ Range(<<>>) = {} /\ IsInjective(<<>>)
  BY DEF Range, IsInjective
<1>2. {v.done[i] : i \in DOMAIN v.done} = Range(v.done) /\ Range(v.done) \subseteq Branches
  BY DEF Range, WaitType, WaitRecords
<1>3. CASE W!ForEach
  <2>1. v' = [W!Unref(v, Range(v.done)) EXCEPT !.owed = @ \ Range(v.done), !.done = <<>>,
                                             !.back = FALSE]
    BY <1>2, <1>3 DEF W!ForEach
  <2>2. PICK kept \in SUBSET Branches, owed \in SUBSET Branches :
           kept = v.bound \ (Range(v.done) \ v.held) /\ owed = v.owed \ Range(v.done)
    BY DEF WaitType, WaitRecords
  <2>3. v' = [v EXCEPT !.bound = kept, !.owed = owed, !.done = <<>>, !.back = FALSE]
    BY <2>1, <2>2 DEF W!Unref, WaitType, WaitRecords
  <2>4. /\ v'.cond = v.cond /\ v'.p = v.p /\ v'.at = v.at /\ v'.called = v.called
        /\ v'.back = FALSE /\ v'.all = v.all /\ v'.ready = v.ready /\ v'.done = <<>>
        /\ v'.err = v.err /\ v'.owed = owed /\ v'.st = v.st
        /\ v'.bound = kept /\ v'.held = v.held
    BY <2>3 DEF WaitType, WaitRecords
  <2>5. WaitType'
    BY <1>1, <2>3 DEF WaitType, WaitRecords
  <2>6. BranchInv'
    BY <1>1, <2>2, <2>4 DEF BranchInv
  <2>7. PlaceInv'
    BY <2>4 DEF PlaceInv
  <2>8. BackInv'
    BY <2>4 DEF BackInv
  <2> QED BY <2>5, <2>6, <2>7, <2>8
<1>4. CASE W!Return \/ W!CancelParent
  <2>1. PICK back \in BOOLEAN : v' = [W!Exit(v) EXCEPT !.p = "gone", !.back = back] /\ ~back
    <3>1. CASE W!Return
      BY <3>1 DEF W!Return
    <3>2. CASE W!CancelParent
      <4>1. v.back = FALSE
        BY <3>2 DEF W!CancelParent, BackInv, WaitType, WaitRecords
      <4>2. v' = [W!Exit(v) EXCEPT !.p = "gone"]
        BY <3>2 DEF W!CancelParent
      <4>3. [W!Exit(v) EXCEPT !.p = "gone"] = [W!Exit(v) EXCEPT !.p = "gone", !.back = FALSE]
        BY <4>1 DEF W!Exit, W!Unref, WaitType, WaitRecords
      <4> QED BY <4>2, <4>3
    <3> QED BY <1>4, <3>1, <3>2
  <2>2. PICK kept \in SUBSET Branches : kept = v.bound \ ((v.all \cup Range(v.done)) \ v.held)
    BY DEF WaitType, WaitRecords
  <2>3. PICK st \in [Branches -> {"new", "ready", "suspended", "exited", "cancelled"}] :
           st = [b \in Branches |-> IF b \in v.all THEN "cancelled" ELSE v.st[b]]
    BY DEF WaitType, WaitRecords
  <2>4. v' = [v EXCEPT !.bound = kept, !.st = st, !.all = {}, !.ready = <<>>, !.done = <<>>,
                       !.owed = {}, !.called = FALSE, !.paused = FALSE, !.p = "gone",
                       !.back = back]
    BY <1>2, <2>1, <2>2, <2>3 DEF W!Exit, W!Unref, WaitType, WaitRecords
  <2>5. /\ v'.cond = v.cond /\ v'.p = "gone" /\ v'.back = FALSE /\ v'.all = {}
        /\ v'.ready = <<>> /\ v'.done = <<>> /\ v'.owed = {} /\ v'.bound = kept
        /\ v'.held = v.held
    BY <2>1, <2>4 DEF WaitType, WaitRecords
  <2>6. WaitType'
    BY <1>1, <2>4 DEF WaitType, WaitRecords
  <2>7. kept \subseteq v.held
    BY <2>2 DEF BranchInv
  <2>8. BranchInv'
    BY <1>1, <2>5, <2>7 DEF BranchInv
  <2>9. PlaceInv' /\ BackInv'
    BY <2>5 DEF PlaceInv, BackInv
  <2> QED BY <2>6, <2>8, <2>9
<1> QED BY <1>3, <1>4

LEMMA WaitStep == WaitInv /\ [W!Next]_v => WaitInv'
<1> SUFFICES ASSUME WaitInv, [W!Next]_v PROVE WaitInv'
  OBVIOUS
<1>1. CASE UNCHANGED v
  BY <1>1 DEF WaitInv, WaitType, WaitRecords, BranchInv, PlaceInv, BackInv
<1>2. CASE W!Next
  BY <1>2, RunExitsKeeps, RunSuspendsKeeps, RunYieldsKeeps, ParentKeeps, ScheduleKeeps,
     HoldKeeps, DropKeeps DEF W!Next
<1> QED BY <1>1, <1>2

(* Wait: every branch is on the way or completed until it is handed over or  *)
(* dropped, a parent sleeps in its Wait only when a branch will wake it and  *)
(* none could run, and a Wait that returns has kept its condition, however   *)
(* many branches there are (Wait::schedule, task_queue_run, async_pause,     *)
(* for_each, async_finalize).                                                *)
THEOREM WaitIsSound == MCSpec => []WaitSound
<1>1. MCInit => WaitInv
  <2> SUFFICES ASSUME MCInit PROVE WaitInv
    OBVIOUS
  <2>1. PICK c \in Conditions :
           v = [cond |-> c, p |-> "running", at |-> "user", called |-> FALSE, paused |-> FALSE,
                back |-> FALSE, all |-> {}, ready |-> <<>>, done |-> <<>>, err |-> {},
                other |-> FALSE, st |-> [b \in Branches |-> "new"], owed |-> {}, bound |-> {},
                held |-> {}]
    BY DEF MCInit, W!Init
  <2>2. <<>> \in Seq(Branches) /\ Range(<<>>) = {} /\ IsInjective(<<>>)
    BY DEF Range, IsInjective
  <2>3. WaitType
    BY <2>1, <2>2 DEF WaitType, WaitRecords
  <2>4. BranchInv
    BY <2>1, <2>2 DEF BranchInv
  <2> QED BY <2>1, <2>3, <2>4 DEF WaitInv, PlaceInv, BackInv
<1>2. WaitInv /\ [MCNext]_allVars => WaitInv'
  BY WaitStep DEF MCNext, allVars
<1>3. WaitInv => WaitSound
  <2> SUFFICES ASSUME WaitInv PROVE WaitSound
    OBVIOUS
  <2>1. /\ v.ready \in Seq(Branches) /\ v.done \in Seq(Branches)
        /\ IsInjective(v.ready) /\ IsInjective(v.done)
    BY DEF WaitInv, WaitType, WaitRecords, BranchInv
  <2>2. \A S : W!Cardinality(S) = Cardinality(S)
    BY DEF W!Cardinality, Cardinality
  <2>3. /\ {v.done[i] : i \in DOMAIN v.done} = Range(v.done)
        /\ {v.ready[i] : i \in DOMAIN v.ready} = Range(v.ready)
    BY DEF Range
  <2>4. /\ Len(v.done) = W!Cardinality(Range(v.done))
        /\ Len(v.ready) = W!Cardinality(Range(v.ready))
    BY <2>1, <2>2, DistinctLength
  <2>5. v.p = "gone" => v.all \cup Range(v.ready) \cup Range(v.done) = {}
    <3>1. v.p = "gone" => v.all = {} /\ Range(v.done) = {}
      BY DEF WaitInv, PlaceInv, Range
    <3>2. Range(v.ready) \subseteq v.all
      BY DEF WaitInv, BranchInv
    <3> QED BY <3>1, <3>2
  <2>6. W!BranchesAccounted
    BY <2>3, <2>4, <2>5 DEF W!BranchesAccounted, WaitInv, BranchInv
  <2>7. W!WaitKeepsPromise
    BY DEF W!WaitKeepsPromise, WaitInv, PlaceInv, BackInv
  <2> QED BY <2>6, <2>7 DEF WaitSound
<1> QED BY <1>1, <1>2, <1>3, PTL DEF MCSpec, allVars

=============================================================================
