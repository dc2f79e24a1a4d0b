-------------------------- MODULE TaskQueueProofs --------------------------
(* What is proved of the scheduler, for every set of tasks and threads: the  *)
(* types and reference counts in any use (TypeInv is inductive alone), and   *)
(* in disciplined use the soundness of the lists (IndInv, relative to it).   *)
EXTENDS TaskQueueLife, ListFacts, TLAPS

(* An empty queue satisfies the type invariant.                              *)
LEMMA TypeInvInit == Init => TypeInv
BY TaskAssumption, UsageAssumption
DEF Init, TypeInv, TypeOK, PointersInv, RefcInv, PCs, States, Errors, NoCall, Call

(* schedule() keeps the types of what it writes.                             *)
LEMMA ScheduleType ==
    ASSUME TypeOK, NEW t \in Tasks, NEW e \in Errors, Schedule(t, e)
    PROVE  /\ state' \in [Tasks -> States]
           /\ err' \in [Tasks -> Errors]
           /\ ready' \in Seq(Tasks)
<1>1. CASE Schedulable(t)
  <2>1. ready' \in Seq(Tasks)
    <3>1. ready' = <<t>> \o ready /\ ready \in Seq(Tasks)
      BY <1>1 DEF Schedule, TypeOK
    <3> QED BY <3>1, PushFacts
  <2>2. state' \in [Tasks -> States] /\ err' \in [Tasks -> Errors]
    BY <1>1 DEF Schedule, TypeOK, States
  <2> QED BY <2>1, <2>2
<1>2. CASE ~Schedulable(t)
  BY <1>2 DEF Schedule, TypeOK
<1> QED BY <1>1, <1>2

(* TaskQueue::pop gives up exactly the queue's reference.                    *)
LEMMA PopRefc ==
    ASSUME TypeOK, RefcInv, NEW t \in all, Pop(t), held' = held
    PROVE  all' \subseteq Tasks /\ refc' \in [Tasks -> Nat] /\ RefcInv'
<1>1. t \in Tasks /\ refc[t] \in Nat /\ held[t] \in {0, 1}
      /\ refc[t] >= held[t] + 1
  <2>1. t \in Tasks /\ refc[t] \in Nat /\ held[t] \in {0, 1}
    BY DEF TypeOK
  <2> QED BY <2>1 DEF RefcInv
<1>2. all' \subseteq Tasks /\ refc' \in [Tasks -> Nat]
  BY <1>1 DEF TypeOK, Pop
<1>3. RefcInv'
  <2> SUFFICES ASSUME NEW u \in Tasks
               PROVE  /\ refc'[u] >= held[u] + (IF u \in all' THEN 1 ELSE 0)
                      /\ u \notin Respawned =>
                            refc'[u] = held[u] + (IF u \in all' THEN 1 ELSE 0)
    BY DEF RefcInv
  <2>1. CASE u = t
    BY <1>1, <2>1 DEF TypeOK, RefcInv, Pop
  <2>2. CASE u # t
    BY <1>1, <2>2 DEF TypeOK, RefcInv, Pop
  <2> QED BY <2>1, <2>2
<1> QED BY <1>2, <1>3

(* TaskQueue::exit gives up the queue's reference to every attached task.    *)
LEMMA ExitQueueRefc ==
    ASSUME TypeOK, RefcInv, ExitQueue, held' = held
    PROVE  refc' \in [Tasks -> Nat] /\ RefcInv'
<1>1. \A t \in Tasks : refc[t] \in Nat /\ held[t] \in {0, 1}
  BY DEF TypeOK
<1>2. \A t \in all : t \in Tasks /\ refc[t] >= held[t] + 1
  BY <1>1 DEF TypeOK, RefcInv
<1>3. refc' \in [Tasks -> Nat]
  BY <1>1, <1>2 DEF ExitQueue
<1>4. RefcInv'
  <2> SUFFICES ASSUME NEW u \in Tasks
               PROVE  /\ refc'[u] >= held[u]
                      /\ u \notin Respawned => refc'[u] = held[u]
    BY <1>1, <1>3 DEF RefcInv, ExitQueue
  <2>1. CASE u \in all
    <3>1. refc'[u] = refc[u] - 1
      BY <2>1 DEF ExitQueue
    <3>2. u \notin Respawned => refc[u] = held[u] + 1
      BY <2>1 DEF RefcInv
    <3> QED BY <1>1, <1>2, <2>1, <3>1, <3>2
  <2>2. CASE u \notin all
    BY <1>1, <2>2 DEF RefcInv, ExitQueue
  <2> QED BY <2>1, <2>2
<1> QED BY <1>3, <1>4

(* Every step keeps the type invariant and the reference counts.             *)
LEMMA TypeInvStep == TypeInv /\ [Next]_vars => TypeInv'
<1> SUFFICES ASSUME TypeInv, [Next]_vars PROVE TypeInv'
  OBVIOUS
<1> USE UsageAssumption
<1> USE DEF loopVars, queueVars, taskVars, TypeInv, PointersInv
<1>0. \A t \in Tasks : /\ refc[t] \in Nat
                       /\ t \in all \/ held[t] = 1 => refc[t] - 1 \in Nat
  BY DEF TypeOK, RefcInv
<1>1. CASE OuterCheck
  BY <1>0, <1>1 DEF OuterCheck, TypeOK, RefcInv, PCs, States, Errors
<1>2. CASE PopReady
  <2>1. ready # <<>> => Head(ready) \in Tasks /\ Tail(ready) \in Seq(Tasks)
    BY DEF TypeOK
  <2>2. TypeOK'
    BY <1>0, <1>2, <2>1 DEF PopReady, Enter, TypeOK, PCs, States, Errors
  <2>3. PointersInv'
    BY <1>2, <2>1 DEF PopReady, Enter, TypeOK
  <2>4. RefcInv'
    BY <1>0, <1>2, <2>1 DEF PopReady, Enter, TypeOK, RefcInv
  <2> QED BY <2>2, <2>3, <2>4
<1>3. CASE PollDone
  BY <1>0, <1>3 DEF PollDone, TypeOK, RefcInv, PCs, States, Errors
<1>4. CASE Suspend
  <2>1. TypeOK'
    BY <1>0, <1>4 DEF Suspend, Return, InBody, TypeOK, PCs, States, Errors
  <2>2. PointersInv'
    BY <1>0, <1>4 DEF Suspend, Return, InBody, TypeOK
  <2>3. RefcInv'
    BY <1>0, <1>4 DEF Suspend, Return, InBody, TypeOK, RefcInv
  <2> QED BY <2>1, <2>2, <2>3
<1>5. CASE Yield
  <2>1. TypeOK'
    BY <1>0, <1>5 DEF Yield, Return, TypeOK, PCs, States, Errors
  <2>2. PointersInv'
    BY <1>0, <1>5 DEF Yield, Return, TypeOK
  <2>3. RefcInv'
    BY <1>0, <1>5 DEF Yield, Return, TypeOK, RefcInv
  <2> QED BY <2>1, <2>2, <2>3
<1>6. CASE Complete
  <2>1. TypeOK'
    BY <1>0, <1>6 DEF Complete, Exited, Return, InBody, TypeOK, PCs, States, Errors
  <2>2. PointersInv'
    BY <1>0, <1>6 DEF Complete, Exited, Return, InBody, TypeOK
  <2>3. RefcInv'
    BY <1>0, <1>6 DEF Complete, Exited, Return, InBody, TypeOK, RefcInv
  <2> QED BY <2>1, <2>2, <2>3
<1>7. CASE RunCancelled
  <2>1. TypeOK'
    BY <1>0, <1>7 DEF RunCancelled, Exited, Return, TypeOK, PCs, States, Errors
  <2>2. PointersInv'
    BY <1>0, <1>7 DEF RunCancelled, Exited, Return, TypeOK
  <2>3. RefcInv'
    BY <1>0, <1>7 DEF RunCancelled, Exited, Return, TypeOK, RefcInv
  <2> QED BY <2>1, <2>2, <2>3
<1>8. ASSUME NEW e \in {"error", "exit"}, Raise(e) PROVE TypeInv'
  <2>1. TypeOK'
    BY <1>0, <1>8 DEF Raise, Exited, Return, InBody, TypeOK, PCs, States, Errors
  <2>2. PointersInv'
    BY <1>0, <1>8 DEF Raise, Exited, Return, InBody, TypeOK
  <2>3. RefcInv'
    BY <1>0, <1>8 DEF Raise, Exited, Return, InBody, TypeOK, RefcInv
  <2> QED BY <2>1, <2>2, <2>3
<1>9. CASE Store
  <2>1. TypeOK'
    BY <1>0, <1>9 DEF Store, TypeOK, PCs, States, Errors
  <2>2. PointersInv'
    BY <1>0, <1>9 DEF Store, TypeOK
  <2>3. RefcInv'
    BY <1>0, <1>9 DEF Store, TypeOK, RefcInv
  <2> QED BY <2>1, <2>2, <2>3
<1>10. CASE OnTaskExit
  <2>1. TypeOK'
    <3>1. pc' \in PCs
      BY <1>10 DEF OnTaskExit, PCs
    <3>2. all' \subseteq Tasks
      BY <1>10 DEF OnTaskExit, Pop, TypeOK
    <3>3. refc' \in [Tasks -> Nat]
      <4>1. CASE cur \in all
        <5>1. cur \in Tasks /\ refc \in [Tasks -> Nat] /\ refc[cur] - 1 \in Nat
          BY <1>0, <4>1 DEF TypeOK
        <5>2. refc' = [refc EXCEPT ![cur] = refc[cur] - 1]
          BY <1>10, <4>1 DEF OnTaskExit, Pop
        <5> QED BY <5>1, <5>2
      <4>2. CASE cur \notin all
        BY <1>10, <4>2 DEF OnTaskExit, TypeOK
      <4> QED BY <4>1, <4>2
    <3> QED BY <1>10, <3>1, <3>2, <3>3 DEF OnTaskExit, TypeOK
  <2>2. PointersInv'
    BY <1>10 DEF OnTaskExit, Pop, TypeOK
  <2>3. RefcInv'
    <3>1. CASE cur \in all
      BY <1>10, <3>1, PopRefc DEF OnTaskExit
    <3>2. CASE cur \notin all
      BY <1>10, <3>2 DEF OnTaskExit, RefcInv
    <3> QED BY <3>1, <3>2
  <2> QED BY <2>1, <2>2, <2>3
<1>11. CASE ExitAfterRun
  <2>1. TypeOK'
    BY <1>0, <1>11 DEF ExitAfterRun, ExitQueue, Unwound, TypeOK, PCs, States, Errors
  <2>2. PointersInv'
    BY <1>11 DEF ExitAfterRun, ExitQueue, Unwound, TypeOK
  <2>3. RefcInv'
    BY <1>11, ExitQueueRefc DEF ExitAfterRun
  <2> QED BY <2>1, <2>2, <2>3
<1>12. CASE YieldPop
  <2>1. ready # <<>> => Head(ready) \in Tasks /\ Tail(ready) \in Seq(Tasks)
    BY DEF TypeOK
  <2>2. TypeOK'
    BY <1>0, <1>12, <2>1 DEF YieldPop, Enter, TypeOK, PCs, States, Errors
  <2>3. PointersInv'
    BY <1>12, <2>1 DEF YieldPop, Enter, TypeOK
  <2>4. RefcInv'
    BY <1>0, <1>12, <2>1 DEF YieldPop, Enter, TypeOK, RefcInv
  <2> QED BY <2>2, <2>3, <2>4
<1>13. CASE YieldSchedule
  <2>1. TypeOK'
    BY <1>13, ScheduleType DEF YieldSchedule, Enter, TypeOK, PCs, Errors
  <2>2. PointersInv'
    BY <1>13 DEF YieldSchedule, Schedule, Schedulable, Enter, TypeOK
  <2>3. RefcInv'
    BY <1>0, <1>13 DEF YieldSchedule, Schedule, Schedulable, Enter, TypeOK, RefcInv
  <2> QED BY <2>1, <2>2, <2>3
<1>14. CASE Run
  <2>1. TypeOK'
    BY <1>0, <1>14 DEF Run, TypeOK, PCs, States, Errors
  <2>2. PointersInv'
    BY <1>0, <1>14 DEF Run, TypeOK
  <2>3. RefcInv'
    BY <1>0, <1>14 DEF Run, TypeOK, RefcInv
  <2> QED BY <2>1, <2>2, <2>3
<1>15. ASSUME NEW t \in Tasks, TaskNew(t) PROVE TypeInv'
  <2>1. TypeOK'
    BY <1>0, <1>15 DEF TaskNew, Spawn, TypeOK, PCs, States, Errors
  <2>2. PointersInv'
    BY <1>0, <1>15 DEF TaskNew, Spawn, TypeOK
  <2>3. RefcInv'
    BY <1>0, <1>15 DEF TaskNew, Spawn, TypeOK, RefcInv
  <2> QED BY <2>1, <2>2, <2>3
<1>16. ASSUME NEW t \in Tasks, TaskCreate(t) PROVE TypeInv'
  <2>1. TypeOK'
    BY <1>0, <1>16 DEF TaskCreate, Spawn, InUse, TypeOK, PCs, States, Errors
  <2>2. PointersInv'
    BY <1>0, <1>16 DEF TaskCreate, Spawn, InUse, TypeOK
  <2>3. RefcInv'
    BY <1>0, <1>16 DEF TaskCreate, Spawn, InUse, TypeOK, RefcInv
  <2> QED BY <2>1, <2>2, <2>3
<1>17. ASSUME NEW t \in Tasks, TaskCreateAttached(t) PROVE TypeInv'
  <2>1. TypeOK'
    BY <1>0, <1>17 DEF TaskCreateAttached, TypeOK, PCs, States, Errors
  <2>2. PointersInv'
    BY <1>0, <1>17 DEF TaskCreateAttached, TypeOK
  <2>3. RefcInv'
    BY <1>0, <1>17 DEF TaskCreateAttached, TypeOK, RefcInv
  <2> QED BY <2>1, <2>2, <2>3
<1>18. ASSUME NEW t \in Tasks, DropHandle(t) PROVE TypeInv'
  <2>1. TypeOK'
    BY <1>0, <1>18 DEF DropHandle, InUse, TypeOK, PCs, States, Errors
  <2>2. PointersInv'
    BY <1>0, <1>18 DEF DropHandle, InUse, TypeOK
  <2>3. RefcInv'
    BY <1>0, <1>18 DEF DropHandle, InUse, TypeOK, RefcInv
  <2> QED BY <2>1, <2>2, <2>3
<1>19. ASSUME NEW t \in Tasks, NEW e \in {"none", "error"}, ResumeTask(t, e) PROVE TypeInv'
  <2>1. TypeOK'
    BY <1>19, ScheduleType DEF ResumeTask, TypeOK, Errors
  <2>2. PointersInv'
    BY <1>19 DEF ResumeTask, Schedule, Schedulable, TypeOK
  <2>3. RefcInv'
    BY <1>0, <1>19 DEF ResumeTask, Schedule, Schedulable, TypeOK, RefcInv
  <2> QED BY <2>1, <2>2, <2>3
<1>20. ASSUME NEW t \in Tasks, CancelTask(t) PROVE TypeInv'
  <2>1. PointersInv'
    BY <1>20 DEF CancelTask
  <2>2. CASE state[t] = "Ready"
    BY <1>20, <2>1, <2>2 DEF CancelTask, Cancel, Unwound, TypeOK, RefcInv, Errors
  <2>3. CASE state[t] # "Ready"
    <3>1. all' \subseteq Tasks /\ refc' \in [Tasks -> Nat] /\ RefcInv'
      BY <1>20, <2>3, PopRefc DEF CancelTask, Cancel
    <3>2. TypeOK'
      BY <1>20, <2>3, <3>1 DEF CancelTask, Cancel, Unwound, TypeOK, States
    <3> QED BY <2>1, <3>1, <3>2
  <2> QED BY <2>2, <2>3
<1>21. CASE LoopExit
  <2>1. TypeOK'
    BY <1>0, <1>21 DEF LoopExit, ExitQueue, Unwound, Callback, TypeOK, PCs, States, Errors
  <2>2. PointersInv'
    BY <1>21 DEF LoopExit, ExitQueue, Unwound, Callback, TypeOK
  <2>3. RefcInv'
    BY <1>21, ExitQueueRefc DEF LoopExit
  <2> QED BY <2>1, <2>2, <2>3
<1>22. ASSUME NEW h \in Threads, ThreadExchange(h) PROVE TypeInv'
  <2>1. TypeOK'
    <3>1. thr[h].task \in Tasks
      BY <1>22 DEF ThreadExchange
    <3>2. thr' \in [Threads -> [step : {"idle", "exchange", "restore", "push"},
                                task : Tasks \cup {NoTask}]]
      <4>1. thr'[h] \in {NoCall, Call("restore", thr[h].task),
                                 Call("push", thr[h].task)}
        BY <1>22 DEF ThreadExchange, TypeOK
      <4>2. thr'[h] \in [step : {"idle", "exchange", "restore", "push"},
                         task : Tasks \cup {NoTask}]
        BY <3>1, <4>1 DEF NoCall, Call
      <4> QED BY <1>22, <4>2 DEF ThreadExchange, TypeOK
    <3> QED BY <1>22, <3>1, <3>2 DEF ThreadExchange, TypeOK, States
  <2>2. PointersInv'
    BY <1>22 DEF ThreadExchange, NoCall, Call, TypeOK
  <2>3. RefcInv'
    BY <1>0, <1>22 DEF ThreadExchange, NoCall, Call, TypeOK, RefcInv
  <2> QED BY <2>1, <2>2, <2>3
<1>23. ASSUME NEW h \in Threads, ThreadRestore(h) PROVE TypeInv'
  BY <1>0, <1>23 DEF ThreadRestore, NoCall, Call, TypeOK, RefcInv, PCs, States, Errors
<1>24. ASSUME NEW h \in Threads, ThreadPush(h) PROVE TypeInv'
  BY <1>0, <1>24 DEF ThreadPush, NoCall, Call, TypeOK, RefcInv, PCs, States, Errors
<1>25. ASSUME NEW h \in Threads, NEW t \in Tasks, ThreadResume(h, t) PROVE TypeInv'
  BY <1>0, <1>25 DEF ThreadResume, Call, TypeOK, RefcInv, PCs, States, Errors
<1>26. CASE UNCHANGED vars
  BY <1>26 DEF vars, TypeOK, RefcInv
<1> QED BY <1>1, <1>2, <1>3, <1>4, <1>5, <1>6, <1>7, <1>8, <1>9, <1>10, <1>11, <1>12, <1>13, <1>14, <1>15, <1>16, <1>17, <1>18, <1>19, <1>20, <1>21, <1>22, <1>23, <1>24, <1>25, <1>26 DEF Next, LoopStep, UserStep, ThreadStep, Spawned, Resumed, ThreadResumed

(* Every step of a disciplined program keeps the lists sound.                *)
LEMMA IndInvStep ==
    ASSUME Disciplined, TypeInv, IndInv, [Next]_vars
    PROVE  IndInv'
<1> USE TaskAssumption, UsageAssumption
<1> USE DEF loopVars, queueVars, taskVars, Disciplined, TypeInv, TypeOK,
            IndInv, ReadyListSound, NoStrandedReady, CancelledClean,
            LoopInv, ThreadInv, TaskInv, NeverAborts, Engaged, Pushing,
            UserCode, InBody, Callback
<1>1. CASE OuterCheck
  <2>1. ready' = ready /\ Listed' = Listed
    BY <1>1 DEF OuterCheck, Listed
  <2>2. (ReadyListSound /\ NoStrandedReady /\ CancelledClean)'
    BY <1>1, <2>1 DEF OuterCheck
  <2>3. (LoopInv /\ ThreadInv)'
    BY <1>1, <2>1 DEF OuterCheck
  <2>4. (TaskInv /\ NeverAborts)'
    BY <1>1, <2>1 DEF OuterCheck
  <2> QED BY <2>2, <2>3, <2>4
<1>2. CASE PopReady
  <2>1. CASE ready = <<>>
    <3>1. ready' = ready /\ Listed' = Listed /\ Listed = {}
      BY <1>2, <2>1 DEF PopReady, Enter, Listed, Range
    <3>2. (ReadyListSound /\ NoStrandedReady /\ CancelledClean)'
      BY <1>2, <2>1, <3>1 DEF PopReady, Enter
    <3>3. (LoopInv /\ ThreadInv)'
      BY <1>2, <2>1, <3>1 DEF PopReady, Enter
    <3>4. (TaskInv /\ NeverAborts)'
      BY <1>2, <2>1, <3>1 DEF PopReady, Enter
    <3> QED BY <3>2, <3>3, <3>4
  <2>2. CASE ready # <<>>
    <3>1. ready' = Tail(ready)
      BY <1>2, <2>2 DEF PopReady, Enter
    <3>2. Head(ready) \in Listed /\ Listed' = Listed \ {Head(ready)} /\ IsInjective(ready')
      BY <2>2, <3>1, PopFacts DEF Listed
    <3>3. (ReadyListSound /\ NoStrandedReady /\ CancelledClean)'
      BY <1>2, <2>2, <3>2 DEF PopReady, Enter
    <3>4. (LoopInv /\ ThreadInv)'
      BY <1>2, <2>2, <3>2 DEF PopReady, Enter
    <3>5. (TaskInv /\ NeverAborts)'
      BY <1>2, <2>2, <3>2 DEF PopReady, Enter
    <3> QED BY <3>3, <3>4, <3>5
  <2> QED BY <2>1, <2>2
<1>3. CASE PollDone
  <2>1. ready' = ready /\ Listed' = Listed
    BY <1>3 DEF PollDone, Listed
  <2>2. (ReadyListSound /\ NoStrandedReady /\ CancelledClean)'
    BY <1>3, <2>1 DEF PollDone
  <2>3. (LoopInv /\ ThreadInv)'
    BY <1>3, <2>1 DEF PollDone
  <2>4. (TaskInv /\ NeverAborts)'
    BY <1>3, <2>1 DEF PollDone
  <2> QED BY <2>2, <2>3, <2>4
<1>4. CASE Suspend
  <2>1. ready' = ready /\ Listed' = Listed
    BY <1>4 DEF Suspend, Return, Listed
  <2>2. (ReadyListSound /\ NoStrandedReady /\ CancelledClean)'
    BY <1>4, <2>1 DEF Suspend, Return
  <2>3. (LoopInv /\ ThreadInv)'
    BY <1>4, <2>1 DEF Suspend, Return
  <2>4. (TaskInv /\ NeverAborts)'
    BY <1>4, <2>1 DEF Suspend, Return
  <2> QED BY <2>2, <2>3, <2>4
<1>5. CASE Yield
  <2>1. ready' = ready /\ Listed' = Listed
    BY <1>5 DEF Yield, Return, Listed
  <2>2. (ReadyListSound /\ NoStrandedReady /\ CancelledClean)'
    BY <1>5, <2>1 DEF Yield, Return
  <2>3. (LoopInv /\ ThreadInv)'
    BY <1>5, <2>1 DEF Yield, Return
  <2>4. (TaskInv /\ NeverAborts)'
    BY <1>5, <2>1 DEF Yield, Return
  <2> QED BY <2>2, <2>3, <2>4
<1>6. CASE Complete
  <2>1. ready' = ready /\ Listed' = Listed
    BY <1>6 DEF Complete, Exited, Return, Listed
  <2>2. (ReadyListSound /\ NoStrandedReady /\ CancelledClean)'
    BY <1>6, <2>1 DEF Complete, Exited, Return
  <2>3. (LoopInv /\ ThreadInv)'
    BY <1>6, <2>1 DEF Complete, Exited, Return
  <2>4. (TaskInv /\ NeverAborts)'
    BY <1>6, <2>1 DEF Complete, Exited, Return
  <2> QED BY <2>2, <2>3, <2>4
<1>7. CASE RunCancelled
  <2>1. ready' = ready /\ Listed' = Listed
    BY <1>7 DEF RunCancelled, Exited, Return, Listed
  <2>2. (ReadyListSound /\ NoStrandedReady /\ CancelledClean)'
    BY <1>7, <2>1 DEF RunCancelled, Exited, Return
  <2>3. (LoopInv /\ ThreadInv)'
    BY <1>7, <2>1 DEF RunCancelled, Exited, Return
  <2>4. (TaskInv /\ NeverAborts)'
    BY <1>7, <2>1 DEF RunCancelled, Exited, Return
  <2> QED BY <2>2, <2>3, <2>4
<1>8. ASSUME NEW e \in {"error", "exit"}, Raise(e) PROVE IndInv'
  <2>1. ready' = ready /\ Listed' = Listed
    BY <1>8 DEF Raise, Exited, Return, Listed
  <2>2. (ReadyListSound /\ NoStrandedReady /\ CancelledClean)'
    BY <1>8, <2>1 DEF Raise, Exited, Return
  <2>3. (LoopInv /\ ThreadInv)'
    BY <1>8, <2>1 DEF Raise, Exited, Return
  <2>4. (TaskInv /\ NeverAborts)'
    BY <1>8, <2>1 DEF Raise, Exited, Return
  <2> QED BY <2>2, <2>3, <2>4
<1>9. CASE Store
  <2>1. ready' = ready /\ Listed' = Listed
    BY <1>9 DEF Store, Listed
  <2>2. (ReadyListSound /\ NoStrandedReady /\ CancelledClean)'
    BY <1>9, <2>1 DEF Store
  <2>3. (LoopInv /\ ThreadInv)'
    BY <1>9, <2>1 DEF Store
  <2>4. (TaskInv /\ NeverAborts)'
    BY <1>9, <2>1 DEF Store
  <2> QED BY <2>2, <2>3, <2>4
<1>10. CASE OnTaskExit
  <2>1. ready' = ready /\ Listed' = Listed
    BY <1>10 DEF OnTaskExit, Pop, Listed
  <2>2. cur \in all
    BY <1>10 DEF OnTaskExit, Pop
  <2>3. (ReadyListSound /\ NoStrandedReady /\ CancelledClean)'
    BY <1>10, <2>1, <2>2 DEF OnTaskExit, Pop
  <2>4. (LoopInv /\ ThreadInv)'
    BY <1>10, <2>1, <2>2 DEF OnTaskExit, Pop
  <2>5. (TaskInv /\ NeverAborts)'
    BY <1>10, <2>1, <2>2 DEF OnTaskExit, Pop
  <2> QED BY <2>3, <2>4, <2>5
<1>11. CASE ExitAfterRun
  <2>1. Listed' = {} /\ IsInjective(ready')
    BY <1>11 DEF ExitAfterRun, ExitQueue, Unwound, Listed, Range, IsInjective
  <2>2. \A h \in Threads : thr[h].step = "idle" /\ thr'[h].step = "idle"
    <3>1. ThreadTargets = {}
      BY <1>11 DEF ExitAfterRun
    <3> QED BY <1>11, <3>1 DEF ExitAfterRun
  <2>3. (ReadyListSound /\ NoStrandedReady /\ CancelledClean)'
    BY <1>11, <2>1, <2>2 DEF ExitAfterRun, ExitQueue, Unwound
  <2>4. (LoopInv /\ ThreadInv)'
    BY <1>11, <2>1, <2>2 DEF ExitAfterRun, ExitQueue, Unwound
  <2>5. (TaskInv /\ NeverAborts)'
    BY <1>11, <2>1, <2>2 DEF ExitAfterRun, ExitQueue, Unwound
  <2> QED BY <2>3, <2>4, <2>5
<1>12. CASE YieldPop
  <2>1. CASE ready = <<>>
    <3>1. ready' = ready /\ Listed' = Listed /\ Listed = {}
      BY <1>12, <2>1 DEF YieldPop, Enter, Listed, Range
    <3>2. (ReadyListSound /\ NoStrandedReady /\ CancelledClean)'
      BY <1>12, <2>1, <3>1 DEF YieldPop, Enter
    <3>3. (LoopInv /\ ThreadInv)'
      BY <1>12, <2>1, <3>1 DEF YieldPop, Enter
    <3>4. (TaskInv /\ NeverAborts)'
      BY <1>12, <2>1, <3>1 DEF YieldPop, Enter
    <3> QED BY <3>2, <3>3, <3>4
  <2>2. CASE ready # <<>>
    <3>1. ready' = Tail(ready)
      BY <1>12, <2>2 DEF YieldPop, Enter
    <3>2. Head(ready) \in Listed /\ Listed' = Listed \ {Head(ready)} /\ IsInjective(ready')
      BY <2>2, <3>1, PopFacts DEF Listed
    <3>3. (ReadyListSound /\ NoStrandedReady /\ CancelledClean)'
      BY <1>12, <2>2, <3>2 DEF YieldPop, Enter
    <3>4. (LoopInv /\ ThreadInv)'
      BY <1>12, <2>2, <3>2 DEF YieldPop, Enter
    <3>5. (TaskInv /\ NeverAborts)'
      BY <1>12, <2>2, <3>2 DEF YieldPop, Enter
    <3> QED BY <3>3, <3>4, <3>5
  <2> QED BY <2>1, <2>2
<1>13. CASE YieldSchedule
  <2>1. cur \in Tasks /\ next \in Tasks /\ (next = cur => state[cur] = "Ready")
    BY <1>13 DEF YieldSchedule, Schedule, Schedulable, Enter
  <2>2. CASE Schedulable(cur)
    <3>1. cur \in Tasks /\ cur \notin Listed
      BY <1>13, <2>1, <2>2 DEF YieldSchedule, Schedule, Schedulable, Enter
    <3>2. /\ state' = [state EXCEPT ![cur] = "Ready"]
          /\ err' = [err EXCEPT ![cur] = "none"]
          /\ ready' = <<cur>> \o ready
      BY <1>13, <2>2 DEF YieldSchedule, Schedule, Schedulable, Enter
    <3>3. Listed' = {cur} \cup Listed /\ IsInjective(ready')
      BY <3>1, <3>2, PushFacts DEF Listed
    <3>4. (ReadyListSound /\ NoStrandedReady /\ CancelledClean)'
      BY <1>13, <2>1, <2>2, <3>1, <3>3 DEF YieldSchedule, Schedule, Schedulable, Enter
    <3>5. LoopInv'
      BY <1>13, <2>1, <2>2, <3>1, <3>3 DEF YieldSchedule, Schedule, Schedulable, Enter
    <3>6. ThreadInv'
      BY <1>13, <2>1, <2>2, <3>1, <3>3 DEF YieldSchedule, Schedule, Schedulable, Enter
    <3>7. (TaskInv /\ NeverAborts)'
      BY <1>13, <2>1, <2>2, <3>1, <3>3, <3>2 DEF YieldSchedule, Enter
    <3> QED BY <3>4, <3>5, <3>6, <3>7
  <2>3. CASE ~Schedulable(cur)
    <3>1. ready' = ready /\ Listed' = Listed
      BY <1>13, <2>3 DEF YieldSchedule, Schedule, Schedulable, Enter, Listed
    <3>2. (ReadyListSound /\ NoStrandedReady /\ CancelledClean)'
      BY <1>13, <2>1, <2>3, <3>1 DEF YieldSchedule, Schedule, Schedulable, Enter
    <3>3. (LoopInv /\ ThreadInv)'
      BY <1>13, <2>1, <2>3, <3>1 DEF YieldSchedule, Schedule, Schedulable, Enter
    <3>4. (TaskInv /\ NeverAborts)'
      BY <1>13, <2>1, <2>3, <3>1 DEF YieldSchedule, Schedule, Schedulable, Enter
    <3> QED BY <3>2, <3>3, <3>4
  <2> QED BY <2>2, <2>3
<1>14. CASE Run
  <2>1. ready' = ready /\ Listed' = Listed
    BY <1>14 DEF Run, Listed
  <2>2. (ReadyListSound /\ NoStrandedReady /\ CancelledClean)'
    BY <1>14, <2>1 DEF Run
  <2>3. (LoopInv /\ ThreadInv)'
    BY <1>14, <2>1 DEF Run
  <2>4. (TaskInv /\ NeverAborts)'
    BY <1>14, <2>1 DEF Run
  <2> QED BY <2>2, <2>3, <2>4
<1>15. ASSUME NEW t \in Tasks, TaskNew(t) PROVE IndInv'
  <2>1. t \notin all /\ held[t] = 0 /\ t \notin Listed
    <3>1. refc[t] = 0 /\ held[t] \in {0, 1}
      BY <1>15 DEF TaskNew
    <3>2. t \notin all /\ held[t] = 0
      BY <3>1 DEF RefcInv
    <3> QED BY <3>2
  <2>2. Listed' = {t} \cup Listed /\ IsInjective(ready')
    BY <1>15, <2>1, PushFacts DEF TaskNew, Spawn, Listed
  <2>3. (ReadyListSound /\ NoStrandedReady /\ CancelledClean)'
    BY <1>15, <2>1, <2>2 DEF TaskNew, Spawn
  <2>4. LoopInv'
    BY <1>15, <2>1, <2>2 DEF TaskNew, Spawn
  <2>5. ThreadInv'
    BY <1>15, <2>1, <2>2 DEF TaskNew, Spawn
  <2>6. (TaskInv /\ NeverAborts)'
    BY <1>15, <2>1, <2>2 DEF TaskNew, Spawn
  <2> QED BY <2>3, <2>4, <2>5, <2>6
<1>16. ASSUME NEW t \in Tasks, TaskCreate(t) PROVE IndInv'
  <2>1. t \in Tasks /\ t \notin Listed
    BY <1>16 DEF TaskCreate, Spawn, InUse
  <2>2. Listed' = {t} \cup Listed /\ IsInjective(ready')
    BY <1>16, <2>1, PushFacts DEF TaskCreate, Spawn, InUse, Listed
  <2>3. (ReadyListSound /\ NoStrandedReady /\ CancelledClean)'
    BY <1>16, <2>1, <2>2 DEF TaskCreate, Spawn, InUse
  <2>4. (LoopInv /\ ThreadInv)'
    BY <1>16, <2>1, <2>2 DEF TaskCreate, Spawn, InUse
  <2>5. (TaskInv /\ NeverAborts)'
    BY <1>16, <2>1, <2>2 DEF TaskCreate, Spawn, InUse
  <2> QED BY <2>3, <2>4, <2>5
<1>17. ASSUME NEW t \in Tasks, TaskCreateAttached(t) PROVE IndInv'
  <2>1. ready' = ready /\ Listed' = Listed
    BY <1>17 DEF TaskCreateAttached, Listed
  <2>2. (ReadyListSound /\ NoStrandedReady /\ CancelledClean)'
    BY <1>17, <2>1 DEF TaskCreateAttached
  <2>3. (LoopInv /\ ThreadInv)'
    BY <1>17, <2>1 DEF TaskCreateAttached
  <2>4. (TaskInv /\ NeverAborts)'
    BY <1>17, <2>1 DEF TaskCreateAttached
  <2> QED BY <2>2, <2>3, <2>4
<1>18. ASSUME NEW t \in Tasks, DropHandle(t) PROVE IndInv'
  <2>1. ready' = ready /\ Listed' = Listed
    BY <1>18 DEF DropHandle, InUse, Listed
  <2>2. (ReadyListSound /\ NoStrandedReady /\ CancelledClean)'
    BY <1>18, <2>1 DEF DropHandle, InUse
  <2>3. (LoopInv /\ ThreadInv)'
    BY <1>18, <2>1 DEF DropHandle, InUse
  <2>4. (TaskInv /\ NeverAborts)'
    BY <1>18, <2>1 DEF DropHandle, InUse
  <2> QED BY <2>2, <2>3, <2>4
<1>19. ASSUME NEW t \in Tasks, NEW e \in {"none", "error"}, ResumeTask(t, e) PROVE IndInv'
  <2>1. ~(pc = "running" /\ t = cur /\ state[t] = "Yield")
    BY <1>19 DEF ResumeTask, Schedule, Schedulable
  <2>2. CASE Schedulable(t)
    <3>1. t \in Tasks /\ t \notin Listed
      BY <1>19, <2>1, <2>2 DEF ResumeTask, Schedule, Schedulable
    <3>2. /\ state' = [state EXCEPT ![t] = "Ready"]
          /\ err' = [err EXCEPT ![t] = e]
          /\ ready' = <<t>> \o ready
      BY <1>19, <2>2 DEF ResumeTask, Schedule, Schedulable
    <3>3. Listed' = {t} \cup Listed /\ IsInjective(ready')
      BY <3>1, <3>2, PushFacts DEF Listed
    <3>4. (ReadyListSound /\ NoStrandedReady /\ CancelledClean)'
      BY <1>19, <2>1, <2>2, <3>1, <3>3 DEF ResumeTask, Schedule, Schedulable
    <3>5. LoopInv'
      BY <1>19, <2>1, <2>2, <3>1, <3>3 DEF ResumeTask, Schedule, Schedulable
    <3>6. ThreadInv'
      BY <1>19, <2>1, <2>2, <3>1, <3>3 DEF ResumeTask, Schedule, Schedulable
    <3>7. (TaskInv /\ NeverAborts)'
      BY <1>19, <2>1, <2>2, <3>1, <3>3, <3>2 DEF ResumeTask
    <3> QED BY <3>4, <3>5, <3>6, <3>7
  <2>3. CASE ~Schedulable(t)
    <3>1. ready' = ready /\ Listed' = Listed
      BY <1>19, <2>3 DEF ResumeTask, Schedule, Schedulable, Listed
    <3>2. (ReadyListSound /\ NoStrandedReady /\ CancelledClean)'
      BY <1>19, <2>1, <2>3, <3>1 DEF ResumeTask, Schedule, Schedulable
    <3>3. (LoopInv /\ ThreadInv)'
      BY <1>19, <2>1, <2>3, <3>1 DEF ResumeTask, Schedule, Schedulable
    <3>4. (TaskInv /\ NeverAborts)'
      BY <1>19, <2>1, <2>3, <3>1 DEF ResumeTask, Schedule, Schedulable
    <3> QED BY <3>2, <3>3, <3>4
  <2> QED BY <2>2, <2>3
<1>20. ASSUME NEW t \in Tasks, CancelTask(t) PROVE IndInv'
  <2>1. ready' = ready /\ Listed' = Listed
    BY <1>20 DEF CancelTask, Cancel, Pop, Unwound, Listed
  <2>2. t # running
    BY <1>20 DEF CancelTask, Cancel, Pop, Unwound
  <2>3. CASE state[t] = "Ready"
    <3>1. (ReadyListSound /\ NoStrandedReady /\ CancelledClean)'
      BY <1>20, <2>1, <2>2, <2>3 DEF CancelTask, Cancel, Pop, Unwound
    <3>2. (LoopInv /\ ThreadInv)'
      BY <1>20, <2>1, <2>2, <2>3 DEF CancelTask, Cancel, Pop, Unwound
    <3>3. (TaskInv /\ NeverAborts)'
      BY <1>20, <2>1, <2>2, <2>3 DEF CancelTask, Cancel, Pop, Unwound
    <3> QED BY <3>1, <3>2, <3>3
  <2>4. CASE state[t] # "Ready"
    <3>1. /\ t \notin Listed /\ ~Pushing(t)
          /\ ~(t = cur /\ pc \in {"running", "ypoll"})
      BY <1>20, <2>2, <2>4 DEF CancelTask, Cancel, Pop, Unwound
    <3>2. (ReadyListSound /\ NoStrandedReady /\ CancelledClean)'
      BY <1>20, <2>1, <2>2, <2>4, <3>1 DEF CancelTask, Cancel, Pop, Unwound
    <3>3. LoopInv'
      BY <1>20, <2>1, <2>2, <2>4, <3>1 DEF CancelTask, Cancel, Pop, Unwound
    <3>4. ThreadInv'
      BY <1>20, <2>1, <2>2, <2>4, <3>1 DEF CancelTask, Cancel, Pop, Unwound
    <3>5. (TaskInv /\ NeverAborts)'
      <4>1. /\ state' = [state EXCEPT ![t] = "Exited"]
            /\ top' = [top EXCEPT ![t] = Unwound(t)]
            /\ all' = all \ {t}
            /\ UNCHANGED <<err, held, loopVars>>
        BY <1>20, <2>4 DEF CancelTask, Cancel, Pop
      <4> QED BY <3>1, <4>1
    <3> QED BY <3>2, <3>3, <3>4, <3>5
  <2> QED BY <2>3, <2>4
<1>21. CASE LoopExit
  <2>1. Listed' = {} /\ IsInjective(ready')
    BY <1>21 DEF LoopExit, ExitQueue, Unwound, Listed, Range, IsInjective
  <2>2. \A h \in Threads : thr[h].step = "idle" /\ thr'[h].step = "idle"
    BY <1>21 DEF LoopExit, ExitQueue, Unwound
  <2>3. (ReadyListSound /\ NoStrandedReady /\ CancelledClean)'
    BY <1>21, <2>1, <2>2 DEF LoopExit, ExitQueue, Unwound
  <2>4. (LoopInv /\ ThreadInv)'
    BY <1>21, <2>1, <2>2 DEF LoopExit, ExitQueue, Unwound
  <2>5. (TaskInv /\ NeverAborts)'
    BY <1>21, <2>1, <2>2 DEF LoopExit, ExitQueue, Unwound
  <2> QED BY <2>3, <2>4, <2>5
<1>22. ASSUME NEW h \in Threads, ThreadExchange(h) PROVE IndInv'
  <2>1. ready' = ready /\ Listed' = Listed
    BY <1>22 DEF ThreadExchange, NoCall, Call, Listed
  <2> DEFINE t == thr[h].task
  <2>2. t \in Tasks /\ t \in ThreadTargets /\ t \notin Yielders /\ held[t] = 1
    BY <1>22 DEF ThreadExchange, NoCall, Call
  <2>3. CASE state[t] = "Ready"
    <3>1. (ReadyListSound /\ NoStrandedReady /\ CancelledClean)'
      BY <1>22, <2>1, <2>2, <2>3 DEF ThreadExchange, NoCall, Call
    <3>2. LoopInv'
      BY <1>22, <2>1, <2>2, <2>3 DEF ThreadExchange, NoCall, Call
    <3>3. ThreadInv'
      BY <1>22, <2>1, <2>2, <2>3 DEF ThreadExchange, NoCall, Call
    <3>4. (TaskInv /\ NeverAborts)'
      BY <1>22, <2>1, <2>2, <2>3 DEF ThreadExchange, NoCall, Call
    <3> QED BY <3>1, <3>2, <3>3, <3>4
  <2>4. CASE state[t] = "Exited"
    <3>1. t \in all => t = cur /\ pc \in {"store", "exit_cb"} /\ top[t] = "null"
      BY <2>4
    <3>2. (ReadyListSound /\ NoStrandedReady /\ CancelledClean)'
      BY <1>22, <2>1, <2>2, <2>4, <3>1 DEF ThreadExchange, NoCall, Call
    <3>3. LoopInv'
      BY <1>22, <2>1, <2>2, <2>4, <3>1 DEF ThreadExchange, NoCall, Call
    <3>4. ThreadInv'
      BY <1>22, <2>1, <2>2, <2>4, <3>1 DEF ThreadExchange, NoCall, Call
    <3>5. (TaskInv /\ NeverAborts)'
      BY <1>22, <2>1, <2>2, <2>4, <3>1 DEF ThreadExchange, NoCall, Call
    <3> QED BY <3>2, <3>3, <3>4, <3>5
  <2>5. CASE state[t] \notin {"Ready", "Exited"}
    <3>1. /\ state[t] = "Suspended" /\ t \in all /\ t \notin Listed
          /\ ~Pushing(t) /\ ~Engaged(t) /\ top[t] # "null"
      BY <2>2, <2>5 DEF States
    <3>2. (ReadyListSound /\ NoStrandedReady /\ CancelledClean)'
      BY <1>22, <2>1, <2>2, <2>5, <3>1 DEF ThreadExchange, NoCall, Call
    <3>3. LoopInv'
      BY <1>22, <2>1, <2>2, <2>5, <3>1 DEF ThreadExchange, NoCall, Call
    <3>4. ThreadInv'
      BY <1>22, <2>1, <2>2, <2>5, <3>1 DEF ThreadExchange, NoCall, Call
    <3>5. (TaskInv /\ NeverAborts)'
      BY <1>22, <2>1, <2>2, <2>5, <3>1 DEF ThreadExchange, NoCall, Call
    <3> QED BY <3>2, <3>3, <3>4, <3>5
  <2> QED BY <2>3, <2>4, <2>5
<1>23. ASSUME NEW h \in Threads, ThreadRestore(h) PROVE IndInv'
  <2>1. ready' = ready /\ Listed' = Listed
    BY <1>23 DEF ThreadRestore, NoCall, Call, Listed
  <2>2. (ReadyListSound /\ NoStrandedReady /\ CancelledClean)'
    BY <1>23, <2>1 DEF ThreadRestore, NoCall, Call
  <2>3. (LoopInv /\ ThreadInv)'
    BY <1>23, <2>1 DEF ThreadRestore, NoCall, Call
  <2>4. (TaskInv /\ NeverAborts)'
    BY <1>23, <2>1 DEF ThreadRestore, NoCall, Call
  <2> QED BY <2>2, <2>3, <2>4
<1>24. ASSUME NEW h \in Threads, ThreadPush(h) PROVE IndInv'
  <2>1. thr[h].task \in Tasks /\ thr[h].task \notin Listed
    BY <1>24 DEF ThreadPush, NoCall, Call
  <2>2. Listed' = {thr[h].task} \cup Listed /\ IsInjective(ready')
    BY <1>24, <2>1, PushFacts DEF ThreadPush, NoCall, Call, Listed
  <2>3. (ReadyListSound /\ NoStrandedReady /\ CancelledClean)'
    BY <1>24, <2>1, <2>2 DEF ThreadPush, NoCall, Call
  <2>4. (LoopInv /\ ThreadInv)'
    BY <1>24, <2>1, <2>2 DEF ThreadPush, NoCall, Call
  <2>5. (TaskInv /\ NeverAborts)'
    BY <1>24, <2>1, <2>2 DEF ThreadPush, NoCall, Call
  <2> QED BY <2>3, <2>4, <2>5
<1>25. ASSUME NEW h \in Threads, NEW t \in Tasks, ThreadResume(h, t) PROVE IndInv'
  <2>1. ready' = ready /\ Listed' = Listed
    BY <1>25 DEF ThreadResume, Listed
  <2>2. (ReadyListSound /\ NoStrandedReady /\ CancelledClean)'
    BY <1>25, <2>1 DEF ThreadResume, Call
  <2>3. LoopInv'
    BY <1>25, <2>1 DEF ThreadResume, Call
  <2>4. ThreadInv'
    BY <1>25, <2>1 DEF ThreadResume, Call
  <2>5. TaskInv'
    BY <1>25, <2>1 DEF ThreadResume, Call
  <2>6. NeverAborts'
    BY <1>25, <2>1 DEF ThreadResume, Call
  <2> QED BY <2>2, <2>3, <2>4, <2>5, <2>6
<1>26. CASE UNCHANGED vars
  BY <1>26 DEF vars, Listed
<1> HIDE DEF IndInv
<1> QED BY <1>1, <1>2, <1>3, <1>4, <1>5, <1>6, <1>7, <1>8, <1>9, <1>10, <1>11, <1>12, <1>13, <1>14, <1>15, <1>16, <1>17, <1>18, <1>19, <1>20, <1>21, <1>22, <1>23, <1>24, <1>25, <1>26 DEF Next, LoopStep, UserStep, ThreadStep, Spawned, Resumed, ThreadResumed

(* An empty queue satisfies the inductive invariant.                         *)
LEMMA IndInvInit == Init => IndInv
BY TaskAssumption
DEF Init, IndInv, ReadyListSound, NoStrandedReady, CancelledClean, LoopInv, ThreadInv,
    TaskInv, NeverAborts, Listed, Range, IsInjective, Engaged, Pushing, NoCall, Call

(* In every use of the queue, disciplined or not, the variables keep their   *)
(* types and no task has fewer references than the program and the queue     *)
(* own: TaskQueue::pop never frees an attached or held task.                 *)
THEOREM TypeCorrect == Spec => []TypeInv
<1>1. Init => TypeInv
  BY TypeInvInit
<1>2. TypeInv /\ [Next]_vars => TypeInv'
  BY TypeInvStep
<1> QED BY <1>1, <1>2, PTL DEF Spec

(* The type invariant of the scheduler.                                      *)
THEOREM TypeSafety == Spec => []TypeOK
<1>1. TypeInv => TypeOK
  BY DEF TypeInv
<1> QED BY <1>1, TypeCorrect, PTL

(* When no task is spawned while it is attached, the reference count that    *)
(* TaskQueue::push and pop maintain is exact.                                *)
THEOREM ReferencesExact ==
    ASSUME Respawned = {}
    PROVE  Spec => []RefcExact
<1>1. TypeInv => RefcExact
  BY DEF TypeInv, RefcInv, RefcExact
<1> QED BY <1>1, TypeCorrect, PTL

(* Under disciplined use the inductive invariant holds of every reachable    *)
(* state of TaskQueue::run and the threads that resume its tasks.            *)
THEOREM SchedulerInvariant ==
    ASSUME Disciplined
    PROVE  Spec => []IndInv
<1>1. Init => IndInv
  BY IndInvInit
<1>2. TypeInv /\ IndInv /\ [Next]_vars => IndInv'
  BY IndInvStep
<1> QED BY <1>1, <1>2, TypeCorrect, PTL DEF Spec

(* Under disciplined use the ready list is sound, no Ready task is lost, a   *)
(* cancelled task stays clean and on_task_exit always finds its task.        *)
THEOREM SchedulerSafety ==
    ASSUME Disciplined
    PROVE  Spec => [](ReadyListSound /\ NoStrandedReady /\ CancelledClean /\ NeverAborts)
<1>1. IndInv => ReadyListSound /\ NoStrandedReady /\ CancelledClean /\ NeverAborts
  BY DEF IndInv
<1> QED BY <1>1, SchedulerInvariant, PTL

(* Under disciplined use TaskQueue::run only enters a task that is attached, *)
(* referenced and in no list.                                                *)
THEOREM RunsOnlyLiveTasks ==
    ASSUME Disciplined
    PROVE  Spec => []RunsLiveTask
<1>1. TypeInv /\ IndInv => RunsLiveTask
  <2> SUFFICES ASSUME TypeInv, IndInv, pc = "running" PROVE RunsLiveTask
    BY DEF RunsLiveTask
  <2>1. /\ running = cur /\ cur \in all /\ top[cur] # "null"
        /\ cur \notin Listed /\ ~Pushing(cur)
    BY DEF IndInv, LoopInv
  <2>2. cur \in Tasks /\ refc[cur] \in Nat /\ held[cur] \in {0, 1}
    BY <2>1 DEF TypeInv, TypeOK
  <2>3. refc[cur] > 0
    BY <2>1, <2>2 DEF TypeInv, RefcInv
  <2> QED BY <2>1, <2>3 DEF RunsLiveTask
<1> QED BY <1>1, TypeCorrect, SchedulerInvariant, PTL

(* Under disciplined use no Ready task is stranded: one that is in no list   *)
(* is in the hands of the loop or of the thread that is about to push it.    *)
THEOREM ReadyTasksAreFound ==
    ASSUME Disciplined
    PROVE  Spec => []NoStrandedReady
BY SchedulerSafety, PTL

(* Under disciplined use on_task_exit always finds the task it removes, so   *)
(* the queue never reaches its abort().                                      *)
THEOREM ExitFindsTheTask ==
    ASSUME Disciplined
    PROVE  Spec => []NeverAborts
BY SchedulerSafety, PTL

(***************************************************************************)
(* TaskQueue implements TaskLife for every set of tasks and threads.       *)
(***************************************************************************)

(* The refinement mapping of the variable of TaskLife.                       *)
phases == [t \in Tasks |-> Phase(t)]

(* A step after which only the phase of t differs is a Move of TaskLife.     *)
LEMMA MovesOne ==
    ASSUME NEW t \in Tasks, NEW from, NEW to,
           Phase(t) = from, Phase(t)' = to,
           \A u \in Tasks \ {t} : Phase(u)' = Phase(u)
    PROVE  Life!Move(t, from, to)
<1>1. phases' = [phases EXCEPT ![t] = to]
  BY DEF phases
<1> QED BY <1>1 DEF Life!Move, phases

(* Between two runs of a task, nothing executes and nothing is ending.       *)
LEMMA Nobody ==
    ASSUME TypeInv, IndInv, pc \notin {"running", "store", "exit_cb"}
    PROVE  Life!NobodyExecutes
BY DEF TypeInv, TypeOK, IndInv, TaskInv, Life!NobodyExecutes, Phase

(* Every step of the scheduler moves one task from one phase to another as   *)
(* TaskLife allows, shuts the queue down, or changes no phase.               *)
LEMMA LifeStep ==
    ASSUME Disciplined, TypeInv, IndInv, [Next]_vars
    PROVE  [Life!LifeNext]_phases
<1>a. pc \notin {"running", "store", "exit_cb"} => Life!NobodyExecutes
  BY Nobody
<1>b. pc \in {"running", "store", "exit_cb", "ypoll", "ysched"} => cur \in Tasks /\ cur \in all
  BY DEF TypeInv, PointersInv, IndInv, LoopInv
<1> USE TaskAssumption, UsageAssumption
<1> USE DEF loopVars, queueVars, taskVars, Disciplined, TypeInv, TypeOK, PointersInv,
            IndInv, ReadyListSound, NoStrandedReady, CancelledClean,
            LoopInv, ThreadInv, TaskInv, Engaged, Pushing, UserCode, InBody, Callback
<1>0. SUFFICES \/ Life!LifeNext
               \/ \A t \in Tasks : Phase(t)' = Phase(t)
  BY DEF phases
<1>1. CASE OuterCheck
  BY <1>1 DEF OuterCheck, Phase
<1>2. CASE PollDone
  BY <1>2 DEF PollDone, Phase
<1>3. CASE Suspend
  BY <1>3 DEF Suspend, Return, InBody, Phase
<1>4. CASE Yield
  BY <1>4 DEF Yield, Return, InBody, Phase
<1>5. CASE Run
  BY <1>5 DEF Run, Phase
<1>6. ASSUME NEW t \in Tasks, TaskCreateAttached(t)
      PROVE  \A u \in Tasks : Phase(u)' = Phase(u)
  BY <1>6 DEF TaskCreateAttached, Phase
<1>7. ASSUME NEW t \in Tasks, DropHandle(t)
      PROVE  \A u \in Tasks : Phase(u)' = Phase(u)
  BY <1>7 DEF DropHandle, Phase
<1>8. ASSUME NEW h \in Threads, ThreadRestore(h)
      PROVE  \A u \in Tasks : Phase(u)' = Phase(u)
  BY <1>8 DEF ThreadRestore, Phase
<1>9. ASSUME NEW h \in Threads, ThreadPush(h)
      PROVE  \A u \in Tasks : Phase(u)' = Phase(u)
  BY <1>9 DEF ThreadPush, Phase
<1>10. ASSUME NEW h \in Threads, NEW t \in Tasks, ThreadResume(h, t)
      PROVE  \A u \in Tasks : Phase(u)' = Phase(u)
  BY <1>10 DEF ThreadResume, Phase
<1>11. CASE PopReady
  <2>1. CASE ready = <<>>
    BY <1>11, <2>1 DEF PopReady, Phase
  <2>2. CASE ready # <<>>
    <3>1. PICK t \in Tasks : t = Head(ready) /\ t \in Listed
      BY <2>2, PopFacts DEF Listed
    <3>2. cur' = t /\ pc' = "running" /\ UNCHANGED <<all, state, top>>
      BY <1>11, <2>2, <3>1 DEF PopReady, Enter
    <3>3. CASE top[t] = "frame"
      <4>1. Phase(t) = "scheduled" /\ Phase(t)' = "executing"
        BY <1>11, <3>1, <3>2, <3>3 DEF PopReady, Phase
      <4>2. \A u \in Tasks \ {t} : Phase(u)' = Phase(u)
        BY <1>11, <3>2 DEF PopReady, Phase
      <4>3. Life!NobodyExecutes
        BY <1>11, <1>a DEF PopReady
      <4> QED BY <3>1, <4>1, <4>2, <4>3, MovesOne DEF Life!LifeNext, Life!Begin
    <3>4. CASE top[t] # "frame"
      BY <1>11, <3>1, <3>2, <3>4 DEF PopReady, Phase
    <3> QED BY <3>3, <3>4
  <2> QED BY <2>1, <2>2
<1>12. CASE Complete
  <2>1. PICK t \in Tasks : t = cur
    BY <1>b, <1>12 DEF Complete
  <2>2. Phase(t) = "executing" /\ Phase(t)' = "ending"
    BY <1>12, <2>1 DEF Complete, Exited, Return, Phase
  <2>3. \A u \in Tasks \ {t} : Phase(u)' = Phase(u)
    BY <1>12, <2>1 DEF Complete, Exited, Return, Phase
  <2> QED BY <2>2, <2>3, MovesOne DEF Life!LifeNext, Life!Finish
<1>13. ASSUME NEW e \in {"error", "exit"}, Raise(e)
      PROVE  Life!LifeNext \/ \A u \in Tasks : Phase(u)' = Phase(u)
  <2>1. PICK t \in Tasks : t = cur
    BY <1>b, <1>13 DEF Raise
  <2>2. Phase(t) = "executing" /\ Phase(t)' = "ending"
    BY <1>13, <2>1 DEF Raise, Exited, Return, Phase
  <2>3. \A u \in Tasks \ {t} : Phase(u)' = Phase(u)
    BY <1>13, <2>1 DEF Raise, Exited, Return, Phase
  <2> QED BY <2>2, <2>3, MovesOne DEF Life!LifeNext, Life!Finish
<1>14. CASE RunCancelled
  <2>1. PICK t \in Tasks : t = cur
    BY <1>b, <1>14 DEF RunCancelled
  <2>2. Phase(t) = "doomed" /\ Phase(t)' = "ending"
    BY <1>14, <2>1 DEF RunCancelled, Exited, Return, Phase
  <2>3. \A u \in Tasks \ {t} : Phase(u)' = Phase(u)
    BY <1>14, <2>1 DEF RunCancelled, Exited, Return, Phase
  <2>4. Life!NobodyExecutes
    BY <1>14, <2>1, <2>2 DEF RunCancelled, Phase, Life!NobodyExecutes
  <2> QED BY <2>2, <2>3, <2>4, MovesOne DEF Life!LifeNext, Life!FinishDoomed
<1>15. CASE Store
  <2>1. PICK t \in Tasks : t = cur /\ t \in all
    BY <1>b, <1>15 DEF Store
  <2>2. \A u \in Tasks \ {t} : Phase(u)' = Phase(u)
    BY <1>15, <2>1 DEF Store, Phase
  <2>3. CASE res = "Exited"
    BY <1>15, <2>1, <2>2, <2>3 DEF Store, Phase
  <2>4. CASE res = "Yield"
    <3>1. Phase(t) = "executing" /\ Phase(t)' = "scheduled"
      BY <1>15, <2>1, <2>4 DEF Store, Phase
    <3> QED BY <2>2, <3>1, MovesOne DEF Life!LifeNext, Life!Requeue
  <2>5. CASE res = "Suspended"
    <3>1. Phase(t) = "executing" /\ Phase(t)' = "waiting"
      BY <1>15, <2>1, <2>5 DEF Store, Phase
    <3> QED BY <2>2, <3>1, MovesOne DEF Life!LifeNext, Life!Block
  <2> QED BY <1>15, <2>3, <2>4, <2>5 DEF Store, States
<1>16. CASE OnTaskExit
  <2>1. PICK t \in Tasks : t = cur /\ t \in all
    BY <1>b, <1>16 DEF OnTaskExit
  <2>2. Phase(t) = "ending" /\ Phase(t)' = "idle"
    BY <1>16, <2>1 DEF OnTaskExit, Pop, Phase
  <2>3. \A u \in Tasks \ {t} : Phase(u)' = Phase(u)
    BY <1>16, <2>1 DEF OnTaskExit, Pop, Phase
  <2> QED BY <2>2, <2>3, MovesOne DEF Life!LifeNext, Life!Release
<1>17. CASE ExitAfterRun
  <2>1. Life!NobodyExecutes
    BY <1>17, <1>a DEF ExitAfterRun
  <2>2. phases' = [t \in Tasks |-> "idle"]
    BY <1>17 DEF ExitAfterRun, ExitQueue, Phase, phases
  <2> QED BY <2>1, <2>2 DEF Life!LifeNext, Life!Shutdown, phases
<1>18. CASE LoopExit
  <2>1. Life!NobodyExecutes
    BY <1>18, <1>a DEF LoopExit
  <2>2. phases' = [t \in Tasks |-> "idle"]
    BY <1>18 DEF LoopExit, ExitQueue, Phase, phases
  <2> QED BY <2>1, <2>2 DEF Life!LifeNext, Life!Shutdown, phases
<1>19. CASE YieldPop
  <2>1. CASE ready = <<>>
    <3>1. PICK t \in Tasks : t = cur /\ t \in all /\ state[t] = "Yield"
      <4>1. Listed = {}
        BY <2>1 DEF Listed, Range
      <4> QED BY <1>19, <1>b, <4>1 DEF YieldPop
    <3>2. Phase(t) = "scheduled" /\ Phase(t)' = "executing"
      BY <1>19, <2>1, <3>1 DEF YieldPop, Enter, Phase
    <3>3. \A u \in Tasks \ {t} : Phase(u)' = Phase(u)
      BY <1>19, <2>1, <3>1 DEF YieldPop, Enter, Phase
    <3>4. Life!NobodyExecutes
      BY <1>19, <1>a DEF YieldPop
    <3> QED BY <3>2, <3>3, <3>4, MovesOne DEF Life!LifeNext, Life!Begin
  <2>2. CASE ready # <<>>
    BY <1>19, <2>2 DEF YieldPop, Phase
  <2> QED BY <2>1, <2>2
<1>20. CASE YieldSchedule
  <2>1. PICK t \in Tasks : t = next /\ t \in all /\ cur \in Tasks /\ cur \in all
    BY <1>b, <1>20 DEF YieldSchedule
  <2>2. /\ cur' = t /\ pc' = "running" /\ UNCHANGED <<all, top>>
        /\ state' = [state EXCEPT ![cur] = "Ready"] \/ state' = state
    BY <1>20, <2>1 DEF YieldSchedule, Enter, Schedule
  <2>3. \A u \in Tasks \ {t} : Phase(u)' = Phase(u)
    BY <1>20, <2>1, <2>2 DEF YieldSchedule, Phase
  <2>4. CASE top[t] = "frame"
    <3>1. Phase(t) = "scheduled" /\ Phase(t)' = "executing"
      BY <1>20, <2>1, <2>2, <2>4 DEF YieldSchedule, Phase
    <3>2. Life!NobodyExecutes
      BY <1>20, <1>a DEF YieldSchedule
    <3> QED BY <2>3, <3>1, <3>2, MovesOne DEF Life!LifeNext, Life!Begin
  <2>5. CASE top[t] # "frame"
    BY <1>20, <2>1, <2>2, <2>3, <2>5 DEF YieldSchedule, Phase
  <2> QED BY <2>4, <2>5
<1>21. ASSUME NEW t \in Tasks, TaskNew(t)
      PROVE  Life!LifeNext \/ \A u \in Tasks : Phase(u)' = Phase(u)
  <2>1. t \notin all
    <3>1. refc[t] = 0 /\ held[t] \in {0, 1}
      BY <1>21 DEF TaskNew
    <3> QED BY <3>1 DEF RefcInv
  <2>2. Phase(t) = "idle" /\ Phase(t)' = "scheduled"
    BY <1>21, <2>1 DEF TaskNew, Spawn, Phase
  <2>3. \A u \in Tasks \ {t} : Phase(u)' = Phase(u)
    BY <1>21 DEF TaskNew, Spawn, Phase
  <2> QED BY <2>2, <2>3, MovesOne DEF Life!LifeNext, Life!Start
<1>22. ASSUME NEW t \in Tasks, TaskCreate(t)
      PROVE  Life!LifeNext \/ \A u \in Tasks : Phase(u)' = Phase(u)
  <2>1. Phase(t) = "idle" /\ Phase(t)' = "scheduled"
    BY <1>22 DEF TaskCreate, Spawn, Phase
  <2>2. \A u \in Tasks \ {t} : Phase(u)' = Phase(u)
    BY <1>22 DEF TaskCreate, Spawn, Phase
  <2> QED BY <2>1, <2>2, MovesOne DEF Life!LifeNext, Life!Start
<1>23. ASSUME NEW t \in Tasks, NEW e \in {"none", "error"}, ResumeTask(t, e)
      PROVE  Life!LifeNext \/ \A u \in Tasks : Phase(u)' = Phase(u)
  <2>1. CASE state[t] = "Suspended"
    <3>1. /\ state' = [state EXCEPT ![t] = "Ready"]
          /\ t \in all /\ UNCHANGED <<loopVars, all, top>>
      BY <1>23, <2>1 DEF ResumeTask, Schedule, Schedulable
    <3>2. top[t] = "frame" /\ ~(pc = "running" /\ t = cur)
      BY <1>23, <2>1, <3>1 DEF ResumeTask
    <3>3. Phase(t) = "waiting" /\ Phase(t)' = "scheduled"
      BY <1>23, <2>1, <3>1, <3>2 DEF ResumeTask, Phase
    <3>4. \A u \in Tasks \ {t} : Phase(u)' = Phase(u)
      BY <3>1 DEF Phase
    <3> QED BY <3>3, <3>4, MovesOne DEF Life!LifeNext, Life!Wake
  <2>2. CASE state[t] # "Suspended"
    <3>1. /\ state' = [state EXCEPT ![t] = "Ready"] \/ state' = state
          /\ UNCHANGED <<loopVars, all, top>>
      BY <1>23 DEF ResumeTask, Schedule
    <3> QED BY <2>2, <3>1 DEF Phase
  <2> QED BY <2>1, <2>2
<1>24. ASSUME NEW t \in Tasks, CancelTask(t)
      PROVE  Life!LifeNext \/ \A u \in Tasks : Phase(u)' = Phase(u)
  <2>1. /\ top' = [top EXCEPT ![t] = Unwound(t)] /\ UNCHANGED loopVars
        /\ t \in all /\ t # running /\ top[t] # "null" /\ Unwound(t) = "self"
    BY <1>24 DEF CancelTask, Cancel, Unwound
  <2>2. CASE state[t] = "Ready" /\ top[t] = "frame"
    <3>1. UNCHANGED <<state, all>>
      BY <1>24, <2>2 DEF CancelTask, Cancel
    <3>2. Phase(t) = "scheduled" /\ Phase(t)' = "doomed"
      BY <1>24, <2>1, <2>2, <3>1 DEF CancelTask, Phase
    <3>3. \A u \in Tasks \ {t} : Phase(u)' = Phase(u)
      BY <2>1, <3>1 DEF Phase
    <3> QED BY <3>2, <3>3, MovesOne DEF Life!LifeNext, Life!Doom
  <2>3. CASE state[t] = "Ready" /\ top[t] = "self"
    <3>1. UNCHANGED <<state, all>>
      BY <1>24, <2>3 DEF CancelTask, Cancel
    <3> QED BY <2>1, <2>3, <3>1 DEF Phase
  <2>4. CASE state[t] # "Ready"
    <3>1. state[t] = "Suspended" /\ top[t] = "frame" /\ ~(pc = "running" /\ t = cur)
      BY <1>24, <2>1, <2>4 DEF CancelTask, States
    <3>2. all' = all \ {t} /\ state' = [state EXCEPT ![t] = "Exited"]
      BY <1>24, <2>4 DEF CancelTask, Cancel, Pop
    <3>3. Phase(t) = "waiting" /\ Phase(t)' = "idle"
      BY <1>24, <2>1, <3>1, <3>2 DEF CancelTask, Phase
    <3>4. \A u \in Tasks \ {t} : Phase(u)' = Phase(u)
      BY <2>1, <3>2 DEF Phase
    <3> QED BY <3>3, <3>4, MovesOne DEF Life!LifeNext, Life!Abandon
  <2> QED BY <2>1, <2>2, <2>3, <2>4
<1>25. ASSUME NEW h \in Threads, ThreadExchange(h)
      PROVE  Life!LifeNext \/ \A u \in Tasks : Phase(u)' = Phase(u)
  <2>1. PICK t \in Tasks :
          /\ t = thr[h].task /\ t \notin Yielders /\ held[t] = 1
          /\ state' = [state EXCEPT ![t] = "Ready"] /\ UNCHANGED <<loopVars, all, top>>
    BY <1>25 DEF ThreadExchange
  <2>2. \A u \in Tasks \ {t} : Phase(u)' = Phase(u)
    BY <2>1 DEF Phase
  <2>3. CASE state[t] = "Suspended"
    <3>1. t \in all /\ top[t] = "frame" /\ ~(pc \in {"running", "store"} /\ t = cur)
      <4>1. t \in all
        BY <2>1, <2>3
      <4>2. top[t] = "frame"
        BY <2>1, <2>3
      <4>3. ~(pc \in {"running", "store"} /\ t = cur)
        BY <2>1, <2>3
      <4> QED BY <4>1, <4>2, <4>3
    <3>2. Phase(t) = "waiting" /\ Phase(t)' = "scheduled"
      BY <2>1, <2>3, <3>1 DEF Phase
    <3> QED BY <2>2, <3>2, MovesOne DEF Life!LifeNext, Life!Wake
  <2>4. CASE state[t] # "Suspended"
    BY <2>1, <2>2, <2>4 DEF Phase
  <2> QED BY <2>3, <2>4
<1>26. CASE UNCHANGED vars
  BY <1>26 DEF vars, Phase
<1> QED BY <1>1, <1>2, <1>3, <1>4, <1>5, <1>6, <1>7, <1>8, <1>9, <1>10, <1>11, <1>12, <1>13, <1>14, <1>15, <1>16, <1>17, <1>18, <1>19, <1>20, <1>21, <1>22, <1>23, <1>24, <1>25, <1>26 DEF Next, LoopStep, UserStep, ThreadStep, Spawned, Resumed, ThreadResumed

(* Under disciplined use the scheduler implements the life cycle of TaskLife:*)
(* one task executes at a time, only when scheduled, and a task cancelled    *)
(* while scheduled is dequeued without its coroutine being entered.          *)
THEOREM Refinement ==
    ASSUME Disciplined
    PROVE  Spec => LifeCycle
<1>1. Init => Life!LifeInit
  BY DEF Init, Life!LifeInit, Phase
<1>2. TypeInv /\ IndInv /\ [Next]_vars => [Life!LifeNext]_phases
  BY LifeStep
<1> QED BY <1>1, <1>2, TypeCorrect, SchedulerInvariant, PTL DEF Spec, LifeCycle, Life!LifeSpec, phases

=============================================================================
