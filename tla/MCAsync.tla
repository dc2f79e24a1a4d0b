------------------------------ MODULE MCAsync -------------------------------
(* What tasks are made of and meet at, side by side: the call stack of a     *)
(* task, the lock, the two queues, Wait and AsyncJoin. A behaviour is one of *)
(* one part, chosen in the initial state; the variables of the other parts   *)
(* do not change.                                                            *)
EXTENDS CallStack

CONSTANTS
    Tasks, Threads, Nobody, CancelWoken,                    \* Lock
    Getters, Putters, Values, NoValue, MaxSize, Resets,     \* Queue and Queue2
    Branches, Conditions,                                   \* Wait
    Targets, Observers, NoTarget                            \* Join

VARIABLES
    part,
    count, pending, mutex, stage, woken, ready, running, loop,
    items, pendGet, pendPut, getHead, putHead, phase, value, flying,
    v, j

L == INSTANCE Lock WITH phase <- stage
Q == INSTANCE Queue2    \* with Queue, which it extends
W == INSTANCE Wait
J == INSTANCE Join

(* A user of the lock is a task or a thread, an awaitable of the queues is a *)
(* Get or a Put, and there are finitely many of all.                         *)
ASSUME AsyncAssumption == L!UsersApart /\ Q!QueueUse

lockVars == <<count, pending, mutex, stage, woken, ready, running, loop>>
queueVars == <<items, pendGet, pendPut, getHead, putHead, phase, value, flying>>

Parts == {"stack", "lock", "queue", "queue2", "wait", "join"}

MCInit == /\ part \in Parts
          /\ Init /\ L!Init /\ Q!Init /\ J!Init
          /\ W!Init /\ (part # "wait" => v.cond = "AllCompleted")

MCNext ==
    \/ part = "stack" /\ Next /\ UNCHANGED <<part, lockVars, queueVars, v, j>>
    \/ part = "lock" /\ L!Next /\ UNCHANGED <<part, vars, queueVars, v, j>>
    \/ part = "queue" /\ Q!Next /\ UNCHANGED <<part, vars, lockVars, v, j>>
    \/ part = "queue2" /\ Q!Next2 /\ UNCHANGED <<part, vars, lockVars, v, j>>
    \/ part = "wait" /\ W!Next /\ UNCHANGED <<part, vars, lockVars, queueVars, j>>
    \/ part = "join" /\ J!Next /\ UNCHANGED <<part, vars, lockVars, queueVars, v>>

MCSpec == MCInit /\ [][MCNext]_<<part, vars, lockVars, queueVars, v, j>>

(* Lock: at most one user owns the lock, be it inside or woken and about to  *)
(* enter; the counter is exactly the owner and the waiters; whoever waits    *)
(* can count on an unlock (Lock::lock, unlock, AsyncLock::async_finalize).   *)
LockSound == L!MutualExclusion /\ L!CountExact /\ L!WaitersHaveOwner

(* Queues: no value is lost or repeated, the lists hold exactly those that   *)
(* wait, the limit holds, and in a Queue nobody waits for what is there.     *)
QueuesSound == /\ Q!FlyingExact /\ Q!ListsExact /\ Q!WithinLimit
               /\ part = "queue" => Q!NoMissedMatch

(* Queue2: left to its Gets and Puts it takes the steps of Queue, and a Put  *)
(* leaves no Get waiting (Queue2::get, Queue2::put).                         *)
Queue2ActsAsQueue == Q!ActsAsQueue

(* Wait: every branch is on the way or completed until it is handed over or  *)
(* dropped; a parent that sleeps in its Wait has a branch that will wake it  *)
(* and none that could run; a Wait that returns has kept its condition.      *)
WaitSound == W!BranchesAccounted /\ W!WaitKeepsPromise

(* Join: the first join of an AsyncJoin waits for its target, and the hook   *)
(* it leaves in the target keeps the observer in memory.                     *)
FirstJoinWaits == J!FirstJoinWaits

(* Join: when a join returns the task it joined has run, as                  *)
(* test_async_join.cpp asserts.                                              *)
JoinWaits == J!JoinWaits

(* Nobody waits for ever, under the fairness of its part. Lock: sections go  *)
(* on being entered while users wait, unless one of two races has hit.       *)
(* Queue: a waiting Put is completed once no new one is called. Wait: a Wait *)
(* returns. Join: an observer is resumed when its target ends.               *)
WaitersProceed ==
    /\ part = "lock" /\ L!Fairness => L!ProgressUnlessRaced
    /\ part = "queue" /\ Q!Fairness => Q!PutServed
    /\ part = "wait" /\ W!Fairness => W!WaitEnds
    /\ part = "join" /\ J!Fairness => J!ObserversResume
=============================================================================
