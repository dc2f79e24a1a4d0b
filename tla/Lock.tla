-------------------------------- MODULE Lock --------------------------------
(* The lock of include/jinx/lock.hpp: lock::Lock, taken by threads with      *)
(* lock() and by tasks with the awaitable AsyncLock, on top of the loop.     *)
(*                                                                           *)
(* The critical sections of Lock::_mutex are single steps, except that of    *)
(* unlock(): it wakes a waiter before it removes the waiter from the list,   *)
(* and the waiter may run in between.  Of the scheduler the model keeps what *)
(* decides over a wake-up: a resume counts only for a task whose _state is   *)
(* Suspended, and the loop stores Suspended after async_poll has returned    *)
(* and let go of _mutex.                                                     *)
EXTENDS Naturals, Sequences, FiniteSets, Functions, SequencesExt

CONSTANTS
    Tasks,        \* tasks of the loop, each with an AsyncLock
    Threads,      \* other threads
    Nobody,       \* no user; in the list: memory that is no node any more
    CancelWoken   \* TRUE: a task may be cancelled after unlock() has woken it
                  \* and before it runs

VARIABLES
    count,    \* Lock::_lock: the holder and the waiters
    pending,  \* Lock::_pending_aws, the front first
    mutex,    \* who holds Lock::_mutex across steps: an unlock() in progress
    phase,    \* of each user: "out", "waiting" in lock() or AsyncLock, "inside"
    woken,    \* wake() has been called on the waiting user
    ready,    \* TaskQueue::_tasks_ready; these tasks' _state is Ready
    running,  \* the task the loop runs; its _state is Ready
    loop      \* where the loop is: "pop", in a "body", "leave" (async_poll has
              \* returned Suspended, the loop has not stored it), in a "poll"

lockVars == <<count, pending, mutex>>
loopVars == <<ready, running, loop>>
vars == <<lockVars, phase, woken, loopVars>>

Users == Tasks \cup Threads

(* A user is a task or a thread, and there are finitely many.                *)
UsersApart == /\ Tasks \cap Threads = {} /\ Nobody \notin Users
              /\ IsFiniteSet(Users)

TypeOK ==
    /\ count \in 0 .. Cardinality(Users)
    /\ pending \in Seq(Users \cup {Nobody})
    /\ mutex \in Users \cup {Nobody}
    /\ phase \in [Users -> {"out", "waiting", "inside"}]
    /\ woken \subseteq Users
    /\ ready \in Seq(Tasks)
    /\ running \in Tasks \cup {Nobody}
    /\ loop \in {"pop", "body", "leave", "poll"}

Init ==
    /\ count = 0
    /\ pending = <<>>
    /\ mutex = Nobody
    /\ phase = [u \in Users |-> "out"]
    /\ woken = {}
    /\ ready = <<>>
    /\ running = Nobody
    /\ loop = "pop"

-----------------------------------------------------------------------------
(* The loop.                                                                 *)

InBody(t) == loop = "body" /\ running = t
UserCode == loop = "poll" \/ (loop = "body" /\ mutex # running)

(* Task::resume: a task that is Ready already, listed or running, stays so.  *)
Resume(t) ==
    ready' = IF t = running \/ Contains(ready, t) THEN ready ELSE <<t>> \o ready

RunTask ==
    /\ loop = "pop"
    /\ IF ready = <<>>
       THEN /\ loop' = "poll"
            /\ UNCHANGED <<ready, running>>
       ELSE /\ loop' = "body"
            /\ running' = Head(ready)
            /\ ready' = Tail(ready)
    /\ UNCHANGED <<lockVars, phase, woken>>

(* The body waits for an event outside AsyncLock or inside its section, ...  *)
SuspendBody(t) ==
    /\ InBody(t)
    /\ phase[t] # "waiting"
    /\ mutex # t
    /\ loop' = "leave"
    /\ UNCHANGED <<lockVars, phase, woken, ready, running>>

(* ... the loop stores Suspended, ...                                        *)
StoreSuspended ==
    /\ loop = "leave"
    /\ loop' = "pop"
    /\ running' = Nobody
    /\ UNCHANGED <<lockVars, phase, woken, ready>>

(* ... and a callback of the event engine resumes the task.                  *)
EventResume(t) ==
    /\ loop = "poll"
    /\ phase[t] # "waiting"
    /\ Resume(t)
    /\ UNCHANGED <<lockVars, phase, woken, running, loop>>

PollDone ==
    /\ loop = "poll"
    /\ loop' = "pop"
    /\ UNCHANGED <<lockVars, phase, woken, ready, running>>

-----------------------------------------------------------------------------
(* The lock.  Nothing more is said once the list is destroyed.               *)

ListIntact == ~Contains(pending, Nobody)

(* front() of an empty list is the sentinel, which is no waiter.             *)
PendingFront == IF pending = <<>> THEN Nobody ELSE Head(pending)
PopFront == IF pending = <<>> THEN <<>> ELSE Tail(pending)

(* lock() and AsyncLock::try_lock: the first one gets the lock, the others   *)
(* wait at the front of the list.                                            *)
Acquire(u) ==
    /\ ListIntact
    /\ mutex = Nobody
    /\ phase[u] = "out"
    /\ count' = count + 1
    /\ IF count = 0
       THEN /\ phase' = [phase EXCEPT ![u] = "inside"]
            /\ UNCHANGED pending
       ELSE /\ phase' = [phase EXCEPT ![u] = "waiting"]
            /\ pending' = <<u>> \o pending
    /\ UNCHANGED <<mutex, woken>>

TryLock(t) ==
    /\ InBody(t)
    /\ Acquire(t)
    /\ loop' = IF count = 0 THEN "body" ELSE "leave"
    /\ UNCHANGED <<ready, running>>

ThreadLock(h) ==
    /\ Acquire(h)
    /\ UNCHANGED loopVars

(* A mistaken locked() that does not reset _lock: async_finalize gives the   *)
(* lock back as the awaitable returns.                                       *)
LockedNoReset(t) ==
    /\ InBody(t)
    /\ phase[t] = "waiting"
    /\ phase' = [phase EXCEPT ![t] = "inside"]
    /\ woken' = woken \ {t}
    /\ count' = count - 1
    /\ UNCHANGED <<pending, mutex, loopVars>>

(* AsyncLock::locked, run when the task is resumed.                          *)
Locked(t) ==
    /\ InBody(t)
    /\ phase[t] = "waiting"
    /\ phase' = [phase EXCEPT ![t] = "inside"]
    /\ woken' = woken \ {t}
    /\ UNCHANGED <<lockVars, loopVars>>

(* ThreadWake::sleep returns; the node on the thread's stack is gone.        *)
ThreadLocked(h) ==
    /\ phase[h] = "waiting"
    /\ h \in woken
    /\ phase' = [phase EXCEPT ![h] = "inside"]
    /\ woken' = woken \ {h}
    /\ UNCHANGED <<lockVars, loopVars>>

(* unlock() up to the wake(): of a thread, or of a task by async_resume().   *)
Unlock(u) ==
    /\ ListIntact
    /\ mutex = Nobody
    /\ phase[u] = "inside"
    /\ u \in Tasks => InBody(u)
    /\ count' = count - 1
    /\ IF count = 1
       THEN /\ phase' = [phase EXCEPT ![u] = "out"]
            /\ UNCHANGED <<mutex, woken, ready>>
       ELSE /\ mutex' = u
            /\ woken' = woken \cup {PendingFront}
            /\ IF PendingFront \in Tasks THEN Resume(PendingFront) ELSE UNCHANGED ready
            /\ UNCHANGED phase
    /\ UNCHANGED <<pending, running, loop>>

(* The rest of unlock(): pop_front().  When the woken thread has returned    *)
(* from lock() already, pop_front reads a dead stack object: it finds the    *)
(* old pointers there, or anything.                                          *)
UnlockPop(u) ==
    /\ mutex = u
    /\ mutex' = Nobody
    /\ \/ pending' = PopFront
       \/ /\ PendingFront \in Threads
          /\ phase[PendingFront] # "waiting"
          /\ pending' = <<Nobody>>
    /\ phase' = [phase EXCEPT ![u] = "out"]
    /\ UNCHANGED <<count, woken, loopVars>>

(* A task that waits in AsyncLock is cancelled by another task's body or a   *)
(* callback: AsyncLock::async_finalize.  A listed task is dequeued without   *)
(* running user code.  The task object may be started again.                 *)
Cancel(t) ==
    /\ phase[t] = "waiting"
    /\ t # running
    /\ ListIntact
    /\ mutex = Nobody
    /\ UserCode
    /\ t \in woken => CancelWoken
    /\ count' = count - 1
    /\ pending' = RemoveFirst(pending, t)
    /\ phase' = [phase EXCEPT ![t] = "out"]
    /\ woken' = woken \ {t}
    /\ ready' = RemoveFirst(ready, t)
    /\ UNCHANGED <<mutex, running, loop>>

-----------------------------------------------------------------------------
(* A section is entered.                                                     *)
Enter == \E u \in Users : phase[u] # "inside" /\ phase'[u] = "inside"

LoopStep == RunTask \/ StoreSuspended \/ PollDone \/ \E t \in Tasks : Locked(t)
Next ==
    \/ LoopStep
    \/ \E t \in Tasks : SuspendBody(t) \/ EventResume(t) \/ TryLock(t) \/ Cancel(t)
    \/ \E h \in Threads : ThreadLock(h) \/ ThreadLocked(h)
    \/ \E u \in Users : Unlock(u) \/ UnlockPop(u)

Spec == Init /\ [][Next]_vars

(* The loop and the threads run; a body returns to the loop; whoever is      *)
(* inside is resumed by its event and unlocks.  Nobody has to lock.          *)
Fairness ==
    /\ WF_vars(LoopStep)
    /\ \A t \in Tasks : WF_vars(SuspendBody(t) /\ phase[t] = "out")
    /\ \A t \in Tasks : SF_vars(EventResume(t) /\ phase[t] = "inside")
    /\ \A h \in Threads : WF_vars(ThreadLocked(h))
    /\ \A u \in Users : SF_vars(Unlock(u)) /\ WF_vars(UnlockPop(u))

FairSpec == Spec /\ Fairness

-----------------------------------------------------------------------------
Inside == {u \in Users : phase[u] = "inside"}
Granted == {u \in Users : phase[u] = "waiting" /\ u \in woken}

(* Who owns the lock: it is inside, or unlock() has passed the lock on to it.*)
Owners == (Inside \ {mutex}) \cup Granted

(* At most one user owns the lock, be it inside or woken and about to enter. *)
MutualExclusion == Cardinality(Owners) <= 1

(* The counter is exactly the owner and those that wait for the lock: it can *)
(* neither stay above zero on a free lock nor reach zero under a waiter.     *)
CountExact ==
    ListIntact =>
        count = Cardinality(Owners) + Cardinality(Range(pending) \ (woken \cup Inside))

(* Whoever waits can count on an unlock(): while the list is not empty the   *)
(* lock belongs to a user that is inside or has been woken.  The comment in  *)
(* AsyncLock::async_finalize, "suspended / unlock but not resume", relies on *)
(* it: the user that is finalized is taken to own nothing.                   *)
WaitersHaveOwner == pending # <<>> => Owners # {}

(* The lock makes progress: while users wait, sections go on being entered.  *)
LockProgress ==
    []<>(\E u \in Users : phase[u] = "waiting") => []<><<Enter>>_vars

(* A task was woken before the loop had stored Suspended: it owns the lock   *)
(* and nothing will run it.                                                  *)
WakeLost == \E t \in Granted \cap Tasks : t # running /\ ~Contains(ready, t)

(* Only two races stop the lock from making progress, whoever cancels and    *)
(* in whatever order threads and tasks lock: that of a thread's unlock()     *)
(* with the loop's store, and that of a woken thread with pop_front.         *)
ProgressUnlessRaced == [](ListIntact /\ ~WakeLost) => LockProgress
=============================================================================
