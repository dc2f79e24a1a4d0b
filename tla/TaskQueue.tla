----------------------------- MODULE TaskQueue -----------------------------
(* The scheduler of jinx: TaskQueue and Loop (include/jinx/async/task.hpp)   *)
(* with Task::resume (src/async.cpp) and Awaitable::async_cancel             *)
(* (include/jinx/async/awaitable.ipp).                                       *)
(*                                                                           *)
(* One loop thread executes Loop::run; other threads may call Task::resume.  *)
(* A step of the loop thread ends where another thread may observe it or     *)
(* where user code (a coroutine body, an event callback, the main program)   *)
(* is entered.  What a coroutine body computes is abstracted to the calls it *)
(* makes on the queue and the ControlState its Task::run returns.            *)
EXTENDS Naturals, Sequences, FiniteSets, Functions

CONSTANTS
    Tasks,            \* Task objects
    Threads,          \* threads other than the loop thread
    NoTask,           \* nullptr
    Yielders,         \* tasks whose body may end a poll with async_yield()
    SelfResumers,     \* tasks that resume themselves while they run
                      \* (emplace_result -> async_resume on one's own task)
    CallbackTargets,  \* tasks that event callbacks cancel
    ThreadTargets,    \* tasks that other threads resume
    Respawned,        \* tasks passed to task_create again while attached
    MaxRefc,          \* bound on the references TaskCreateAttached leaks
    ExitFrom          \* where the loop is exited from: "task" (a body throws
                      \* ErrorAwaitable::ExitLoop), "callback" or "main"
                      \* (Loop::exit())

ASSUME TaskAssumption == NoTask \notin Tasks
ASSUME UsageAssumption ==
    /\ Yielders \subseteq Tasks
    /\ SelfResumers \subseteq Tasks
    /\ CallbackTargets \subseteq Tasks
    /\ ThreadTargets \subseteq Tasks
    /\ Respawned \subseteq Tasks
    /\ MaxRefc \in Nat
    /\ ExitFrom \subseteq {"task", "callback", "main"}

(* The usage of the queue under which it keeps its lists intact.  Each part  *)
(* excludes a combination of calls that the code accepts and mishandles: a   *)
(* task that yields and is resumed or cancelled meanwhile, exit() inside the *)
(* poll of a yield, and a Task::resume on another thread during exit().      *)
Disciplined ==
    /\ Yielders \cap (SelfResumers \cup CallbackTargets \cup ThreadTargets) = {}
    /\ "callback" \in ExitFrom => Yielders = {}
    /\ ExitFrom # {} => ThreadTargets = {}

VARIABLES
    pc,       \* where the loop thread is, see PCs
    cur,      \* local `task` of TaskQueue::run
    next,     \* local `next` of the yield branch of TaskQueue::run
    running,  \* TaskQueue::_running_task
    res,      \* local `state` of TaskQueue::run: what Task::run returned
    all,      \* TaskQueue::_tasks_all; t \in all iff t->_task_queue is set
    ready,    \* TaskQueue::_tasks_ready, a stack, ready[1] is its head
    state,    \* Task::_state
    top,      \* Task::_top: an awaitable ("frame"), the task itself, nullptr
    err,      \* Task::_error: none, ErrorAwaitable::ExitLoop or any other
    refc,     \* Task::_refc; 0: the object does not exist
    held,     \* 1 iff user code owns a reference (a TaskPtr, or a TaskStatic)
    thr       \* the Task::resume in progress on each other thread

queueVars == <<all, ready>>
taskVars == <<state, top, err, refc, held>>
loopVars == <<pc, cur, next, running, res>>
vars == <<loopVars, queueVars, taskVars, thr>>

(* "main": outside Loop::run.  "outer": the test of the outer while.  "pop": *)
(* at _tasks_ready.pop().  "running": in Task::run.  "store": Task::run has  *)
(* returned.  "exit_cb": in on_task_exit.  "ypoll", "idle": in the event     *)
(* engine's poll, of the yield branch and of on_idle.  "ysched": before      *)
(* schedule(task, {}) of the yield branch.  "exiting": run() will call       *)
(* exit().  "aborted": error::error("The task is not attached ...").         *)
PCs == {"main", "outer", "pop", "running", "store", "exit_cb", "ypoll",
        "ysched", "idle", "exiting", "aborted"}
States == {"Ready", "Suspended", "Yield", "Exited"}
Errors == {"none", "error", "exit"}
Call(s, t) == [step |-> s, task |-> t]
NoCall == Call("idle", NoTask)

TypeOK ==
    /\ pc \in PCs
    /\ cur \in Tasks \cup {NoTask}
    /\ next \in Tasks \cup {NoTask}
    /\ running \in Tasks \cup {NoTask}
    /\ res \in States
    /\ all \subseteq Tasks
    /\ ready \in Seq(Tasks)
    /\ state \in [Tasks -> States]
    /\ top \in [Tasks -> {"frame", "self", "null"}]
    /\ err \in [Tasks -> Errors]
    /\ refc \in [Tasks -> Nat]
    /\ held \in [Tasks -> {0, 1}]
    /\ thr \in [Threads -> [step : {"idle", "exchange", "restore", "push"},
                            task : Tasks \cup {NoTask}]]

Init ==
    /\ pc = "main"
    /\ cur = NoTask
    /\ next = NoTask
    /\ running = NoTask
    /\ res = "Suspended"
    /\ all = {}
    /\ ready = <<>>
    /\ state = [t \in Tasks |-> "Suspended"]
    /\ top = [t \in Tasks |-> "null"]
    /\ err = [t \in Tasks |-> "none"]
    /\ refc = [t \in Tasks |-> 0]
    /\ held = [t \in Tasks |-> 0]
    /\ thr = [h \in Threads |-> NoCall]

-----------------------------------------------------------------------------
(* User code on the loop thread.                                             *)

Callback == pc \in {"idle", "ypoll"}
InBody == pc = "running" /\ top[cur] = "frame"
UserCode == InBody \/ Callback \/ pc = "main"

(* A call of Task::resume by another thread is in progress on t.             *)
InUse(t) == \E h \in Threads : thr[h].step # "idle" /\ thr[h].task = t

Schedulable(t) == state[t] \notin {"Ready", "Exited"}

(* A mistaken schedule() that does not refuse a task that is Ready already.  *)
ScheduleUnchecked(t, e) ==
    IF state[t] # "Exited"
    THEN /\ state' = [state EXCEPT ![t] = "Ready"]
         /\ err' = [err EXCEPT ![t] = e]
         /\ ready' = <<t>> \o ready
    ELSE UNCHANGED <<state, err, ready>>

(* TaskQueue::schedule, when no other thread interferes.                     *)
Schedule(t, e) ==
    IF Schedulable(t)
    THEN /\ state' = [state EXCEPT ![t] = "Ready"]
         /\ err' = [err EXCEPT ![t] = e]
         /\ ready' = <<t>> \o ready
    ELSE UNCHANGED <<state, err, ready>>

(* TaskEntry::operator() and spawn() of an object that is not attached: init *)
(* leaves it Suspended, push() takes a reference, schedule() lists it.       *)
Spawn(t) ==
    /\ state' = [state EXCEPT ![t] = "Ready"]
    /\ top' = [top EXCEPT ![t] = "frame"]
    /\ err' = [err EXCEPT ![t] = "none"]
    /\ held' = [held EXCEPT ![t] = 1]
    /\ all' = all \cup {t}
    /\ ready' = <<t>> \o ready
    /\ UNCHANGED <<loopVars, thr>>

(* task_new: a heap task, one reference for the caller, one for the queue.   *)
TaskNew(t) ==
    /\ UserCode
    /\ refc[t] = 0
    /\ refc' = [refc EXCEPT ![t] = 2]
    /\ Spawn(t)

(* task_create of a task object the program keeps and starts again.  No      *)
(* other thread may be inside the object: init writes plain members.         *)
TaskCreate(t) ==
    /\ UserCode
    /\ held[t] = 1
    /\ t \notin all
    /\ ~InUse(t)
    /\ refc' = [refc EXCEPT ![t] = @ + 1]
    /\ Spawn(t)

(* task_create of an attached task: push() refs it, then push_front fails    *)
(* and spawn() returns Failed_.                                              *)
TaskCreateAttached(t) ==
    /\ UserCode
    /\ t \in Respawned
    /\ held[t] = 1
    /\ t \in all
    /\ refc[t] < MaxRefc
    /\ refc' = [refc EXCEPT ![t] = @ + 1]
    /\ UNCHANGED <<loopVars, queueVars, state, top, err, held, thr>>

(* The caller's TaskPtr goes out of scope.                                   *)
DropHandle(t) ==
    /\ UserCode
    /\ held[t] = 1
    /\ ~InUse(t)
    /\ held' = [held EXCEPT ![t] = 0]
    /\ refc' = [refc EXCEPT ![t] = @ - 1]
    /\ UNCHANGED <<loopVars, queueVars, state, top, err, thr>>

(* Task::resume(e) called on the loop thread; without a queue it fails.      *)
ResumeTask(t, e) ==
    /\ UserCode
    /\ t \in all
    /\ t = running => t \in SelfResumers
    /\ Schedule(t, e)
    /\ UNCHANGED <<loopVars, all, top, refc, held, thr>>

(* A mistaken pop() that gives up the caller's reference as well.            *)
PopUnrefTwice(t) ==
    /\ all' = all \ {t}
    /\ refc' = [refc EXCEPT ![t] = @ - 2]

(* A mistaken pop() that keeps the queue's reference.                        *)
PopNoUnref(t) ==
    /\ all' = all \ {t}
    /\ UNCHANGED refc

(* TaskQueue::pop of an attached task.                                       *)
Pop(t) ==
    /\ all' = all \ {t}
    /\ refc' = [refc EXCEPT ![t] = @ - 1]

Unwound(t) == IF top[t] = "null" THEN "null" ELSE "self"

(* A mistaken cancel() that pops a task that is still in the ready list.     *)
CancelAtOnce(t) ==
    /\ top' = [top EXCEPT ![t] = Unwound(t)]
    /\ Pop(t)
    /\ UNCHANGED <<state, err>>

(* A mistaken cancel() that exchanges _state and defers every dequeuing.     *)
CancelAlwaysDeferred(t) ==
    /\ top' = [top EXCEPT ![t] = Unwound(t)]
    /\ state' = [state EXCEPT ![t] = "Ready"]
    /\ err' = [err EXCEPT ![t] = "none"]
    /\ UNCHANGED <<all, refc>>

(* TaskQueue::cancel of an attached task that is not the running one: the    *)
(* call stack is unwound, then either the task is listed and its dequeuing   *)
(* is left to the loop (DeferredDequeue) or it is popped at once (NoError).  *)
Cancel(t) ==
    /\ top' = [top EXCEPT ![t] = Unwound(t)]
    /\ IF state[t] = "Ready"
       THEN /\ err' = [err EXCEPT ![t] = "none"]
            /\ UNCHANGED <<state, all, refc>>
       ELSE /\ state' = [state EXCEPT ![t] = "Exited"]
            /\ Pop(t)
            /\ UNCHANGED err

(* Awaitable::async_cancel: CancelDequeuedTask and CancelRunningTask change  *)
(* nothing.                                                                  *)
CancelTask(t) ==
    /\ UserCode
    /\ Callback => t \in CallbackTargets
    /\ t \in all
    /\ t # running
    /\ Cancel(t)
    /\ UNCHANGED <<loopVars, ready, held, thr>>

(* A mistaken exit() that does not drain the ready list.                     *)
ExitQueueNoDrain ==
    /\ top' = [t \in Tasks |-> IF t \in all THEN Unwound(t) ELSE top[t]]
    /\ err' = [t \in Tasks |->
                 IF t \in all /\ state[t] = "Ready" THEN "none" ELSE err[t]]
    /\ state' = [t \in Tasks |->
                 IF t \in all /\ state[t] # "Ready" THEN "Exited" ELSE state[t]]
    /\ refc' = [t \in Tasks |-> IF t \in all THEN refc[t] - 1 ELSE refc[t]]
    /\ all' = {}
    /\ UNCHANGED ready

(* TaskQueue::exit: cancel every task, drain the ready list, pop what the    *)
(* deferred cancellations left attached.                                     *)
ExitQueue ==
    /\ top' = [t \in Tasks |-> IF t \in all THEN Unwound(t) ELSE top[t]]
    /\ err' = [t \in Tasks |->
                 IF t \in all /\ state[t] = "Ready" THEN "none" ELSE err[t]]
    /\ state' = [t \in Tasks |->
                 IF t \in all /\ state[t] # "Ready" THEN "Exited" ELSE state[t]]
    /\ refc' = [t \in Tasks |-> IF t \in all THEN refc[t] - 1 ELSE refc[t]]
    /\ all' = {}
    /\ ready' = <<>>

LoopExit ==
    /\ \/ Callback /\ "callback" \in ExitFrom
       \/ pc = "main" /\ "main" \in ExitFrom
    /\ ExitQueue
    /\ UNCHANGED <<loopVars, held, thr>>

-----------------------------------------------------------------------------
(* The loop thread inside Loop::run.                                         *)

(* The main program calls Loop::run, for the first time or again.            *)
Run ==
    /\ pc = "main"
    /\ pc' = "outer"
    /\ UNCHANGED <<cur, next, running, res, queueVars, taskVars, thr>>

OuterCheck ==
    /\ pc = "outer"
    /\ pc' = IF all = {} THEN "main" ELSE "pop"
    /\ UNCHANGED <<cur, next, running, res, queueVars, taskVars, thr>>

(* Start `t`, which the loop has taken off the ready list.                   *)
Enter(t) ==
    /\ cur' = t
    /\ running' = t
    /\ pc' = "running"

PopReady ==
    /\ pc = "pop"
    /\ IF ready = <<>>
       THEN /\ pc' = "idle"
            /\ UNCHANGED <<cur, running, ready>>
       ELSE /\ Enter(Head(ready))
            /\ ready' = Tail(ready)
    /\ UNCHANGED <<next, res, all, taskVars, thr>>

(* The event engine's poll returns to on_idle.                               *)
PollDone ==
    /\ pc = "idle"
    /\ pc' = "outer"
    /\ UNCHANGED <<cur, next, running, res, queueVars, taskVars, thr>>

(* Task::run returns r.                                                      *)
Return(r) ==
    /\ res' = r
    /\ pc' = "store"
    /\ UNCHANGED <<cur, next, running, queueVars, refc, held, thr>>

Suspend ==
    /\ InBody
    /\ Return("Suspended")
    /\ UNCHANGED <<state, top, err>>

Yield ==
    /\ InBody
    /\ cur \in Yielders
    /\ Return("Yield")
    /\ UNCHANGED <<state, top, err>>

(* Task::async_poll or Task::handle_error, when the call stack is finished.  *)
Exited ==
    /\ top' = [top EXCEPT ![cur] = "null"]
    /\ state' = [state EXCEPT ![cur] = "Exited"]
    /\ Return("Exited")

(* The entry awaitable returns: an error a resume left in Task::_error stays.*)
Complete ==
    /\ InBody
    /\ Exited
    /\ UNCHANGED err

(* The entry awaitable raises e.                                             *)
Raise(e) ==
    /\ InBody
    /\ e = "exit" => "task" \in ExitFrom
    /\ err' = [err EXCEPT ![cur] = e]
    /\ Exited

(* A task whose call stack a deferred cancellation has unwound is run.       *)
RunCancelled ==
    /\ pc = "running"
    /\ top[cur] = "self"
    /\ Exited
    /\ UNCHANGED err

(* The loop takes the task back and stores the state Task::run returned.     *)
Store ==
    /\ pc = "store"
    /\ running' = NoTask
    /\ state' = [state EXCEPT ![cur] = res]
    /\ pc' = CASE res = "Exited" -> "exit_cb"
               [] res = "Yield" -> "ypoll"
               [] OTHER -> "pop"
    /\ UNCHANGED <<cur, next, res, queueVars, top, err, refc, held, thr>>

(* on_task_exit of Loop::run.                                                *)
OnTaskExit ==
    /\ pc = "exit_cb"
    /\ IF cur \in all
       THEN /\ Pop(cur)
            /\ pc' = CASE err[cur] = "none" -> "pop"
                       [] err[cur] = "exit" -> "exiting"
                       [] OTHER -> "main"
       ELSE /\ pc' = "aborted"
            /\ UNCHANGED <<all, refc>>
    /\ UNCHANGED <<cur, next, running, res, ready, state, top, err, held, thr>>

(* Loop::run calls exit() after a task threw ErrorAwaitable::ExitLoop.       *)
ExitAfterRun ==
    /\ pc = "exiting"
    /\ pc' = "main"
    /\ ExitQueue
    /\ UNCHANGED <<cur, next, running, res, held, thr>>

(* A mistaken yield branch that runs the task again whatever is ready.       *)
YieldAgain ==
    /\ pc = "ypoll"
    /\ Enter(cur)
    /\ UNCHANGED <<next, ready, res, all, taskVars, thr>>

(* The yield branch after its poll: with nothing ready the task runs again,  *)
(* its _state left at Yield.                                                 *)
YieldPop ==
    /\ pc = "ypoll"
    /\ IF ready = <<>>
       THEN /\ Enter(cur)
            /\ UNCHANGED <<next, ready>>
       ELSE /\ next' = Head(ready)
            /\ ready' = Tail(ready)
            /\ pc' = "ysched"
            /\ UNCHANGED <<cur, running>>
    /\ UNCHANGED <<res, all, taskVars, thr>>

YieldSchedule ==
    /\ pc = "ysched"
    /\ Schedule(cur, "none")
    /\ Enter(next)
    /\ UNCHANGED <<next, res, all, top, refc, held, thr>>

-----------------------------------------------------------------------------
(* Task::resume({}) on another thread, one step per access it shares with    *)
(* the loop.  The thread owns a reference through the program's handle.      *)

ThreadResume(h, t) ==
    /\ thr[h].step = "idle"
    /\ t \in ThreadTargets
    /\ held[t] = 1
    /\ t \in all
    /\ thr' = [thr EXCEPT ![h] = Call("exchange", t)]
    /\ UNCHANGED <<loopVars, queueVars, taskVars>>

ThreadExchange(h) ==
    LET t == thr[h].task IN
    /\ thr[h].step = "exchange"
    /\ state' = [state EXCEPT ![t] = "Ready"]
    /\ thr' = [thr EXCEPT ![h] = CASE state[t] = "Ready" -> NoCall
                                   [] state[t] = "Exited" -> Call("restore", t)
                                   [] OTHER -> Call("push", t)]
    /\ UNCHANGED <<loopVars, queueVars, top, err, refc, held>>

ThreadRestore(h) ==
    /\ thr[h].step = "restore"
    /\ state' = [state EXCEPT ![thr[h].task] = "Exited"]
    /\ thr' = [thr EXCEPT ![h] = NoCall]
    /\ UNCHANGED <<loopVars, queueVars, top, err, refc, held>>

ThreadPush(h) ==
    /\ thr[h].step = "push"
    /\ err' = [err EXCEPT ![thr[h].task] = "none"]
    /\ ready' = <<thr[h].task>> \o ready
    /\ thr' = [thr EXCEPT ![h] = NoCall]
    /\ UNCHANGED <<loopVars, all, state, top, refc, held>>

-----------------------------------------------------------------------------
(* What the loop thread does by itself inside Loop::run.                     *)
LoopStep ==
    \/ OuterCheck \/ PopReady \/ PollDone
    \/ Suspend \/ Yield \/ Complete \/ RunCancelled
    \/ \E e \in {"error", "exit"} : Raise(e)
    \/ Store \/ OnTaskExit \/ ExitAfterRun
    \/ YieldPop \/ YieldSchedule

(* The steps that put a task on the ready list at the wish of user code.     *)
Spawned == \E t \in Tasks : TaskNew(t) \/ TaskCreate(t)
Resumed == \E t \in Tasks : ResumeTask(t, "none") \/ ResumeTask(t, "error")
ThreadResumed == \E h \in Threads, t \in Tasks : ThreadResume(h, t)

UserStep ==
    \/ Run \/ Spawned \/ Resumed \/ LoopExit
    \/ \E t \in Tasks : TaskCreateAttached(t) \/ DropHandle(t) \/ CancelTask(t)

ThreadStep(h) == ThreadExchange(h) \/ ThreadRestore(h) \/ ThreadPush(h)

Next ==
    \/ LoopStep
    \/ UserStep
    \/ ThreadResumed
    \/ \E h \in Threads : ThreadStep(h)

Spec == Init /\ [][Next]_vars

(* A coroutine body and a poll of the event engine come back to the loop,    *)
(* and a thread inside Task::resume finishes it.  Nobody has to call run(),  *)
(* resume, cancel or exit.                                                   *)
FairSpec ==
    /\ Spec
    /\ WF_vars(LoopStep)
    /\ \A h \in Threads : WF_vars(ThreadStep(h))

-----------------------------------------------------------------------------
Listed == Range(ready)

(* The loop is between taking cur off the ready list and giving it back.     *)
Engaged(t) ==
    \/ pc \in {"running", "store", "exit_cb"} /\ t = cur
    \/ pc = "ysched" /\ t = next

(* Another thread has made t Ready and has not pushed it yet.                *)
Pushing(t) == \E h \in Threads : thr[h].step = "push" /\ thr[h].task = t
(* The ready list is sound: TaskQueue::run may pop any entry and run it.     *)
(* No task is listed twice (a second push would tie the intrusive list into  *)
(* a cycle), and a listed task is attached, so alive, has a call stack and   *)
(* is Ready, so that schedule() refuses it and cancel() defers.              *)
ReadyListSound ==
    /\ IsInjective(ready)
    /\ \A t \in Listed : t \in all /\ state[t] = "Ready" /\ top[t] # "null"

(* The task the loop runs is attached and referenced, has a call stack, and  *)
(* is neither listed nor about to be listed by another thread: it cannot be  *)
(* entered a second time when it suspends.                                   *)
RunsLiveTask ==
    pc = "running" =>
        /\ running = cur
        /\ cur \in all
        /\ refc[cur] > 0
        /\ top[cur] # "null"
        /\ cur \notin Listed
        /\ ~Pushing(cur)

(* No task is lost: since schedule() refuses a Ready task, one that is Ready *)
(* must be in the ready list, in the loop's hands, or about to be pushed.    *)
NoStrandedReady ==
    \A t \in all : state[t] = "Ready" => t \in Listed \/ Engaged(t) \/ Pushing(t)

(* The references to a task are exactly the program's and the queue's: it    *)
(* is destroyed when both are given up and not before.                       *)
RefcExact ==
    \A t \in Tasks : refc[t] = held[t] + (IF t \in all THEN 1 ELSE 0)

(* A deferred cancellation stays clean until the loop dequeues the task:     *)
(* no later resume re-arms it or leaves an error in it, so it cannot stop    *)
(* the loop as an unhandled error would.                                     *)
CancelledClean ==
    \A t \in all : top[t] = "self" => state[t] = "Ready" /\ err[t] = "none"

(* on_task_exit always finds the task attached: the loop never reaches       *)
(* error::error("The task is not attached to any queue").                    *)
NeverAborts == pc # "aborted"

-----------------------------------------------------------------------------
(* Two inductive invariants: of the types and references, for any use, and   *)
(* of the lists, for Disciplined use.                                        *)

(* The loop and the threads inside Task::resume point to tasks.              *)
PointersInv ==
    /\ pc \in {"running", "store", "exit_cb", "ypoll", "ysched"} => cur \in Tasks
    /\ pc = "ysched" => next \in Tasks
    /\ \A h \in Threads : thr[h].step # "idle" => thr[h].task \in Tasks

(* A task has at least the program's and the queue's reference; more only if *)
(* it was spawned while attached.                                            *)
RefcInv ==
    \A t \in Tasks :
        /\ refc[t] >= held[t] + (IF t \in all THEN 1 ELSE 0)
        /\ t \notin Respawned => refc[t] = held[t] + (IF t \in all THEN 1 ELSE 0)

TypeInv == TypeOK /\ PointersInv /\ RefcInv

(* Where the loop holds a task, and what it may rely on about it.            *)
LoopInv ==
    /\ running = IF pc \in {"running", "store"} THEN cur ELSE NoTask
    /\ pc \in {"running", "store", "exit_cb", "ypoll", "ysched"} => cur \in all
    /\ pc \in {"running", "store", "exit_cb"} => cur \notin Listed /\ ~Pushing(cur)
    /\ pc = "running" => top[cur] # "null" /\ state[cur] \in {"Ready", "Yield"}
    /\ pc = "store" =>
        /\ state[cur] # "Suspended"
        /\ res # "Ready"
        /\ res = "Yield" => cur \in Yielders
        /\ IF res = "Exited" THEN top[cur] = "null" ELSE top[cur] = "frame"
    /\ pc = "exiting" => "task" \in ExitFrom
    /\ pc = "exit_cb" => top[cur] = "null" /\ state[cur] \in {"Ready", "Exited"}
    /\ pc \in {"ypoll", "ysched"} =>
        /\ cur \in Yielders
        /\ top[cur] = "frame"
        /\ state[cur] \in {"Ready", "Yield"}
    /\ pc = "ysched" =>
        /\ next \in all
        /\ next \notin Listed
        /\ ~Pushing(next)
        /\ state[next] = "Ready"
        /\ top[next] # "null"

(* What the calls of Task::resume in progress on other threads rely on.      *)
ThreadInv ==
    /\ \A h \in Threads : thr[h].step # "idle" =>
        thr[h].task \in ThreadTargets /\ held[thr[h].task] = 1
    /\ \A h \in Threads : thr[h].step = "push" =>
        /\ thr[h].task \in all
        /\ thr[h].task \notin Listed
        /\ state[thr[h].task] = "Ready"
        /\ top[thr[h].task] # "null"
    /\ \A h \in Threads : thr[h].step = "restore" =>
        thr[h].task \notin all \/ top[thr[h].task] = "null"
    /\ \A g, h \in Threads :
        thr[g].step = "push" /\ thr[h].step = "push" /\ thr[g].task = thr[h].task
            => g = h

(* What the _state and _top of a task say about where it is.                 *)
TaskInv ==
    /\ \A t \in all :
        /\ top[t] = "null" => t = cur /\ pc \in {"store", "exit_cb"}
        /\ state[t] = "Exited" => top[t] = "null"
        /\ state[t] = "Yield" =>
            t = cur /\ t \in Yielders /\ pc \in {"running", "store", "ypoll", "ysched"}
    /\ \A t \in Tasks \ all : held[t] = 1 => state[t] \in {"Ready", "Exited"}
    /\ \A t \in Tasks : err[t] = "exit" => "task" \in ExitFrom

(* The inductive invariant of the scheduler: what TaskQueue::run, schedule,  *)
(* cancel and exit and the threads inside Task::resume rely on together.     *)
IndInv ==
    /\ ReadyListSound
    /\ NoStrandedReady
    /\ CancelledClean
    /\ LoopInv
    /\ ThreadInv
    /\ TaskInv
    /\ NeverAborts

-----------------------------------------------------------------------------
(* Once user code and other threads stop scheduling, every listed task is    *)
(* run: the loop drains the ready list although it is a stack and although   *)
(* one task may go on yielding for ever.  Unless run() has returned.         *)
ReadyListDrains ==
    \A t \in Tasks :
        \/ []<><<Spawned \/ Resumed \/ ThreadResumed>>_vars
        \/ t \in Listed ~> (t \notin Listed \/ pc = "main")
=============================================================================
