-------------------------------- MODULE Wait --------------------------------
(* Wait (pausable.hpp): an awaitable that is a task queue of its own. Its    *)
(* branches are tasks that run inside a poll of their parent task; the Wait  *)
(* pauses, that is returns to its caller and stays below it on the stack,    *)
(* when the condition it waits for holds, and can be awaited again.          *)
(* The loop and the call stack of the parent are those of TaskQueue and      *)
(* CallStack; here the parent is one task p, whose routine awaits the Wait,  *)
(* or another awaitable while the Wait is paused. All is on one thread. No   *)
(* branch is cancelled on its own: Wait::cancel would erase it from the list *)
(* of the loop, which it is not in.                                          *)
(* Branches are TaskStatic and TaskBound: one that has run holds a reference *)
(* to its parent (bound) until it ends, or until nobody but its own object   *)
(* has a reference to it. The program may keep a pointer to it (held).       *)
EXTENDS Naturals, Sequences, FiniteSets, SequencesExt

CONSTANTS Branches, Conditions

VARIABLE v

Init == \E c \in Conditions :
    v = [cond |-> c, p |-> "running", at |-> "user", called |-> FALSE, paused |-> FALSE,
         back |-> FALSE, all |-> {}, ready |-> <<>>, done |-> <<>>, err |-> {}, other |-> FALSE,
         st |-> [b \in Branches |-> "new"], owed |-> {}, bound |-> {}, held |-> {}]

Running(place) == v.p = "running" /\ v.at = place

----------------------------------------------------------------------------
(* A slip: the parent is not told.                                           *)
ScheduleOnly(s, b) == [s EXCEPT !.st[b] = "ready", !.ready = <<b>> \o @]

(* Wait::schedule of a branch that is not ready: onto the ready list, then   *)
(* the parent is resumed, wherever its routine waits; that fails, and is not *)
(* needed, while the parent is ready or runs.                                *)
Schedule(s, b) ==
    [s EXCEPT !.st[b] = "ready", !.ready = <<b>> \o @,
              !.p = IF @ = "suspended" /\ s.called THEN "ready" ELSE @]

(* before_run: set_bound_task(get_task()).                                   *)
Bind(s, b) == [s EXCEPT !.bound = @ \cup {b}]

(* Of the branches bs the list _tasks_all or _tasks_done drops its reference:*)
(* shared_pointer_check_signle_reference lets go of the parent when no other *)
(* reference is left.                                                        *)
Unref(s, bs) == [s EXCEPT !.bound = @ \ (bs \ s.held)]

(* async_finalize: TaskQueue::exit cancels every branch and empties both     *)
(* lists, the completed branches are dropped.                                *)
Exit(s) ==
    [Unref(s, s.all \cup {s.done[i] : i \in DOMAIN s.done}) EXCEPT !.st = [b \in Branches |-> IF b \in s.all THEN "cancelled" ELSE s.st[b]],
              !.all = {}, !.ready = <<>>, !.done = <<>>, !.owed = {}, !.called = FALSE,
              !.paused = FALSE]

(* A slip: the last branch is not noticed.                                   *)
CompletesUnlessEmpty(s, e) == s.cond = "FirstCompleted" \/ (s.cond = "FirstException" /\ e)

(* What ends task_queue_run when a branch has ended: its condition, or that  *)
(* there is no branch left.                                                  *)
Completes(s, e) ==
    \/ s.cond = "FirstCompleted"
    \/ s.cond = "FirstException" /\ e
    \/ s.all = {}

(* The exit of branch b, with error e or without: it moves to the completed  *)
(* ones; async_pause returns to the routine.                                 *)
TaskExit(s, b, e) ==
    LET t == [s EXCEPT !.st[b] = "exited", !.all = @ \ {b}, !.done = <<b>> \o @, !.bound = @ \ {b},
                       !.err = IF e THEN @ \cup {b} ELSE @ \ {b}]
    IN IF Completes(t, e) THEN [t EXCEPT !.at = "user", !.paused = TRUE, !.back = TRUE] ELSE t

----------------------------------------------------------------------------
(* task_queue_run: the next ready branch runs, and exits or suspends.        *)
Popped == Bind([v EXCEPT !.ready = Tail(@)], Head(v.ready))

RunExits == /\ Running("wait") /\ v.ready # <<>>
            /\ \E e \in BOOLEAN : v' = TaskExit(Popped, Head(v.ready), e)

RunSuspends == /\ Running("wait") /\ v.ready # <<>>
               /\ v' = [Popped EXCEPT !.st[Head(v.ready)] = "suspended"]

(* A branch yields: the event engine is polled from inside the parent, which *)
(* may make branches ready; the branch runs again at once when nothing else  *)
(* is ready, after the next one otherwise.                                   *)
RunYields ==
    /\ Running("wait") /\ v.ready # <<>>
    /\ \E s \in {Popped} \cup {Schedule(Popped, b) : b \in {c \in v.all : v.st[c] = "suspended"}} :
       v' = [s EXCEPT !.ready = IF @ = <<>> THEN v.ready
                                ELSE <<Head(@), Head(v.ready)>> \o Tail(@)]

(* Nothing is ready: the parent suspends with the Wait on top.               *)
Suspend == /\ Running("wait") /\ v.ready = <<>>
           /\ v' = [v EXCEPT !.p = "suspended"]

(* The loop runs the parent. Another awaitable that is resumed by a branch   *)
(* is polled before its own event and suspends again.                        *)
LoopRun ==
    /\ v.p = "ready"
    /\ v' = IF v.at = "other" /\ ~v.other THEN [v EXCEPT !.p = "suspended"]
            ELSE [v EXCEPT !.p = "running", !.at = IF @ = "other" THEN "user" ELSE @]

(* An event of a branch, or of the other awaitable, in a poll of the loop.   *)
Event(b) == /\ v.p # "running" /\ b \in v.all /\ v.st[b] = "suspended"
            /\ v' = Schedule(v, b)

OtherEvent == /\ v.at = "other" /\ v.p \in {"suspended", "ready"} /\ ~v.other
              /\ v' = [v EXCEPT !.other = TRUE, !.p = "ready"]

----------------------------------------------------------------------------
(* The routine. branch_create; a branch is created again once it was handed  *)
(* over.                                                                     *)
BranchCreate(b) ==
    /\ Running("user") /\ v.st[b] \in {"new", "exited"} /\ b \notin v.owed
    /\ v' = [Schedule(v, b) EXCEPT !.all = @ \cup {b}, !.owed = @ \cup {b}, !.back = FALSE]

(* The program has a pointer to one of its branches and drops it, at any     *)
(* time.                                                                     *)
Hold(b) == /\ v.held = {} /\ \A c \in Branches : v.st[c] = "new"
           /\ v' = [v EXCEPT !.held = @ \cup {b}]

Drop(b) ==
    /\ b \in v.held
    /\ LET s == [v EXCEPT !.held = @ \ {b}]
       IN v' = IF b \in v.owed THEN s ELSE Unref(s, {b})

(* The Wait is awaited, for the first time or again (swap_awaitable).        *)
Await == /\ Running("user") /\ v.all # {}
         /\ v' = [v EXCEPT !.at = "wait", !.called = TRUE, !.paused = FALSE, !.back = FALSE]

AwaitOther == /\ Running("user")
              /\ v' = [v EXCEPT !.at = "other", !.other = FALSE, !.p = "suspended", !.back = FALSE]

(* for_each: the completed branches are handed over.                         *)
ForEach == /\ Running("user") /\ v.done # <<>>
           /\ LET done == {v.done[i] : i \in DOMAIN v.done}
              IN v' = [Unref(v, done) EXCEPT !.owed = @ \ done, !.done = <<>>, !.back = FALSE]

(* The routine returns or throws: a paused Wait below it is finalized.       *)
Return == /\ Running("user") /\ (v.paused \/ v.all = {})
          /\ v' = [Exit(v) EXCEPT !.p = "gone", !.back = FALSE]

(* The parent is cancelled from outside.                                     *)
CancelParent == /\ v.p \in {"suspended", "ready"} /\ v.called
                /\ v' = [Exit(v) EXCEPT !.p = "gone"]

Next == \/ RunExits \/ RunSuspends \/ RunYields \/ Suspend \/ LoopRun \/ OtherEvent
        \/ \E b \in Branches : Event(b) \/ BranchCreate(b) \/ Hold(b) \/ Drop(b)
        \/ Await \/ AwaitOther \/ ForEach \/ Return \/ CancelParent

(* The loop runs ready tasks, events come, and no branch runs for ever.      *)
Fairness == /\ WF_v(LoopRun) /\ WF_v(Suspend) /\ SF_v(RunExits)
            /\ \A b \in Branches : WF_v(Event(b))

Spec == Init /\ [][Next]_v /\ Fairness

----------------------------------------------------------------------------
(* Every branch created is on the way or completed until it is handed over   *)
(* or dropped with the Wait, and the ready list holds the ready ones, once;  *)
(* a Wait that is finalized leaves none behind. Nor does a branch keep a     *)
(* reference to a parent that is gone, which ~TaskStatic would find, unless  *)
(* the program still holds the branch.                                       *)
BranchesAccounted ==
    LET done == {v.done[i] : i \in DOMAIN v.done}
        ready == {v.ready[i] : i \in DOMAIN v.ready} IN
    /\ v.owed = v.all \cup done /\ v.all \cap done = {}
    /\ Len(v.ready) = Cardinality(ready) /\ Len(v.done) = Cardinality(done)
    /\ ready = {b \in v.all : v.st[b] = "ready"}
    /\ v.p = "gone" => v.all \cup ready \cup done = {}
    /\ v.bound \subseteq v.all \cup v.held

(* A parent that sleeps in its Wait has a branch that will wake it and no    *)
(* branch that could run; a Wait that returns has kept its condition.        *)
WaitKeepsPromise ==
    /\ v.p = "suspended" /\ v.at = "wait" => v.ready = <<>> /\ v.all # {}
    /\ v.back => /\ v.done # <<>>
                 /\ v.cond = "AllCompleted" => v.all = {}
                 /\ v.cond = "FirstException" => v.all = {} \/ v.done[1] \in v.err

(* A Wait that is awaited returns.                                           *)
WaitEnds == v.at = "wait" ~> (v.at # "wait" \/ v.p = "gone")
============================================================================
