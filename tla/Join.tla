-------------------------------- MODULE Join --------------------------------
(* AsyncJoin (awaitable.ipp) and the hooks of a task (Task::add_hook,        *)
(* AwaitableTaskNode): an observer puts its hook between the entry of the    *)
(* task it joins and the task itself; when the entry returns or throws the   *)
(* hooks are polled one by one, and each resumes its observer. Every         *)
(* observer has one AsyncJoin, which it may use again.                       *)
EXTENDS Naturals, Sequences, FiniteSets

CONSTANTS Targets, Observers, NoTarget

VARIABLE j

(* hooks[t]: from the entry outwards; done: Join::_done; holds: the hooks    *)
(* that refer to their observer; used: joins that have returned before. What *)
(* may go wrong: early: returned before the target had ended; late: hooked   *)
(* to a task that was over; lost: hooked to a task that was cancelled;       *)
(* freed: the hook ran on after it was destroyed.                            *)
Init == j = [task |-> [t \in Targets |-> "live"], hooks |-> [t \in Targets |-> <<>>],
             st |-> [o \in Observers |-> "idle"], on |-> [o \in Observers |-> NoTarget],
             done |-> [o \in Observers |-> FALSE], holds |-> {}, used |-> {}, early |-> {},
             late |-> {}, lost |-> {}, freed |-> FALSE]

(* A task that ends polls its hooks and exits before the loop goes on.       *)
Quiet == \A t \in Targets : j.task[t] # "ending"
Over(t) == j.task[t] \in {"exited", "cancelled"}

(* async_poll: a hook that is done returns; otherwise it is added, whatever  *)
(* the target's state. A task that has exited never gets to a hook.          *)
PollJoin(s, o, t) ==
    IF s.done[o] THEN [s EXCEPT !.st[o] = "joined",
                                !.early = IF s.task[t] = "live" THEN @ \cup {o} ELSE @]
    ELSE [s EXCEPT !.st[o] = "waiting", !.on[o] = t, !.hooks[t] = Append(@, o),
                   !.holds = @ \cup {o}, !.late = IF Over(t) THEN @ \cup {o} ELSE @]

(* The observer awaits its AsyncJoin. operator() leaves the hook as it is.   *)
Join(o, t) == /\ Quiet /\ j.st[o] = "idle" /\ j' = PollJoin(j, o, t)

(* The entry of the target returns or throws: its caller, the first hook,    *)
(* comes next.                                                               *)
EntryReturns(t) == /\ Quiet /\ j.task[t] = "live" /\ j' = [j EXCEPT !.task[t] = "ending"]

Destroyed(o) == j.st[o] = "cancelled"

(* AwaitableTaskNode::async_poll: Join::resume marks the hook as done, takes *)
(* it out and resumes the observer; then it gives up its reference. Where    *)
(* that was the last one, of an observer cancelled while it waited, the      *)
(* observer is destroyed with the hook in it, and async_return runs on it.   *)
PollHook(t) ==
    /\ j.task[t] = "ending" /\ j.hooks[t] # <<>>
    /\ LET o == Head(j.hooks[t]) IN
       j' = [j EXCEPT !.hooks[t] = Tail(@), !.done[o] = TRUE, !.holds = @ \ {o},
                      !.st[o] = IF @ = "waiting" THEN "ready" ELSE @,
                      !.freed = @ \/ Destroyed(o)]

TargetExits(t) == /\ j.task[t] = "ending" /\ j.hooks[t] = <<>>
                  /\ j' = [j EXCEPT !.task[t] = "exited"]

(* TaskQueue::cancel of the target finalizes the hooks with the rest of the  *)
(* stack: they give up their observers and do not resume them.               *)
CancelTarget(t) ==
    /\ Quiet /\ j.task[t] = "live"
    /\ LET hooked == {j.hooks[t][i] : i \in DOMAIN j.hooks[t]} IN
       j' = [j EXCEPT !.task[t] = "cancelled", !.hooks[t] = <<>>, !.holds = @ \ hooked,
                      !.lost = @ \cup hooked]

(* The observer runs: the join returns.                                      *)
ObserverRuns(o) == /\ Quiet /\ j.st[o] = "ready" /\ j' = PollJoin(j, o, j.on[o])

(* The observer goes on, and may use its AsyncJoin again.                    *)
Continue(o) == /\ Quiet /\ j.st[o] = "joined"
               /\ j' = [j EXCEPT !.st[o] = "idle", !.on[o] = NoTarget, !.used = @ \cup {o}]

(* A slip: the hook left in the target no longer holds its observer.         *)
CancelObserverDrops(o) ==
    /\ Quiet /\ j.st[o] = "waiting"
    /\ j' = [j EXCEPT !.st[o] = "cancelled", !.holds = @ \ {o}]

(* The observer is cancelled while it waits: AsyncJoin::async_finalize lets  *)
(* go of the target, the hook stays in it.                                   *)
CancelObserver(o) ==
    /\ Quiet /\ j.st[o] = "waiting"
    /\ j' = [j EXCEPT !.st[o] = "cancelled"]

Next == \/ \E o \in Observers, t \in Targets : Join(o, t)
        \/ \E t \in Targets : EntryReturns(t) \/ PollHook(t) \/ TargetExits(t) \/ CancelTarget(t)
        \/ \E o \in Observers : ObserverRuns(o) \/ Continue(o) \/ CancelObserver(o)

(* Targets end or are cancelled, and the loop runs what is ready.            *)
Fairness == /\ \A t \in Targets : WF_j(EntryReturns(t)) /\ WF_j(PollHook(t)) /\ WF_j(TargetExits(t))
            /\ \A o \in Observers : WF_j(ObserverRuns(o))

Spec == Init /\ [][Next]_j /\ Fairness

----------------------------------------------------------------------------
(* When a join returns, the task it joined has run: what test_async_join.cpp *)
(* asserts of its counter.                                                   *)
JoinWaits == j.early = {}

(* The first join of an AsyncJoin waits for its target; a hook in a task     *)
(* keeps its observer in memory, and is let go in use only when the observer *)
(* was cancelled.                                                            *)
FirstJoinWaits ==
    /\ \A o \in Observers : o \notin j.used => o \notin j.early
    /\ \A t \in Targets : \A i \in DOMAIN j.hooks[t] : j.hooks[t][i] \in j.holds
    /\ j.freed => \E o \in Observers : j.st[o] = "cancelled"

(* An observer that joins a task that is not over is resumed when the task   *)
(* ends by itself; one that joins too late, or whose target is cancelled,    *)
(* waits for ever.                                                           *)
ObserversResume == \A o \in Observers :
    j.st[o] = "waiting" ~> (j.st[o] # "waiting" \/ o \in j.late \cup j.lost)
============================================================================
