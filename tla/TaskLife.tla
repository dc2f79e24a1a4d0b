------------------------------ MODULE TaskLife ------------------------------
(* What a task queue promises its users about one task: it executes only     *)
(* after it was scheduled, at most one task executes at a time, and a task   *)
(* that was cancelled while scheduled ends without executing again.          *)
(*                                                                           *)
(* Phases of a task: "idle" (not attached), "waiting" (suspended),           *)
(* "scheduled", "executing", "doomed" (cancelled while scheduled) and        *)
(* "ending" (finished, the queue has not let go of it yet).                  *)
CONSTANT Tasks
VARIABLE phase

Phases == {"idle", "waiting", "scheduled", "executing", "doomed", "ending"}

LifeInit == phase = [t \in Tasks |-> "idle"]

Move(t, from, to) ==
    /\ phase[t] = from
    /\ phase' = [phase EXCEPT ![t] = to]

NobodyExecutes == \A t \in Tasks : phase[t] \notin {"executing", "ending"}

Start(t) == Move(t, "idle", "scheduled")
Wake(t) == Move(t, "waiting", "scheduled")
Begin(t) == NobodyExecutes /\ Move(t, "scheduled", "executing")
Block(t) == Move(t, "executing", "waiting")
Requeue(t) == Move(t, "executing", "scheduled")
Finish(t) == Move(t, "executing", "ending")
Doom(t) == Move(t, "scheduled", "doomed")
FinishDoomed(t) == NobodyExecutes /\ Move(t, "doomed", "ending")
Release(t) == Move(t, "ending", "idle")
Abandon(t) == Move(t, "waiting", "idle")

(* The queue is shut down: every task is let go of at once.                  *)
Shutdown ==
    /\ NobodyExecutes
    /\ phase' = [t \in Tasks |-> "idle"]

LifeNext ==
    \/ \E t \in Tasks :
        \/ Start(t) \/ Wake(t) \/ Begin(t) \/ Block(t) \/ Requeue(t)
        \/ Finish(t) \/ Doom(t) \/ FinishDoomed(t) \/ Release(t) \/ Abandon(t)
    \/ Shutdown

LifeSpec == LifeInit /\ [][LifeNext]_phase
=============================================================================
