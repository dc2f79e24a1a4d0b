--------------------------- MODULE TaskQueueLife ---------------------------
(* TaskQueue implements TaskLife: the refinement mapping.                    *)
EXTENDS TaskQueue

(* The phase of a task, read off the queue's lists, the task's _state and    *)
(* _top and the position of the loop.  A task that has yielded is scheduled  *)
(* again as soon as the loop has stored its state; one that another thread   *)
(* has made Ready is scheduled before that thread pushes it.                 *)
Phase(t) ==
    IF t \notin all THEN "idle"
    ELSE IF top[t] = "null" THEN "ending"
    ELSE IF top[t] = "self" THEN "doomed"
    ELSE IF pc \in {"running", "store"} /\ t = cur THEN "executing"
    ELSE IF state[t] = "Suspended" THEN "waiting"
    ELSE "scheduled"

Life == INSTANCE TaskLife WITH phase <- [t \in Tasks |-> Phase(t)]

(* TaskQueue implements the life cycle: tasks execute one at a time and only *)
(* when scheduled, and a task that cancel() answered with DeferredDequeue    *)
(* ends without its coroutine being entered again.                           *)
LifeCycle == Life!LifeSpec
=============================================================================
