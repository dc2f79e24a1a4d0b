----------------------------- MODULE CallStack ------------------------------
(* The call stack of one task: Awaitable::run (src/async.cpp), async_call,   *)
(* async_return, async_suspend and async_throw (async/awaitable.hpp, .ipp),  *)
(* pausable awaitables (async/pausable.hpp) and the unwinding in             *)
(* TaskQueue::cancel (async/task.hpp).                                       *)
(*                                                                           *)
(* The stack exists twice.  The awaitables are linked by _caller from _top   *)
(* down to the task.  And async_call runs the callee inside the caller's     *)
(* async_poll, so activations of Awaitable::run nest on the C++ stack until  *)
(* someone suspends; then Task::run goes on from _top alone.  Awaitable::run *)
(* tells the two apart by comparing _top with itself.                        *)
EXTENDS Naturals, Sequences, FiniteSets, SequencesExt

CONSTANTS
    Awaitables,
    Entry,         \* the awaitable the task starts with
    Pausables,     \* those that are AsyncRoutinePausable
    Task,          \* the task itself, the bottom of the stack
    Null,          \* nullptr
    Reused,        \* TRUE: a finalized pausable is called again
    PauseNested,   \* TRUE: a pausable is called from a nested activation
    PauseOnPaused, \* TRUE: a pausable pauses with a paused one right below
    FirstThrows    \* TRUE: a C++ exception escapes from the first poll of a
                   \* callee, before the callee is the top

ASSUME StackAssumption ==
    /\ IsFiniteSet(Awaitables)
    /\ Entry \in Awaitables
    /\ Pausables \subseteq Awaitables \ {Entry}
    /\ Task \notin Awaitables /\ Null \notin Awaitables /\ Task # Null
    /\ Reused \in BOOLEAN /\ PauseNested \in BOOLEAN
    /\ PauseOnPaused \in BOOLEAN /\ FirstThrows \in BOOLEAN

VARIABLES
    at,       \* where the task is, see Places
    ret,      \* the ControlState that is being returned at "polled"
    top,      \* Task::_top
    caller,   \* Awaitable::_caller
    prev,     \* AwaitablePausable::_prev
    bound,    \* the awaitables whose _task is set: called and not finalized
    error,    \* the awaitables whose _error is set, the task among them
    frames,   \* the activations of Awaitable::run on the C++ stack
    raised    \* an error has been raised, and nobody has handled it

vars == <<at, ret, top, caller, prev, bound, error, frames, raised>>

(* "polled": async_poll or run() has returned `ret` to the last frame, or to *)
(* Task::run.  "poll": MixinPausable::async_poll begins.  "body", "handle":  *)
(* user code in async_poll or handle_error.  "suspended": the loop has the   *)
(* task.  "hung": swap_awaitable does not come to an end.                    *)
Places == {"polled", "poll", "body", "handle", "suspended", "exited", "hung"}

TypeOK ==
    /\ at \in Places
    /\ ret \in {"Ready", "Raise", "Suspended"}
    /\ top \in Awaitables \cup {Task}
    /\ caller \in [Awaitables -> Awaitables \cup {Task, Null}]
    /\ prev \in [Pausables -> Awaitables \cup {Task, Null}]
    /\ bound \subseteq Awaitables
    /\ error \subseteq Awaitables \cup {Task}
    /\ frames \in Seq(Awaitables)
    /\ raised \in BOOLEAN

(* Task::init, and the first Task::run.                                      *)
Init ==
    /\ at = "polled"
    /\ ret = "Ready"
    /\ top = Entry
    /\ caller = [a \in Awaitables |-> IF a = Entry THEN Task ELSE Null]
    /\ prev = [p \in Pausables |-> Null]
    /\ bound = {Entry}
    /\ error = {}
    /\ frames = <<>>
    /\ raised = FALSE

-----------------------------------------------------------------------------
(* Awaitable::run.                                                           *)

Running == Last(frames)
IsPaused(a) == a \in Pausables /\ prev[a] # Null

(* The head of the loop in run() of a, when the errors in e are set: an      *)
(* error is moved out of the awaitable and given to handle_error.            *)
Loop(a, e) ==
    /\ at' = IF a \in e THEN "handle" ELSE IF a \in Pausables THEN "poll" ELSE "body"
    /\ error' = e \ {a}

(* A mistaken run() that finalizes whatever has not suspended.               *)
PolledFinalize(a, s, t, e) ==
    /\ frames' = Front(frames)
    /\ at' = "polled"
    /\ ret' = s
    /\ top' = t
    /\ bound' = bound \ {a}
    /\ error' = e \ {a}

(* A mistaken run() that never finalizes what it returns from.               *)
PolledKeep(a, s, t, e) ==
    /\ top' = t
    /\ UNCHANGED bound
    /\ IF s = "Suspended" \/ t # a
       THEN /\ frames' = Front(frames) /\ at' = "polled" /\ ret' = s
            /\ error' = e
       ELSE /\ Loop(a, e)
            /\ UNCHANGED <<frames, ret>>

(* What run() of the last frame a does when async_poll or handle_error has   *)
(* returned s, left _top at t and the errors e: it returns s, finalized      *)
(* unless suspended, or goes on because it is still the top.                 *)
Polled(a, s, t, e) ==
    /\ top' = t
    /\ IF s = "Suspended" \/ t # a
       THEN /\ frames' = Front(frames)
            /\ at' = "polled"
            /\ ret' = s
            /\ bound' = IF s = "Suspended" THEN bound ELSE bound \ {a}
            /\ error' = IF s = "Suspended" THEN e ELSE e \ {a}
       ELSE /\ Loop(a, e)
            /\ UNCHANGED <<frames, ret, bound>>

(* A callee has returned to the async_poll that called it, which returns.    *)
CalleeDone ==
    /\ at = "polled"
    /\ frames # <<>>
    /\ Polled(Running, ret, top, error)
    /\ UNCHANGED <<caller, prev, raised>>

(* Task::run: as long as Ready is returned, run whatever is on top.          *)
TaskRun ==
    /\ at = "polled"
    /\ frames = <<>>
    /\ ret = "Ready"
    /\ top # Task
    /\ frames' = <<top>>
    /\ Loop(top, error)
    /\ UNCHANGED <<ret, top, caller, prev, bound, raised>>

TaskLeave ==
    /\ at = "polled"
    /\ frames = <<>>
    /\ ret # "Ready" \/ top = Task
    /\ at' = IF ret = "Ready" THEN "exited" ELSE "suspended"
    /\ raised' = IF top = Task /\ Task \in error THEN FALSE ELSE raised
    /\ UNCHANGED <<ret, top, caller, prev, bound, error, frames>>

-----------------------------------------------------------------------------
(* What user code in async_poll or handle_error of `a` may do last.  A       *)
(* handle_error that returns anything but Raise has handled the error.       *)

InUserCode(a) ==
    /\ frames # <<>>
    /\ a = Running
    /\ at = "body" \/ (at = "handle" /\ ~IsPaused(a))

Settled == raised' = (raised /\ at # "handle")

AsyncReturn(a) ==
    /\ InUserCode(a)
    /\ Polled(a, "Ready", caller[a], error)
    /\ Settled
    /\ UNCHANGED <<caller, prev>>

(* async_suspend or async_yield.                                             *)
AsyncSuspend(a) ==
    /\ InUserCode(a)
    /\ Polled(a, "Suspended", a, error)
    /\ Settled
    /\ UNCHANGED <<caller, prev>>

AsyncThrow(a) ==
    /\ InUserCode(a)
    /\ at = "body"
    /\ Polled(a, "Raise", a, error \cup {a})
    /\ raised' = TRUE
    /\ UNCHANGED <<caller, prev>>

(* An exception escapes from async_poll: run() stores it and leaves _top.    *)
CxxThrow(a) ==
    /\ InUserCode(a)
    /\ at = "body"
    /\ top # a => FirstThrows
    /\ Polled(a, "Raise", top, error \cup {a})
    /\ raised' = TRUE
    /\ UNCHANGED <<caller, prev>>

(* async_call of an awaitable that is not on the stack, or of a paused one.  *)
AsyncCall(a, b) ==
    /\ InUserCode(a)
    /\ b # a
    /\ b \in bound => IsPaused(b)
    /\ b \notin bound /\ IsPaused(b) => Reused
    /\ b \in Pausables /\ Len(frames) > 1 => PauseNested
    /\ caller' = [caller EXCEPT ![b] = a]
    /\ bound' = bound \cup {b}
    /\ frames' = Append(frames, b)
    /\ Loop(b, error)
    /\ Settled
    /\ UNCHANGED <<ret, top, prev>>

(* A mistaken async_pause that leaves its caller linked past it.             *)
AsyncPauseUnlinked(a) ==
    LET c == caller[a] IN
    /\ InUserCode(a)
    /\ a \in Pausables
    /\ prev' = [prev EXCEPT ![a] = caller[c]]
    /\ caller' = [caller EXCEPT ![a] = caller[c]]
    /\ top' = c
    /\ frames' = Front(frames)
    /\ at' = "polled"
    /\ ret' = "Ready"
    /\ Settled
    /\ UNCHANGED <<bound, error>>

(* async_pause: below the caller; run() returns Ready and does not finalize. *)
AsyncPause(a) ==
    LET c == caller[a] IN
    /\ InUserCode(a)
    /\ a \in Pausables
    /\ c # Task
    /\ IsPaused(c) => PauseOnPaused
    /\ prev' = [prev EXCEPT ![a] = caller[c]]
    /\ caller' = [caller EXCEPT ![c] = a, ![a] = caller[c]]
    /\ top' = c
    /\ frames' = Front(frames)
    /\ at' = "polled"
    /\ ret' = "Ready"
    /\ Settled
    /\ UNCHANGED <<bound, error>>

(* A mistaken error path that finalizes and does not tell the caller.        *)
PropagateSilent(a) ==
    /\ at = "handle"
    /\ a = Running
    /\ top' = caller[a]
    /\ bound' = bound \ {a}
    /\ frames' = Front(frames)
    /\ at' = "polled"
    /\ ret' = "Ready"
    /\ UNCHANGED <<caller, prev, error, raised>>

(* handle_error returns Raise, or Passthrough of a paused awaitable: the     *)
(* error goes to the caller.                                                 *)
Propagate(a) ==
    /\ at = "handle"
    /\ a = Running
    /\ error' = error \cup {caller[a]}
    /\ top' = caller[a]
    /\ bound' = bound \ {a}
    /\ frames' = Front(frames)
    /\ at' = "polled"
    /\ ret' = "Ready"
    /\ UNCHANGED <<caller, prev, raised>>

-----------------------------------------------------------------------------
(* MixinPausable::async_poll.                                                *)

(* Where a walk from a is after each step along link; it ends at the task.   *)
Steps == 0 .. Cardinality(Awaitables)

Walk(link, a) ==
    LET w[i \in Steps] ==
            IF i = 0 THEN a
            ELSE IF w[i - 1] \in Awaitables THEN link[w[i - 1]] ELSE w[i - 1]
    IN  w

Walked(link, a) == {Walk(link, a)[i] : i \in Steps} \cap Awaitables

(* Not paused: the body runs.                                                *)
PollFirst(p) ==
    /\ at = "poll"
    /\ p = Running
    /\ ~IsPaused(p)
    /\ at' = "body"
    /\ UNCHANGED <<ret, top, caller, prev, bound, error, frames, raised>>

(* Paused, and its caller has returned to it: it returns too.                *)
PollPaused(p) ==
    /\ at = "poll"
    /\ p = Running
    /\ IsPaused(p)
    /\ prev[p] = caller[p]
    /\ Polled(p, "Ready", caller[p], error)
    /\ UNCHANGED <<caller, prev, raised>>

(* Paused and called again: swap_awaitable takes it out of the stack below   *)
(* its new caller.  The walk ends at the awaitable that had it as caller;    *)
(* the _caller of the task is its entry, so without one it goes round.       *)
Reenter(p) ==
    LET w == Walk(caller, caller[p])
        above == {i \in Steps : w[i] \in Awaitables /\ caller[w[i]] = p}
    IN
    /\ at = "poll"
    /\ p = Running
    /\ IsPaused(p)
    /\ prev[p] # caller[p]
    /\ IF above = {}
       THEN /\ at' = "hung"
            /\ UNCHANGED <<caller, prev>>
       ELSE \E i \in above :
            /\ \A j \in above : i <= j
            /\ at' = "body"
            /\ caller' = [caller EXCEPT ![w[i]] = prev[p]]
            /\ prev' = [q \in Pausables |->
                          IF q = p THEN Null
                          ELSE IF i > 0 /\ q = w[i] THEN prev[p] ELSE prev[q]]
    /\ UNCHANGED <<ret, top, bound, error, frames, raised>>

-----------------------------------------------------------------------------
(* The loop.                                                                 *)

Resume ==
    /\ at = "suspended"
    /\ at' = "polled"
    /\ ret' = "Ready"
    /\ UNCHANGED <<top, caller, prev, bound, error, frames, raised>>

(* TaskQueue::cancel finalizes from _top down to the task.                   *)
Cancel ==
    LET unwound == Walked(caller, top) IN
    /\ at = "suspended"
    /\ at' = "exited"
    /\ top' = Task
    /\ bound' = bound \ unwound
    /\ error' = error \ unwound
    /\ raised' = FALSE
    /\ UNCHANGED <<ret, caller, prev, frames>>

Next ==
    \/ CalleeDone \/ TaskRun \/ TaskLeave \/ Resume \/ Cancel
    \/ \E a \in Awaitables :
        \/ AsyncReturn(a) \/ AsyncSuspend(a) \/ AsyncThrow(a) \/ CxxThrow(a)
        \/ AsyncPause(a) \/ Propagate(a)
        \/ \E b \in Awaitables : AsyncCall(a, b)
    \/ \E p \in Pausables : PollFirst(p) \/ PollPaused(p) \/ Reenter(p)

Spec == Init /\ [][Next]_vars

-----------------------------------------------------------------------------
(* Who the stack hangs from: the awaitable whose code runs, else _top.       *)
Current == IF at \in {"poll", "body", "handle"} THEN Running ELSE top

(* A paused awaitable has been called again and not been moved yet.          *)
Moving == at = "poll" /\ IsPaused(Running) /\ prev[Running] # caller[Running]

(* The stack is sound: from the awaitable that runs, or from _top, _caller   *)
(* leads to the task through every awaitable that was called and has not     *)
(* been finalized, n steps for n of them, so through no other and through    *)
(* none twice.  So every call is finalized when it leaves the stack, by      *)
(* return, error, pause or cancel, not before, and not again; and none is    *)
(* left when the task has exited.                                            *)
StackSound ==
    LET w == Walk(caller, Current)
        n == Cardinality(bound)
    IN
    at # "hung" /\ ~Moving => {w[i] : i \in 0 .. (n - 1)} = bound /\ w[n] = Task

(* An error is never dropped: until somebody has handled it, it is on its    *)
(* way down the stack, and the task does not exit as if nothing had happened.*)
RaisedIsKept == raised => error # {} \/ at = "handle"

(* What swap_awaitable is said to do, "Move this Awaitable to the top of     *)
(* call stack", it does: the walk comes to an end.                           *)
NeverHangs == at # "hung"

(* "we need a chance to finalize the Awaitable after the caller returns":    *)
(* the comment on async_pause has the paused awaitable finalized next, so    *)
(* nothing below it is finalized while it is on the stack.                   *)
PausedFinalizedFirst ==
    [][\A a \in bound \ bound' : a \notin Walked(caller', top')]_vars
=============================================================================
