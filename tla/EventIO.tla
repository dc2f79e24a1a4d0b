------------------------------ MODULE EventIO -------------------------------
(* The event engine over libevent (libevent.hpp, libevent.cpp) and what      *)
(* waits on it: socket operations (AsyncIOCommon of posix.hpp), sleeps       *)
(* (AsyncSleep), name lookups (AsyncResolve of evdns.hpp) and signal         *)
(* callbacks of user code; with the loop that polls the engine and a thread  *)
(* that schedules tasks of the loop and wakes it.                            *)
(*                                                                           *)
(* The state is one record e. pc is the place of the loop: "run" in          *)
(* TaskQueue::run, "enter" at the call of poll, "clear" once the flags of    *)
(* event_base_loop are evaluated and before it clears event_break, "wait"    *)
(* inside it, "left" behind it.                                              *)
EXTENDS Integers, Sequences, SequencesExt, FiniteSets

CONSTANTS
    IOs,        \* socket operations, each awaited by a task of its own
    Ops,        \* the operations they may be
    Sleeps,     \* sleeps
    Lookups,    \* name lookups
    Plain,      \* tasks that wait for a thread (a lock, a queue)
    Signals,    \* signal handles of user code
    SignalKinds,\* what they may be: "simple", "functional"
    PollFlags,  \* the sets of flags poll() may be given: "NONBLOCK", "NO_EXIT_ON_EMPTY"
    Syscalls    \* what a system call may report: "ok", "again", "error", "intr"

VARIABLE e

Waiters == IOs \cup Sleeps \cup Lookups \cup Plain
Handles == IOs \cup Sleeps \cup Lookups \cup Signals

Init ==
  \E op \in [IOs -> Ops], kind \in [Signals -> SignalKinds], pf \in PollFlags :
    e = [op |-> op, kind |-> kind, pf |-> pf, pc |-> "run", flag |-> FALSE, nb |-> FALSE, brk |-> FALSE,
         fired |-> FALSE, raced |-> FALSE, stuck |-> FALSE, thread |-> "idle",
         task |-> [a \in Waiters |-> "idle"],
         done |-> [a \in Waiters |-> FALSE],
         connected |-> [a \in IOs |-> FALSE],
         flags |-> [a \in Handles |-> "none"],
         handle |-> [a \in Handles |-> "empty"],
         event |-> [a \in Handles |-> "none"],
         active |-> <<>>]

(* The operations and the event each one waits for, IOType of its class.     *)
DatagramAt == [accept |-> "readable", sendto |-> "writable", recvfrom |-> "readable"]
SocketAt == [recv |-> "readable", send |-> "writable"]
StreamAt == [read |-> "readable", write |-> "writable", readv |-> "readable"]
VectorAt == [writev |-> "writable", recvmsg |-> "readable", sendmsg |-> "writable"]
IOType(op) == IF op = "connect" THEN "writable"
              ELSE (DatagramAt @@ SocketAt @@ StreamAt @@ VectorAt)[op]

Ready == {a \in Waiters : e.task[a] = "ready"}

----------------------------------------------------------------------------
(* Handles: an Optional that holds the libevent event, its callback and a    *)
(* state; destroying the object deletes the event, active or not.            *)

EventDel(s, a) == [s EXCEPT !.event[a] = "none",
                            !.active = SelectSeq(@, LAMBDA x : x # a)]

ResetHandle(s, a) == [EventDel(s, a) EXCEPT !.handle[a] = "empty"]

(* EventDataIO, EventDataSimple, EventDataSimpleFunctional: emplaced Pending,*)
(* with its event assigned and added.                                        *)
Emplace(s, a) == [s EXCEPT !.handle[a] = "Pending", !.event[a] = "added"]

(* The add operations: the old object goes first, also in a callback.        *)
AddTimer(s, a) == Emplace(ResetHandle(s, a), a)
AddSignalSimple(s, a) == Emplace(ResetHandle(s, a), a)
AddSignalFunctional(s, a) == Emplace(ResetHandle(s, a), a)
AddIO(s, a, flags) == [Emplace(ResetHandle(s, a), a) EXCEPT !.flags[a] = flags]

(* The overloads of add_io for IOTypeRead, IOTypeWrite and both.             *)
AddIOTyped(s, a) == AddIO(s, a, IOType(e.op[a]))

AddSignalHandle(s, a) == IF e.kind[a] = "simple" THEN AddSignalSimple(s, a)
                         ELSE AddSignalFunctional(s, a)

(* The remove operations: while its callback runs the object is only marked, *)
(* and the callback's epilogue destroys it. remove_io, unlike the others,    *)
(* needs an object: its caller asks first.                                   *)
MarkOrReset(s, a) == IF s.handle[a] = "Running" THEN [s EXCEPT !.handle[a] = "Deleted"]
                     ELSE ResetHandle(s, a)

RemoveTimer(s, a) == IF s.handle[a] = "empty" THEN s ELSE MarkOrReset(s, a)
RemoveSignalSimple(s, a) == IF s.handle[a] = "empty" THEN s ELSE MarkOrReset(s, a)
RemoveSignalFunctional(s, a) == IF s.handle[a] = "empty" THEN s ELSE MarkOrReset(s, a)

RemoveIO(s, a) == MarkOrReset(s, a)

RemoveSignalHandle(s, a) == IF e.kind[a] = "simple" THEN RemoveSignalSimple(s, a)
                            ELSE RemoveSignalFunctional(s, a)

(* Loop::schedule: a task that is suspended becomes ready and the engine is  *)
(* woken; called by a callback, inside event_base_loop.                      *)
Wakeup(s) == [s EXCEPT !.flag = TRUE, !.brk = TRUE]

Resume(s, a) == IF s.task[a] = "suspended"
                THEN Wakeup([s EXCEPT !.task[a] = "ready"]) ELSE s

(* The epilogue of EventDataIO::callback and its two siblings.               *)
Epilogue(s, a) ==
    CASE s.handle[a] = "Deleted" -> ResetHandle(s, a)
      [] s.handle[a] = "Running" -> [s EXCEPT !.handle[a] = "Pending"]
      [] OTHER -> s

----------------------------------------------------------------------------
(* The callbacks: the state after the object's own callback and, inside it, *)
(* the body it was given.                                                    *)

Running(s, a) == [s EXCEPT !.handle[a] = "Running"]

IOCallback(s, a) == Resume(s, a)

TimerCallback(s, a) == Resume([RemoveTimer(s, a) EXCEPT !.done[a] = TRUE], a)

(* User code may remove its signal, add it again, or both, in its callback.  *)
SignalBodies(s, a) ==
    {s, RemoveSignalHandle(s, a), AddSignalHandle(s, a),
     AddSignalHandle(RemoveSignalHandle(s, a), a),
     RemoveSignalHandle(AddSignalHandle(s, a), a),
     RemoveSignalHandle(RemoveSignalHandle(s, a), a)}

EventDataIO(s, a) == {Epilogue(IOCallback(Running(s, a), a), a)}

EventDataSimple(s, a) ==
    {Epilogue(b, a) : b \in IF a \in Sleeps THEN {TimerCallback(Running(s, a), a)}
                            ELSE SignalBodies(Running(s, a), a)}

EventDataSimpleFunctional(s, a) == {Epilogue(b, a) : b \in SignalBodies(Running(s, a), a)}

(* AsyncResolve::callback: an answer without an address is fatal.            *)
LookupCallback(s, a) ==
    {[Resume(s, a) EXCEPT !.done[a] = TRUE, !.handle[a] = "answered"],
     [s EXCEPT !.stuck = TRUE]}

CallbackOf(s, a) ==
    CASE a \in IOs -> EventDataIO(s, a)
      [] a \in Lookups -> LookupCallback(s, a)
      [] a \in Signals /\ e.kind[a] = "functional" -> EventDataSimpleFunctional(s, a)
      [] OTHER -> EventDataSimple(s, a)

(* Libevent calls the first active callback unless the loop was broken; an   *)
(* event that is not persistent is deleted before its callback runs.         *)
Callback ==
    /\ e.pc = "wait" /\ ~e.brk /\ e.active # <<>>
    /\ LET a == Head(e.active)
       IN e' \in CallbackOf([EventDel(e, a) EXCEPT !.fired = TRUE], a)

----------------------------------------------------------------------------
(* The awaitables, polled by the loop when their task is ready.              *)

(* A slip: only a wait that has ended gives up its event.                    *)
FinalizeDone(s, a) ==
    [IF a \in Plain \/ ~s.done[a] THEN s ELSE ResetHandle(s, a)
        EXCEPT !.task[a] = "idle", !.done[a] = FALSE]

(* async_finalize: after a return or a throw, and when the task is           *)
(* cancelled. A lookup that was answered is cancelled all the same.          *)
FinalizeIO(s, a) == [IF s.handle[a] = "empty" THEN s ELSE ResetHandle(RemoveIO(s, a), a)
                        EXCEPT !.connected[a] = FALSE]
FinalizeSleep(s, a) == RemoveTimer(s, a)
FinalizeLookup(s, a) == ResetHandle(s, a)

Finalize(s, a) ==
    [CASE a \in IOs -> FinalizeIO(s, a) [] a \in Sleeps -> FinalizeSleep(s, a)
       [] a \in Lookups -> FinalizeLookup(s, a) [] a \in Plain -> s
        EXCEPT !.task[a] = "idle", !.done[a] = FALSE]

(* The awaitable is called; a lookup is sent to the resolver at once.        *)
StartLookup(s, a) == Emplace(s, a)

Start(a) ==
    /\ e.pc = "run" /\ e.task[a] = "idle"
    /\ LET s == [e EXCEPT !.task[a] = "ready", !.done[a] = FALSE]
       IN e' = IF a \in Lookups THEN StartLookup(s, a) ELSE s

(* do_io: connect() is called once, again when it is interrupted, and its    *)
(* outcome is read with getsockopt when the socket is writable.              *)
Connected(s, a) == [s EXCEPT !.connected[a] = e.op[a] = "connect"]

ConnectCall == Syscalls \ {"intr"}
ConnectOutcome == {"ok", "error"}
ReadWriteCall == Syscalls

DoIO(a) == IF e.op[a] # "connect" THEN ReadWriteCall
           ELSE IF e.connected[a] THEN ConnectOutcome ELSE ConnectCall

(* AsyncIOCommon::async_io: EINTR repeats the conversion of the old result   *)
(* for ever; EAGAIN registers the event, also a second time.                 *)
PollIO(a, res) ==
    CASE res \in {"ok", "error"} -> e' = Finalize(e, a)
      [] res = "again" ->
            e' = Connected([AddIOTyped(e, a) EXCEPT !.task[a] = "suspended"], a)
      [] res = "intr" -> e' = [e EXCEPT !.stuck = TRUE]

(* A slip: a sleep that is polled again does not set its timer again.        *)
PollSleepOnce(a) ==
    e' = IF e.done[a] THEN [e EXCEPT !.task[a] = "idle"]
         ELSE [e EXCEPT !.task[a] = "suspended"]

PollSleep(a) ==
    e' = IF e.done[a] THEN Finalize(e, a)
         ELSE [AddTimer(e, a) EXCEPT !.task[a] = "suspended"]

PollLookup(a) ==
    e' = IF e.done[a] \/ e.handle[a] = "empty" THEN Finalize(e, a)
         ELSE [e EXCEPT !.task[a] = "suspended"]

PollPlain(a) ==
    e' = IF e.done[a] THEN Finalize(e, a) ELSE [e EXCEPT !.task[a] = "suspended"]

RunTask(a) ==
    /\ e.pc = "run" /\ e.task[a] = "ready"
    /\ \/ a \in IOs /\ \E res \in DoIO(a) : PollIO(a, res)
       \/ a \in Sleeps /\ PollSleep(a)
       \/ a \in Lookups /\ PollLookup(a)
       \/ a \in Plain /\ PollPlain(a)

(* Another task cancels this one, suspended or already scheduled. The        *)
(* resolver reports a cancelled request too, without an address.             *)
Cancel(a) ==
    /\ e.pc = "run" /\ e.task[a] # "idle"
    /\ e' = [Finalize(e, a) EXCEPT !.stuck = a \in Lookups /\ ~e.done[a]]

AddSignal(g) == e.pc = "run" /\ e' = AddSignalHandle(e, g)
RemoveSignal(g) == e.pc = "run" /\ e' = RemoveSignalHandle(e, g)

----------------------------------------------------------------------------
(* The loop and poll().                                                      *)

(* The flags are set up before the loop runs.                                *)
NonBlocking == "NONBLOCK" \in e.pf
ExitOnEmpty == "NO_EXIT_ON_EMPTY" \notin e.pf

Idle == e.pc = "run" /\ Ready = {} /\ e' = [e EXCEPT !.pc = "enter"]

ReadFlags == e.pc = "enter" /\ e' = [e EXCEPT !.pc = "clear",
                                     !.nb = e.flag \/ NonBlocking]

EnterLoop == e.pc = "clear" /\ e' = [e EXCEPT !.pc = "wait", !.brk = FALSE,
                                              !.fired = FALSE]

(* A descriptor is ready for what its event waits for (the peer makes it so  *)
(* for the operation, never for the other direction), a timer expires, a     *)
(* signal or an answer arrives.                                              *)
Activate(a) ==
    /\ e.pc = "wait" /\ e.event[a] = "added"
    /\ a \in IOs => e.flags[a] = IOType(e.op[a])
    /\ e' = [e EXCEPT !.event[a] = "active", !.active = Append(@, a)]

(* A slip: a broken loop waits on.                                           *)
LeaveOnlyBroken ==
    /\ e.pc = "wait" /\ e.nb
    /\ e' = [e EXCEPT !.pc = "left", !.raced = FALSE]

(* EVLOOP_ONCE: out after the active callbacks, when broken, at once when    *)
(* not blocking or when no event is registered, unless it is told to stay.   *)
LeaveLoop ==
    /\ e.pc = "wait"
    /\ \/ e.brk
       \/ e.active = <<>> /\ \/ e.nb \/ e.fired
                             \/ ExitOnEmpty /\ \A a \in Handles : e.event[a] = "none"
    /\ e' = [e EXCEPT !.pc = "left", !.raced = FALSE, !.nb = FALSE,
                      !.fired = FALSE]

ClearFlags == e.pc = "left" /\ e' = [e EXCEPT !.pc = "run", !.flag = FALSE]

----------------------------------------------------------------------------
(* A thread gives a plain task what it waits for and schedules it: the push  *)
(* to the ready list, then the two assignments of wakeup(). A break between  *)
(* the evaluation of the flags and the start of the loop is lost.            *)

(* A slip: Loop::schedule does not wake the engine.                          *)
ThreadPushOnly(a) ==
    /\ e.thread = "idle" /\ e.task[a] = "suspended"
    /\ e' = [e EXCEPT !.task[a] = "ready", !.done[a] = TRUE]

ThreadPush(a) ==
    /\ e.thread = "idle" /\ e.task[a] = "suspended"
    /\ e' = [e EXCEPT !.task[a] = "ready", !.done[a] = TRUE, !.thread = "flag"]

ThreadFlag == e.thread = "flag" /\ e' = [e EXCEPT !.flag = TRUE, !.thread = "break"]

ThreadBreak ==
    /\ e.thread = "break"
    /\ e' = [e EXCEPT !.brk = TRUE, !.thread = "idle",
                      !.raced = @ \/ (e.pc = "clear" /\ ~e.nb)]

----------------------------------------------------------------------------
LoopStep ==
    \/ \E a \in Waiters : RunTask(a)
    \/ Idle \/ ReadFlags \/ EnterLoop \/ Callback \/ LeaveLoop \/ ClearFlags

Next ==
    /\ ~e.stuck
    /\ \/ LoopStep
       \/ \E a \in Waiters : Start(a) \/ Cancel(a)
       \/ \E a \in Handles : Activate(a)
       \/ \E g \in Signals : AddSignal(g) \/ RemoveSignal(g)
       \/ \E a \in Plain : ThreadPush(a)
       \/ ThreadFlag \/ ThreadBreak

(* The loop and the thread do not stop; nothing is said of the outside.      *)
Fairness == /\ WF_e(~e.stuck /\ LoopStep)
            /\ WF_e(~e.stuck /\ (ThreadFlag \/ ThreadBreak))

Spec == Init /\ [][Next]_e /\ Fairness

----------------------------------------------------------------------------
(* An event registered with libevent always has its handle behind it (the    *)
(* callback's argument), no handle is left Running or Deleted when its       *)
(* callback has returned, and a handle of an awaitable outlives its wait     *)
(* only until the next poll: cancelling a task with its event already active *)
(* takes the event out of the active queue.                                  *)
NoDanglingEvent ==
    /\ ToSet(e.active) = {a \in Handles : e.event[a] = "active"}
    /\ \A a \in Handles :
          /\ e.handle[a] \notin {"Running", "Deleted"}
          /\ e.event[a] # "none" => e.handle[a] = "Pending"
          /\ a \in Waiters /\ e.task[a] = "idle" => e.handle[a] = "empty"

(* A task suspended in a socket operation, a sleep or a lookup has an event  *)
(* that will resume it, for the direction the operation is blocked in; one   *)
(* whose sleep is over is no longer suspended, nor is a connect that has its *)
(* outcome to fetch ever issued again.                                       *)
SuspendedHasEvent ==
    e.stuck \/ \A a \in Waiters \ Plain :
        e.task[a] = "suspended" =>
            /\ e.event[a] # "none" /\ ~e.done[a]
            /\ a \in IOs => /\ e.flags[a] = IOType(e.op[a])
                            /\ e.connected[a] = (e.op[a] = "connect")

(* The loop blocks in event_base_loop with a task ready only when a wake-up  *)
(* fell between the evaluation of its flags and its start; every other       *)
(* wake-up, by a thread or by a callback, ends the wait.                     *)
BlocksOnlyWithoutWork ==
    e.pc = "wait" /\ Ready # {} /\ e.thread = "idle"
        => e.brk \/ e.nb \/ e.fired \/ e.raced

(* Every callback that is due runs, though each wake-up of a task breaks the *)
(* loop and leaves the rest of the active queue for the next poll, unless    *)
(* the tasks keep each other ready for ever and the loop never polls again,  *)
(* or a thread never ceases to break the loop before it calls back.          *)
(* Only EINTR or a lookup without an answer stops the program.               *)
DueCallbacksRun ==
    []<>(e.pc # "run") /\ <>[](e.thread = "idle") =>
        \A a \in Handles :
            e.event[a] = "active" ~> (e.event[a] # "active" \/ e.stuck)
============================================================================
