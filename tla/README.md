# A verification project for jinx

jinx is a C++ framework for asynchronous programs. Coroutines are written out
as objects (`Awaitable`) whose `async_poll` is called again and again; tasks run
them, a loop over an event engine runs tasks, and on top there are futures,
queues, locks, buffers, sockets, HTTP, TLS and DNS. This directory holds TLA+
models of that code, the TLC configurations that check them, and theorems with
proofs checked by TLAPS. `PROJECT.json` maps every definition to the lines it
models. Paths below are relative to the repository.

## 1. The system and its parts

| Part | State | Operations | Modelled by |
|---|---|---|---|
| Task queue and loop (`include/jinx/async/task.hpp`, `src/async.cpp`) | attached tasks, ready stack, per task `_state`, `_top`, `_error`, references; the locals of `run` | `spawn`, `schedule`, `Task::resume`, `run`, `cancel`, `pop`, `exit` | `TaskQueue` |
| Call stack (`async/awaitable.hpp`, `.ipp`, `async/pausable.hpp`, `src/async.cpp`) | `_top`, `_caller`, `_prev`, `_error`, activations of `run` on the C++ stack | `async_call`, `async_return`, `async_suspend`, `async_throw`, `async_pause`, re-entry, unwinding | `CallStack` |
| Wait (`async/pausable.hpp`) | a nested task queue, completed branches, the condition | `branch_create`, `task_queue_run`, `schedule`, `for_each`, finalize | `Wait` |
| Join (`async/awaitable.ipp`, `task.hpp`) | hooks between the entry of a task and the task | `AsyncJoin`, `add_hook`, `remove_hook` | `Join` |
| Intrusive list (`linkedlist.hpp`) | two pointers per node, sentinel, `_head`, `_size` | push and pop at either end, `erase`, `for_each`, `clear` | `LinkedList` |
| Lock-free list (`linkedlist.hpp`) | `_head`, `_next` | `push`, `pop` | `ReadyStack` |
| Lock (`lock.hpp`) | counter, waiters, mutex | `lock`, `unlock`, `AsyncLock` | `Lock` |
| Queue (`queue.hpp`) | container, waiting `Get`s and `Put`s | `Get`, `Put`, `reset` | `Queue`, `RingQueue` |
| Queue2 (`queue2.hpp`) | the same with callbacks | `get`, `put`, `reset`, public `emplace` and `pop` | `Queue2` |
| Buffers (`buffer.hpp`) | active count, reserve list, pending requests; view bounds | `allocate`, `release`, `reconfigure`; `commit`, `consume`, `cut` | `Buffers` |
| Owners (`pointer.hpp`, `raii.hpp`, `posix.hpp`, `libs/openssl`) | what a variable owns, references, open descriptors | construct, copy, move, assign, `reset`, `release` | `Owners` |
| Event engine (`libevent.hpp`, `src/libevent.cpp`) | handles (Pending, Running, Deleted), poll flags | add, remove, callbacks, `poll`, `wakeup` | `EventIO` |
| I/O, sleep, lookup (`posix.hpp`, `awaitable.hpp`, `libs/evdns`) | an operation in progress, its handle | poll, retry, callback, cancel | `EventIO` |
| Addresses (`posix.hpp`, `src/posix.cpp`) | one memory for two address families | `set_address`, `set_port`, `set_raw`, `compare`, `bind`, `get_peer_name` | `Address` |
| Socket streams (`streamsocket.hpp`) | the rest of a view, the connection | `read`, `write`, `shutdown` | `StreamSocket` |
| TLS (`libs/openssl`) | operations in progress, BIOs, pending callbacks, views | connect, accept, read, write, shutdown, reset | `Tls` |
| HTTP heads (`libs/http/.../http.hpp`) | parser state and view; builder buffer, flags | parse, read more; lines, fields, send | `HttpParser`, `HttpBuilder` |
| HTTP server and client (`webapp.hpp`, `client.hpp`) | buffers, page, connection state; the tree of pages | allocate, route, spawn, respond, redirect, error page, keep alive | `WebApp`, `WebRoute` |
| Value holders (`optional.hpp`, `variant.hpp`) | a tag and an object in raw memory | emplace, copy, move, `release`, compare, call | `Holders` |
| Results (`result.hpp`, `resultstrict.hpp`) | whether the value was looked at | construct, move, assign, `unwrap`, destroy | `Results` |
| Options (`record.hpp`, `argparse.hpp`, `src/argparse.cpp`) | records by hash | `apply_options`, `parse_argv`, visit | `Options` |

### How the parts interact

* A **task** runs its awaitable on top of the stack until it suspends, yields or
  exits. An awaitable that suspends has left a pointer to itself somewhere (a
  timer, a queue's list, a lock's list, another thread), and whoever completes
  it calls `async_resume`, hence `Task::resume`, hence `TaskQueue::schedule`.
* `schedule` may be called by **another thread** at any time. The protocol
  between it and the loop is the atomic `_state` of the task and the lock-free
  ready list; everything else belongs to the loop thread.
* **Cancellation** finalizes the awaitables on the stack at once, which take
  themselves out of lists and timers, and lets go of the task at once or, if it
  is in the ready list, when the loop gets to it.
* **Callbacks** of the event engine run inside `poll`, which `run` calls when it
  is idle and also between two polls of a task that yields.
* **Streams** put a view between an operation and its user: a socket fills it
  from the kernel, a `StreamBIO` from a transport that is a task of its own.
  The HTTP parser reads a stream into the view it parses; a WebApp calls the
  parser, its page and the builder on one stack.

### What is hard

Resumes from other threads between the loop's decision and its store; user code
that runs where the loop holds a task; cancellation of something that has been
completed and has not run yet; a stack that exists both as a list and on the
C++ stack; intrusive lists whose membership is two pointers; completion that is
passed on directly from one waiter to another; wake-ups that may be dropped;
objects in raw memory whose tag and life change in two steps; input cut at any
byte; errors that lead back to an earlier step. `PROJECT.json` lists these as
hazards, each at its line, with the properties that are about it.

### What makes each part correct

* Task queue: a task is run only while attached, alive and in no list; it is
  listed at most once; a Ready task is never forgotten; references are exact;
  listed tasks get their turn; every task follows the life cycle of `TaskLife`.
* Call stack: the linked stack is exactly the calls in progress; errors reach
  somebody; a paused awaitable is finalized before what lies below it.
* Wait and join: no branch is forgotten, a parent sleeps only while a branch can
  wake it, a Wait that returns has kept its condition; a join waits.
* Lists: a list without repetition; membership as told by the node is true;
  iteration visits what is there. The lock-free list is an atomic stack.
* Lock: one owner; the counter is the owner and the waiters; waiters have an
  owner to wait for; the lock makes progress.
* Queues: nobody waits for what is there; no value is lost or repeated; the limit
  holds; waiting `Put`s are served; Queue2 behaves as Queue.
* Buffers: each is in one place, counted, handed out empty, given to whoever
  waits; the view stays inside its memory.
* Owners, holders, results: what is owned ends once and not before; a holder has
  the value it was given; no result is lost unseen.
* Events: no callback without its handle; who sleeps has an event; the loop does
  not block with work to do; due callbacks run.
* Streams and TLS: bytes arrive complete and in order; callbacks find their
  operation; transfers end.
* HTTP: what is parsed does not depend on how the input arrives; a head that is
  sent is whole; one response per request; pages and slots fit; connections end.

## 2. Modules

| Module | What it is |
|---|---|
| `TaskQueue` | the scheduler, one action per step of the loop, call of user code or step of another thread |
| `TaskLife`, `TaskQueueLife` | abstract specification of the life of a task, and the refinement mapping |
| `TaskQueueProofs` | theorems about the three |
| `CallStack`, `Wait`, `Join`, `Lock`, `Queue`, `Queue2` | what tasks are made of and meet at |
| `LinkedList`, `NodeList` | the intrusive list by its pointers, and what it promises |
| `ReadyStack`, `NodeStack` | the lock-free list by its memory accesses, and what it promises |
| `RingQueue`, `Fifo` | the ring container, and what it promises |
| `Buffers`, `Owners`, `Address`, `Holders`, `Results`, `Options` | data with a life of its own |
| `EventIO`, `Tls`, `StreamSocket` | the event engine, and what waits on it or on streams |
| `HttpParser`, `HttpBuilder`, `WebRoute`, `WebApp` | HTTP |
| `MCTaskQueue`, `MCCallStack`, `MCLock`, `MCLinkedList` | single modules for TLC |
| `ListFacts`, `LockProofs`, `QueueProofs`, `CallStackProofs` | facts about sequences, and theorems about single modules |
| `AsyncProofs`, `DataProofs` | theorems about the parts of `MCAsync` and `MCData` |
| `MCData`, `MCAsync`, `MCNet` | several modules side by side: the variable `part` says which of them a behaviour is one of; the others do not move. Their properties are the conjunctions of what the parts promise |

`TaskQueue` takes the ready list to be an atomic stack, which is what `NodeStack`
says and `ReadyStack` is shown to implement for one popping thread. `Queue`,
`Lock`, `Wait` and `Buffers` take their lists to be sequences, which is what
`NodeList` says; `Queue` keeps, besides, whether `_head` is known, because
`for_each` depends on it. `HttpBuilder` is checked against `HttpParser`, which it
instantiates; `Queue2` extends `Queue` and is shown to take its steps.

The larger models keep their state in one record, so that the calls an operation
makes compose as functions from record to record: in `Buffers` dropping a pointer
may release a buffer, which may be handed to a request, all in one step.

### TaskQueue

`pc` is where the loop thread is: in the main program (`"main"`), at the head of
the outer loop, in a body, about to store the returned state, in `on_task_exit`,
in an idle poll, in the poll of a yield, about to schedule a yielded task. A step
ends where another thread could see the difference or where user code begins.
The body of a coroutine is what it may call: spawn, resume, cancel, drop a
handle; and what its poll returns. `Task::resume` on another thread takes up to
three steps: the exchange of `_state`, and the push or the restore of Exited.

The constants say which use of the queue an instance makes: which tasks yield,
resume themselves, are cancelled from callbacks or resumed by threads, and from
where the loop is exited. `Disciplined` names the use under which everything
holds; outside of it the code misbehaves, which the run `yield_cancel` shows for
its first part and section 3 tells for the others. `MaxRefc` bounds the
references that `task_create` of an attached task leaks.

### CallStack, Wait, Join

In `CallStack`, `frames` is the C++ stack, `caller` the linked one. One action
per way in which user code can end its poll, and per way in which `run` goes on.
Constants name three uses of pausable awaitables and one of exceptions that the
code mishandles; with all of them FALSE the stack is sound: a pausable that is
called again after it was finalized (`Reused`), one called from a nested
activation (`PauseNested`), one that pauses on top of a paused one
(`PauseOnPaused`), and C++ exceptions that escape from the first poll of a callee
(`FirstThrows`). `Walk` follows a chain of callers for as many steps as there are
awaitables; a chain that has not ended by then goes round.

`Wait` is one parent task with its nested queue: the branches run inside a poll
of the parent, a branch that yields polls the engine from there, and the Wait
pauses when its condition holds. `bound` is the reference every branch that has
run holds to its parent. `Join` has targets with chains of hooks and observers
that use their `AsyncJoin` again. Both reduce the loop to what decides: who is
ready, who runs, who sleeps.

### Lists, Lock, Queues

In `LinkedList`, `prev` and `succ` are the pointers; `pushEnd` says at which end
the list's user works, since no user mixes the two. In `ReadyStack` every load,
store and exchange is a step, and `compare_exchange_weak` may fail spuriously.
Relaxed memory orders are not modelled: the exchanges are on one location, and a
pushed node is published by a release.

In `Lock`, `unlock` is two steps, because it wakes a waiter before it unlinks it.
If the waiter is a thread that has gone on by then, its node was on its stack, and
what `pop_front` finds is arbitrary: `UnlockPop` then may leave a list that is
none, and no more is said of such a state. Of the loop the model keeps the window
between the return of `async_poll` and the store of Suspended.

In `Queue` a step is what a task does between two returns to the loop. `value`
holds what a `Put` brings or a completed `Get` has been given, `flying` what has
been handed over and not returned yet. `RingQueue` has the cells and the two ends
of the array container; `_begin` wraps at once and `_end` at the next `emplace`.

### Data

`Buffers`: everything on one thread, the reserve a stack, the pending list served
from its back. `Owners`: a behaviour is one of a single class; another thread
opens and closes descriptors, and the kernel hands out any free number, so that
the loop around `close()` can hit it. `Address`: the two structures share their
memory, so an address of one family leaves bytes in the other. `Holders`:
constructors may throw, and `want` is what a value would be. `Results`: `due` is
the flag `_empty`, negated, with the outcome it stands for. `Options`: a text is
the number it spells, whether it says yes, and its length; `unsigned long` and
`int` have few bits, so that the narrowing conversion happens.

### EventIO

The handles of one socket operation, one sleep, one lookup, a plain task and a
signal of user code, with the loop at the grain of `poll`: the evaluation of the
flags, the clearing of `event_break` inside `event_base_loop`, waiting, and
leaving are separate steps, since a thread's `wakeup` writes the flags and the
break in two steps of its own. libevent is external: an event becomes active,
`event_del` takes it out of the active queue, and a break ends the round of
callbacks. System calls return a result, EAGAIN or an error; `"intr"`, a result
of EINTR, is a value of `Syscalls` too, which the configurations leave out (see
section 3).

### Tls and StreamSocket

Two endpoints run scripts of TLS operations over `StreamBIO`s; two transports
carry the bytes, as the library's own test does. OpenSSL is external: an operation
is a sequence of flights that it sends and receives. Faults are protocol errors,
cancelled operations and resets of a BIO. `StreamSocket` is the same question for
a plain socket, whose kernel takes and gives any number of bytes.

### HTTP

`HttpParser` works on classes of bytes (a letter, blank, colon, CR, LF); the reads
of a behaviour cut the message anywhere, and the result must be that of one read.
`HttpBuilder` writes a head into memory that may be too small, and the parser must
read back what was written. `WebRoute` has the tree of pages, the router and the
two sizes the compiler computes, as recursive operators over the tree. `WebApp` is
server and client on one connection: heads are sequences of tokens, a page
answers, throws or redirects early or late, buffers are there or not, and the peer
may leave at any time.

## 3. Runs

Passing runs:

| Run | Instance | Shows |
|---|---|---|
| `data` | 4 ring cells; 4 list nodes used at the front or the back; 3 nodes and 3 threads on the ready list; 4 buffers, 2 pointers, 2 requests, 1 buffered task; 3 variables for owners, holders and results | ring, list and ready list implement their abstract specifications; buffers, owners, addresses, holders, results and options are sound |
| `loop` | 3 tasks, 1 resumes itself, 2 are cancelled by callbacks, exit from task, callback and main program | lists, references, life cycle; nothing stays listed, attached or referenced after an exit |
| `threads` | 2 tasks, 1 yields and is respawned while attached, 1 is resumed by 2 threads, fair loop | no Ready task is stranded under interleaved `Task::resume`; every listed task gets its turn |
| `async` | stack of 4 awaitables, 2 pausable; 3 tasks and 2 threads on a lock; 2 `Get`s, 3 `Put`s, 4 values, limit 2; 3 branches under each condition; 2 targets, 2 observers | stacks, lock, queues, waits and joins are sound, and whoever waits proceeds |
| `net` | one operation of each kind on the engine, under three sets of poll flags; two TLS endpoints; 6 bytes through a connection of 3; every field line of up to 4 bytes; trees of up to two levels; 9 requests | events, streams, heads, routes and the WebApp are sound, and exchanges end |

What the properties of the composed runs say, part by part, is written above each
of them in `MCData`, `MCAsync` and `MCNet`, and in full in the module of the part.

Runs that show a disagreement between the code and its own comments, assertions
or tests (the findings in `PROJECT.json` quote them):

| Run | What happens |
|---|---|
| `yield_cancel` | a callback cancels the task whose yield is being polled; the loop runs it and aborts |
| `pause_reused` | a pausable called again after its end makes `swap_awaitable` walk for ever |
| `list_back` | `for_each` over a list filled by `push_back` visits nothing |
| `lock_lost_wakeup` | an unlock between `try_lock` and the store of Suspended wakes nobody |
| `join_reused` | an `AsyncJoin` that is used again returns before its target has run |
| `keep_alive` | a connection that is kept alive is initialised without its buffers |
| `slots` | the slot array computed at compile time is too small for some trees |

The constants that describe use keep further sequences of calls out of the
passing runs that the code accepts and mishandles. Each is reproduced by changing
one constant of a passing run:

| Change | Property that breaks | What happens |
|---|---|---|
| `TaskQueue`: a task in `Yielders` and `SelfResumers` | `ReadyListSound` | a task that yields alone is run again with `_state` Yield (`task.hpp:442`), so a resume of the running task lists it |
| `TaskQueue`: two `Yielders` and a third task | `ReadyListDrains` | they alternate on top of the ready stack, though `task.hpp:497` says of a cancelled task "TaskQueue will pop it in next loop" |
| `TaskQueue`: a task in `Respawned` | `RefcExact` | `push` takes a reference before the insertion that fails (`task.hpp:387`), and `~TaskStatic` then stops the program |
| `TaskQueue`: `ThreadTargets` and `ExitFrom` both not empty | `ReadyListSound` | a thread pushes after `exit()` has drained the list |
| `CallStack`: `PauseNested` | `PausedFinalizedFirst` | a caller is finalized while it is on the stack (`async.cpp:85`) |
| `CallStack`: `PauseOnPaused` | `NeverHangs` | the next poll is taken for a re-entry (`pausable.hpp:85`) |
| `CallStack`: `FirstThrows` | `RaisedIsKept` | `run()` finalizes the error it has just stored (`async.cpp:66`), since the throwing callee is not the top yet |
| `Lock`: `CancelWoken` | `LockSound` | cancelling a waiter that has been given the lock wakes nobody (`lock.hpp:117`) |
| `ReadyStack`: two `Poppers` | `ImplementsStack` | a node popped and pushed again between load and exchange (`linkedlist.hpp:188`) |
| `EventIO`: `"intr"` in `Syscalls` | none: the properties excuse `e.stuck` | `convert_to_asyncio_error_code` repeats its test, not the call, and does not end (`libevent.hpp:346`) |

### What the properties leave room for

Where the code does something its reader may not expect, the model does it too and
the property says so:

* A pool of limit n lends n + 1 buffers, and `reconfigure` adds a reserve without
  looking at the limit or at waiting requests (`PoolServes`, `Buffers!WithinLimit`).
* A wake-up between the evaluation of the poll flags and the start of
  `event_base_loop` is lost (`BlocksOnlyWithoutWork`). A lookup that fails or is
  cancelled late ends the program, and answers of type AAAA are not asked for.
* An `IOHandle` whose `close()` is interrupted closes the same number again,
  which may be another thread's; `JINX_RAII_SHARED_OBJECT` assigned to itself uses
  a freed object (`OwnersSound`); OpenSSL objects, `Optional` and the variants
  assigned to themselves are empty afterwards.
* A failed `set_address` or `set_raw` leaves the family changed; two equal IPv6
  addresses never compare equal (`posix.hpp:466` asks for AF_INET twice);
  `bind(text)` ignores a text that is no address and binds one of length 0.
* Tags of holders are written before the constructor runs, so that one which
  throws leaves a tag without an object (`HoldersSound`); a `ResultStrict` that is
  assigned to drops what it held unseen (`ResultsAreSeen`).
* Values of a rejected call stay applied; a number too large for an int is
  narrowed before it is checked; a list that is given is always rejected; names
  with one hash share a record, and `apply_options` validates one of them before
  it applies the other, so that the value is within the bounds of the last one
  only (`OptionsSound`, `InBounds`).
* Joining a task that is over, or that is cancelled later, waits for ever
  (`WaitersProceed`). An observer cancelled while it waits is destroyed by the hook
  that runs on (`FirstJoinWaits`, `j.freed`).
* A branch resumes the parent wherever it waits, in other awaitables too, which
  are polled before their own event; a branch the program still holds keeps a
  reference to a parent that is gone (`WaitSound`).
* Queue2's owner can put and take behind the back of those who wait
  (`Queue2ActsAsQueue` speaks of the steps of `Get`s and `Put`s).
* A page that throws with part of its head written leaves that part in front of
  the error page; a client whose request is too large swallows the error and waits
  (`OneResponse`, `NetCompletes`). The page of the root is not counted in the size
  of the page buffer (`PagesFit`).
* A start line that is too short swallows the next line, and so does a field
  without a colon: `HeadsSound` says that the result is the same however the bytes
  arrive, not that it is right. A builder that has overflowed once fails for ever.

### Bounds

Two tasks show every interplay of a task with the loop and with itself; a third
is needed for stacking (a task between two others in the ready stack) and for an
exit that meets a listed, a suspended and a running one. Two threads are needed
for two resumes of one task to overlap; a third adds only another that loses the
exchange. Three nodes are a list with an inner node; a fourth is to be pushed.
Four awaitables give a stack with two inner ones, two pausables on the same stack,
and a caller above and below each. Three tasks and two threads on a lock are an
owner, one that is being woken, and waiters of both kinds. A queue of limit two
with three `Put`s can be full with two of them waiting. Three branches are one
that ends, one that waits and one that is ready. Two targets and two observers
give two hooks in one task and an `AsyncJoin` that moves from one to the other.
Four cells are enough for the ends of a ring to meet away from the ends of the
memory. Four buffers exceed every limit considered by more than one; `MaxCalls`
bounds `reconfigure`. Three variables allow for a source, a target and a
bystander. The memories of the parser are too small for some heads and large
enough for others, and so are those of the builder; reads of up to 3 bytes with
every cut cover a CR, LF and the byte that decides over folding in one, two and
three reads. `MaxHops`, `MaxFields`, `MaxArgs` and `Calls` bound repetition: two of
each, the second after a first that succeeded or failed. No state constraint is
used.

### Deadlock

TLC checks for deadlock in `loop`, `threads`, `lock_lost_wakeup` and `list_back`. In
the other runs a behaviour may end: a task that has exited, a head that was parsed,
a connection that was closed, a program that its own check has stopped. That nobody
waits for ever is what `WaitersProceed`, `NetCompletes` and `DueCallbacksRun` say.

### Fairness

* `TaskQueue!FairSpec`: the loop thread runs, so bodies return and polls end (a
  body that does not return blocks the program, and the code does not guard
  against it), and a thread inside `Task::resume` finishes. No fairness on user
  code: nobody has to resume, cancel, exit or call `run`.
* In the composed runs the fairness of a part is the antecedent of its property.
* `Lock!Fairness`: the loop and the threads run; whoever is inside gets its event
  and unlocks. Strong fairness on `Unlock` and on the event, since the mutex and
  the loop are shared and become free again and again. Nobody has to lock.
  `ProgressUnlessRaced` excuses only behaviours in which the list was destroyed or
  a wake-up was dropped, both of which the model lets happen.
* `Queue!Fairness`: the loop runs ready tasks, and `Get`s are called again and
  again. Nobody has to put.
* `Wait!Fairness`: the loop runs ready tasks, events come, and no branch suspends
  or yields for ever. `Join!Fairness`: the targets end, and the loop runs.
* `EventIO!Fairness`: the loop runs, and a thread finishes its `wakeup`; that the
  loop polls again and again, and that the thread is quiet in the end, are
  hypotheses of the property.
* `Tls!Fairness`, `StreamSocket!Fairness`: tasks that are ready run, the kernel
  moves what it can. `WebApp!Fairness`: server and client take their steps, and a
  shutdown that is tried again and again succeeds once, since the code retries it.

## 4. Proofs

Everything below is proved for every value of the constants that the named
assumptions admit, and for behaviours of any length.

**Task queue** (`TaskQueueProofs`)

* `TypeSafety`, `ReferencesExact`: the inductive invariant is `TypeInv`, that is
  `TypeOK`, that the loop's and threads' pointers are tasks, and that a task has
  at least the program's and the queue's reference, exactly these unless it was
  spawned while attached. It holds in any use.
* `SchedulerSafety` and its parts `ReadyTasksAreFound` and `ExitFindsTheTask`,
  `RunsOnlyLiveTasks`: in `Disciplined` use. The properties are not inductive:
  that a Ready task is not forgotten needs to know what the loop holds at each
  `pc` (`LoopInv`), what a thread between exchange and push relies on
  (`ThreadInv`), and which `_state` and `_top` go together (`TaskInv`). `IndInv`
  is their conjunction with the properties, and is proved action by action from
  `TypeInv`. `PushFacts` and `PopFacts` reduce the ready stack to the set of
  listed tasks and its injectivity.
* `Refinement`: in `Disciplined` use every step of the scheduler is a step of
  `TaskLife` or a stutter, action by action, from the same invariant; `MovesOne`
  says that a step which changes the phase of one task as the abstract action
  does is that action. TLC checks `LifeCycle` in `loop` only; with threads and
  yields it is what `Refinement` proves.

**Call stack** (`CallStackProofs`): `StackIsSound`, `ErrorsAreKept`, `WalksEnd`,
`FinalizedInOrder`, if none of the four uses that break the stack is made
(`UsedWell`). The invariant `CallInv` says without walking that a chain leads along
`_caller` through all bound awaitables, each once, to the task (`Stacked`); while a
paused awaitable that was called again waits to be moved, its old place is the one
in `_prev` (`Link`). It says besides how the chain and the C++ stack fit together,
and where an error is. A step changes few links, so each case gives the new chain.
That a walk of `Cardinality(Awaitables)` steps follows the chain is shown by
induction over the steps, in the form of sets of numbers (`LeastOf`, `AllOf`).

**Lock** (`LockProofs`, and for the composition `AsyncProofs`): `LockExclusion`,
`WaitersServed`, `LockIsSound`. The invariant counts claims: the counter is the
number of users that are inside or wait, but for one whose `unlock` is under way;
the list holds those that wait and have not been woken, and during an `unlock` the
woken one, which is the new owner, in front. It holds through the two steps of
`unlock` and with a destroyed list. `WaitersServed` and `LockIsSound` assume
`~CancelWoken`, as the run does.

**Queues** (`QueueProofs`, `AsyncProofs`): `QueueSafety`, `Queue2Safety`,
`Queue2Refines`, `QueuesAreSound`, `Queue2IsQueue`. `QueueInv` says that each list
holds exactly those that wait, once, that `Get`s and `Put`s do not wait together,
that a value is in one place, and that the limit holds. It is an invariant of both queues; `NoMissedMatch` is inductive with it for
`Queue`, and in `Queue2` fails only by the hand of the owner, which is why the
refinement is stated on the steps of `Get`s and `Put`s.

**Wait and join** (`AsyncProofs`): `WaitIsSound`, `FirstJoinIsKept`. `WaitInv`: the
lists hold each branch once and agree with what the branches are, a parent in its
Wait has a branch that is not over, and none is ready while it sleeps. `JoinInv`: a
hook belongs to one observer, which waits for that task or was cancelled while it
did; a hook that is done stays done, so only joins after the first return early.

**Data** (`DataProofs`), for the parts of `MCData`:

* `RingTypes`, `RingCells`, `RingIsFifo`: the ring keeps its types, its occupied
  cells are exactly the window from `_begin` of `_size` cells, and it implements
  `Fifo`. The strengthening is that `_end` is `_begin` plus `_size`, up to the wrap.
* `OwnersAreSound`: in `OwnInv` the references balance unless an owner of kind
  `"shared"` was assigned to itself, a descriptor has at most one reference, and
  none has the number that `reset` is closing; so what an interrupted `close` hits
  a second time belongs to the other thread. `Open` is the state between letting go
  of the old and taking the new, which all assignments share.
* `AddressesAreSound`: unless a call has failed since, the shared memory has the
  family, the length and the fields that the last successful call wrote.
* `HoldersAreSound`, `ResultsAreSound`: per variable, which tag goes with which
  object and which value.
* `OptionsAreSound`: a record has the type it was made with, and its value is that
  of the last text applied to its key or a default of an argument with that key;
  those validated are valid, but for the key that `apply_options` has just written.

`ListFacts` has what the proofs need of sequences: what removal, append and the
last and first elements do to the set of elements and to injectivity.

Assumptions, all of which TLC evaluates in the runs: `TaskAssumption`,
`UsageAssumption`, `StackAssumption` (the awaitables are finitely many, and are not
`Null`), `RingAssumption`, `AsyncAssumption` (tasks are not threads, `Get`s are not
`Put`s, both are finite) and `DataAssumption` (values that stand for "nothing" are
none of the others, classes and argument types are those of the code, variables are
finitely many). Hypotheses of theorems, which the runs satisfy: `Disciplined`,
`UsedWell`, `~CancelWoken`, `Respawned = {}`.

Attempts that failed for a good reason have corrected the models. `Options` said
that an accepted value is within the bounds of its argument: with `apply_options`
and a collision of hashes it is not, which the texts of the old instance had not
shown. `Put` of `Queue2`, `SetRaw`, `EqualRecursive` and `ReceiveResponse` had CASE
arms that overlapped, so that TLC took the first where TLA+ leaves the choice open.
In `Wait` an event could come for a parent that was not waiting for one.

Only model-checked:

* liveness: `ReadyListDrains`, `WaitersProceed`, `NetCompletes`, `DueCallbacksRun`,
  since the prover cannot handle fairness;
* `ListSound` and `ImplementsStack`, which follow pointers from node to node, by
  recursive functions of unbounded depth;
* `BuffersSound`, `PoolServes`, `RecycledBuffersAreEmpty`, because the loops of
  `reconfigure` are folds, whose induction theorems the provers cannot use;
* `HeadsSound` and `PagesFit`, whose modules have RECURSIVE operators;
* for now the rest of `MCNet`: events, streams, TLS and the WebApp.

## 5. Not modelled

* `error.hpp`, `exception.hpp`, `slice.hpp`, `hash.hpp`, `logging.hpp`, `meta.hpp`,
  `overload.hpp`: values, conversions, text and compile-time selection, without
  state. Hashes are taken to tell names apart, except in `Options`, where a
  collision is part of the instance.
* The wrapper of cJSON, and cJSON itself, which is vendored.
* USB, D-Bus and LDAP, which are named in the repository's README only.
* `Wait::cancel` of a single branch: it hands a task of the nested queue to the
  queue of the loop, whose `pop` erases it from a list it is not in
  (`pausable.hpp:306`); what the sizes of the two lists are then worth is not a
  question of states.
* `BufferPool::release` on a thread that is not the loop's: a data race on the
  list of pending requests (`buffer.hpp:482`).
* Relaxed memory orders; `_size` of the lock-free list.
* System calls that differ from those modelled only in their arguments (`readv`,
  `sendmsg`, socket options); OpenSSL's own state, certificates and contexts.
* Backtraces, the printing of records and usage, and the statistics of records.

## 6. Plan

Modelling: a pool that several threads return buffers to, over `ReadyStack` with
its counter; a WebApp over a TLS stream, composing `WebApp`, `Tls` and `Buffers`;
`Wait` over `TaskQueue` itself.

Proofs, in this order: `StreamSocket` (`StreamExact`), `Tls` (`BytesInOrder`,
`CallbackFindsOperation`) and `EventIO` (`NoDanglingEvent`, `SuspendedHasEvent`), in a
module that instantiates the three, since `MCNet` reaches RECURSIVE operators;
`Buffers` (`BuffersAccounted`, `PendingRequestsAreServed`), with the loops of
`reconfigure` written as steps; `ReadyStack`, that it implements `NodeStack` with one
popping thread.
