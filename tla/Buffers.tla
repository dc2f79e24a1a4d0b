------------------------------ MODULE Buffers -------------------------------
(* Buffers and buffer pools (buffer.hpp) with the counting pointer that owns *)
(* a buffer (pointer.hpp): BufferPool's reserve list, count of active        *)
(* buffers and list of pending requests; Allocate, the awaitable that waits  *)
(* for a buffer; TaskBufferred, a task that lives inside a buffer; and       *)
(* BufferView, the window of valid bytes of a buffer.                        *)
(*                                                                           *)
(* Everything happens on the thread of one task queue. The whole state is    *)
(* one record m, so that the calls an operation makes compose as functions   *)
(* from record to record: dropping a pointer may release a buffer, which may *)
(* hand it to a request, in one step of the program.                         *)
EXTENDS Integers, Sequences, SequencesExt, FiniteSets, FiniteSetsExt

CONSTANTS
    Bufs,       \* names of the memory blocks the provider may return
    Ptrs,       \* PointerShared objects of user code
    Reqs,       \* Allocate awaitables, each awaited by a task of its own
    Tasks,      \* TaskBufferred tasks
    Size,       \* BufferPool::_size
    Configs,    \* the <<reserve, limit>> pairs reconfigure is called with
    MaxCalls,   \* bound on the calls of reconfigure
    NULL

VARIABLE m

PtrSlots == Ptrs \cup Reqs \cup Tasks

(* _view = {_memory, _memory_size, 0, 0}: off is how far _memory was cut.    *)
Fresh == [off |-> 0, size |-> Size, begin |-> 0, end |-> 0]

----------------------------------------------------------------------------
(* BufferPool and PointerShared, as functions on the state.                  *)

(* A slip: memory->reset() is forgotten.                                     *)
HandOutStale(s, b) ==
    [s EXCEPT !.refc[b] = @ + 1, !.fatal = @ \/ s.refc[b] # 0]

(* fetch_add on a count that must have been zero, then the view is reset.    *)
HandOut(s, b) ==
    [s EXCEPT !.refc[b] = @ + 1, !.view[b] = Fresh,
              !.fatal = @ \/ s.refc[b] # 0]

(* BufferPool::release: the newest request is served, else the buffer goes   *)
(* to the reserve or back to the memory provider.                            *)
Release(s, b) ==
    IF s.pending # <<>>
    THEN LET r == Last(s.pending) IN
         [HandOut(s, b) EXCEPT !.pending = Front(@), !.pool[r] = FALSE,
                               !.ptr[r] = b, !.st[r] = "resumed"]
    ELSE IF Len(s.reserve) >= s.keep
         THEN [s EXCEPT !.live = @ \ {b}, !.active = @ - 1, !.view[b] = Fresh]
         ELSE [s EXCEPT !.reserve = <<b>> \o @]

(* PointerShared::unref: only the last reference clears the pointer.         *)
Unref(s, p) ==
    LET b == s.ptr[p] IN
    CASE b = NULL -> s
      [] b # NULL /\ s.refc[b] = 1 ->
            Release([s EXCEPT !.refc[b] = 0, !.ptr[p] = NULL], b)
      [] OTHER -> [s EXCEPT !.refc[b] = @ - 1, !.fatal = @ \/ s.refc[b] <= 0]

Ref(s, p) ==
    LET b == s.ptr[p] IN
    IF b = NULL THEN s
    ELSE [s EXCEPT !.refc[b] = @ + 1, !.fatal = @ \/ s.refc[b] <= 0]

Reset(s, p) == [Unref(s, p) EXCEPT !.ptr[p] = NULL]

(* A slip: the copy is not counted.                                          *)
CopyNoRef(s, p, q) == [Unref(s, p) EXCEPT !.ptr[p] = s.ptr[q]]

CopyAssign(s, p, q) == LET u == Unref(s, p)
                       IN Ref([u EXCEPT !.ptr[p] = u.ptr[q]], p)

MoveAssign(s, p, q) == LET u == Unref(s, p)
                       IN [u EXCEPT !.ptr[p] = u.ptr[q], !.ptr[q] = NULL]

(* _active_buffers > _limit, compared as size_t: -1 is no limit at all.      *)
OverLimit(s) == s.limit >= 0 /\ s.active > s.limit

(* MemoryAllocator::allocate_memory: the provider may have nothing to give.  *)
(* Which of the free blocks it gives makes no difference.                    *)
NewMemory(s) ==
    {NULL} \cup (IF Bufs = s.live THEN {} ELSE {CHOOSE b \in Bufs : b \notin s.live})

Adopt(s, b) == [s EXCEPT !.live = @ \cup {b}, !.active = @ + 1,
                         !.view[b] = Fresh, !.refc[b] = 0]

(* BufferPool::allocate: the possible results, as pairs state and buffer.    *)
AllocateResults(s) ==
    IF s.reserve # <<>>
    THEN {<<HandOut([s EXCEPT !.reserve = Tail(@)], Head(s.reserve)),
            Head(s.reserve)>>}
    ELSE {IF b = NULL THEN <<s, NULL>> ELSE <<HandOut(Adopt(s, b), b), b>> :
             b \in IF OverLimit(s) THEN {NULL} ELSE NewMemory(s)}

(* The two loops of reconfigure(): surplus reserve buffers are popped and    *)
(* released, missing ones are allocated, whatever the limit and whoever      *)
(* waits, until the provider fails (D may be smaller than what is missing).  *)
Shrink(s) ==
    FoldLeft(LAMBDA u, b : Release([u EXCEPT !.reserve = Tail(@)], b), s,
             SubSeq(s.reserve, 1, Len(s.reserve) - s.keep))

Grow(s, D) ==
    [FoldSet(LAMBDA b, u : Adopt(u, b), s, D)
        EXCEPT !.reserve = SetToSeq(D) \o @,
               !.grown = @ \/ (D # {} /\ s.pending # <<>>)]

----------------------------------------------------------------------------
(* Pools: construction, reconfigure, and a plain allocation into a pointer.  *)

Init ==
    \E c \in Configs, D \in SUBSET Bufs :
        /\ Cardinality(D) <= c[1]
        /\ m = Grow([keep |-> c[1], limit |-> c[2], active |-> 0, live |-> {},
                     reserve |-> <<>>, pending |-> <<>>, fatal |-> FALSE,
                     grown |-> FALSE, calls |-> 0,
                     refc |-> [b \in Bufs |-> 0], view |-> [b \in Bufs |-> Fresh],
                     ptr |-> [p \in PtrSlots |-> NULL],
                     pool |-> [r \in Reqs |-> FALSE],
                     st |-> [r \in Reqs |-> "idle"]], D)

Reconfigure ==
    /\ m.calls < MaxCalls
    /\ \E c \in Configs :
        LET s == Shrink([m EXCEPT !.keep = c[1], !.limit = c[2], !.calls = @ + 1])
        IN \E D \in SUBSET (Bufs \ s.live) :
            /\ Cardinality(D) <= s.keep - Len(s.reserve) \/ D = {}
            /\ m' = Grow(s, D)

(* A pointer is assigned the result of BufferAllocator::allocate.            *)
AllocateNow(p) ==
    \E res \in AllocateResults(m) :
        m' = [Unref(res[1], p) EXCEPT !.ptr[p] = res[2]]

(* TaskBufferred::allocate: no buffer, or one whose memory is not aligned    *)
(* for the task (cut fails on an empty view), and nothing is spawned.        *)
SpawnInBuffer(t) ==
    /\ m.ptr[t] = NULL
    /\ \E res \in AllocateResults(m) :
          LET held == [res[1] EXCEPT !.ptr[t] = res[2]]
          IN \/ m' = held
             \/ m' = Reset(held, t)

(* destroy_task: the buffer is released after the task's destructor.         *)
DestroyTask(t) == m' = Reset(m, t)

----------------------------------------------------------------------------
(* Allocate, awaited by a task.                                              *)

(* operator(): the pool is set and an old result dropped.                    *)
CallAllocate(r) ==
    /\ m.st[r] = "idle"
    /\ m' = Reset([m EXCEPT !.pool[r] = TRUE, !.st[r] = "called"], r)

(* A slip: a request that was cancelled stays in the list.                   *)
FinalizeKeeps(s, r) == [s EXCEPT !.pool[r] = FALSE, !.st[r] = "idle"]

(* async_finalize, on return and when the task is cancelled: the request is  *)
(* withdrawn unless release() has served it.                                 *)
Finalize(s, r) ==
    [s EXCEPT !.pending = IF s.pool[r] THEN SelectSeq(@, LAMBDA x : x # r) ELSE @,
              !.pool[r] = FALSE, !.st[r] = "idle"]

PollAllocate(r) ==
    /\ m.st[r] \in {"called", "resumed"}
    /\ \/ /\ m.ptr[r] # NULL
          /\ m' = Finalize(m, r)
       \/ /\ m.ptr[r] = NULL
          /\ \E res \in AllocateResults(m) :
                IF res[2] # NULL
                THEN m' = Finalize([res[1] EXCEPT !.ptr[r] = res[2]], r)
                ELSE m' = [m EXCEPT !.pending = Append(@, r), !.st[r] = "pending"]

(* The task is cancelled, also between release() and its next poll: the      *)
(* result stays in the awaitable until that is called again or destroyed.    *)
CancelAllocate(r) ==
    /\ m.st[r] # "idle"
    /\ m' = Finalize(m, r)

----------------------------------------------------------------------------
(* BufferView: each operation checks its argument and fails without effect.  *)
ViewStep(v, w) ==
    \/ w = [v EXCEPT !.begin = 0, !.end = v.size]               \* reset_full
    \/ w = [v EXCEPT !.begin = 0, !.end = 0]                    \* reset_empty
    \/ \E n \in 1 .. Size :
          \/ n <= v.size - v.begin /\ w = [v EXCEPT !.end = v.begin + n]
          \/ n <= v.begin /\ w = [off |-> v.off + n, size |-> v.size - n,
                                  begin |-> v.begin - n, end |-> v.end - n]
          \/ n <= v.size - v.end /\ w = [v EXCEPT !.end = @ + n]    \* commit
          \/ n <= v.end - v.begin /\ w = [v EXCEPT !.begin = @ + n] \* consume

Views == [off : 0 .. Size, size : 0 .. Size, begin : 0 .. Size, end : 0 .. 2 * Size]

UseView(p) ==
    /\ m.ptr[p] # NULL
    /\ \E w \in Views : /\ ViewStep(m.view[m.ptr[p]], w)
                        /\ m' = [m EXCEPT !.view[m.ptr[p]] = w]

----------------------------------------------------------------------------
Copy(p, q) == p # q /\ m' = CopyAssign(m, p, q)
Move(p, q) == m' = MoveAssign(m, p, q)
Drop(p) == m' = Reset(m, p)

Next ==
    \/ Reconfigure
    \/ \E p \in Ptrs : AllocateNow(p) \/ UseView(p) \/ Drop(p)
    \/ \E p, q \in Ptrs : Copy(p, q) \/ Move(p, q)
    \/ \E t \in Tasks : SpawnInBuffer(t) \/ DestroyTask(t)
    \/ \E r \in Reqs : \/ CallAllocate(r) \/ PollAllocate(r) \/ CancelAllocate(r)
                       \/ m.st[r] = "idle" /\ \E p \in Ptrs : Move(p, r)

Spec == Init /\ [][Next]_m

----------------------------------------------------------------------------
(* Every buffer taken from the provider is in exactly one place: referenced, *)
(* with a count equal to the number of pointers to it, or once in the        *)
(* reserve with a count of zero; _active_buffers counts them, so that        *)
(* ~BufferPool's assertion holds once the pointers are gone; no fatal error  *)
(* ("use after free", "double free") is reached.                             *)
BuffersAccounted ==
    /\ ~m.fatal
    /\ m.active = Cardinality(m.live)
    /\ IsInjective(m.reserve)
    /\ \A b \in Bufs :
          /\ m.refc[b] = Cardinality({p \in PtrSlots : m.ptr[p] = b})
          /\ (b \in m.live) <=> (m.refc[b] > 0 \/ b \in ToSet(m.reserve))
          /\ m.refc[b] = 0 \/ b \notin ToSet(m.reserve)

(* A buffer that changes hands through the pool shows nothing of its last    *)
(* user: its view is the whole memory, empty (BufferMemory::reset).          *)
Recycled ==
    \A b \in Bufs :
        (m.refc[b] = 0 /\ m'.refc[b] > 0)
            \/ (\E r \in Reqs : m.st[r] = "pending" /\ m'.ptr[r] = b)
        => m'.view[b] = Fresh

(* The window stays inside the memory the pool gave, also after cut: none of *)
(* the size_t differences in BufferView can wrap.                            *)
ViewInMemory ==
    \A b \in Bufs : LET v == m.view[b] IN
        v.begin <= v.end /\ v.end <= v.size /\ v.off + v.size = Size

(* The pending list holds exactly the suspended requests, none of which has  *)
(* a buffer already, and a buffer idles in the reserve while a request waits *)
(* only when reconfigure() grew the reserve behind the back of the request.  *)
PendingRequestsAreServed ==
    /\ ToSet(m.pending) = {r \in Reqs : m.st[r] = "pending"}
    /\ IsInjective(m.pending)
    /\ \A r \in ToSet(m.pending) : m.ptr[r] = NULL /\ m.pool[r]
    /\ m.pending # <<>> /\ m.reserve # <<>> => m.grown

(* The pool takes at most limit + 1 buffers from the provider, or the        *)
(* reserve if that is larger, and one reserve more for each reconfigure():   *)
(* the comparison with > and the loop that ignores the limit add no more.    *)
WithinLimit ==
    LET R == Max({c[1] : c \in Configs})
        L == Max({c[2] + 1 : c \in Configs})
    IN (\A c \in Configs : c[2] >= 0) => m.active <= Max({R, L}) + m.calls * R
============================================================================
