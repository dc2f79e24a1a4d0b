------------------------------- MODULE MCData -------------------------------
(* The data structures, side by side: the ring of a Queue, the intrusive     *)
(* list, the lock-free ready list, buffers and their pools, owners of        *)
(* descriptors and objects, socket addresses, Optional and the Variants,     *)
(* Results, records and options. A behaviour is one of one part, chosen in   *)
(* the initial state; the variables of the other parts do not change.        *)
EXTENDS RingQueue, TLC

CONSTANTS
    Nodes, End, Null, PushEnds,                         \* LinkedList
    Threaded, Procs, Poppers,                           \* ReadyStack
    Bufs, Ptrs, Reqs, Tasks, Size, Configs, MaxCalls, NULL,     \* Buffers
    Slots, Objects, Kinds, Unborn,                      \* Owners
    Ports, Words, Wides,                                \* Address
    Types, Vals, Classes, None,                         \* Holders
    Ids,                                                \* Results
    Names, Hash, Args, Texts, Garbage, LongBits, IntBits, MaxArgs, Calls    \* Options

VARIABLES
    part,
    prev, succ, head, length, walk, at, unseen, pushEnd,
    top, below, owned, op,
    m, o, a, h, c, n

List == INSTANCE LinkedList WITH size <- length
Ready == INSTANCE ReadyStack WITH Nodes <- Threaded, head <- top, succ <- below
Pool == INSTANCE Buffers
Own == INSTANCE Owners
Addr == INSTANCE Address
Hold == INSTANCE Holders
Opt == INSTANCE Options
Res == INSTANCE Results

(* What the components tell apart.                                           *)
ASSUME DataAssumption == Res!Apart /\ Hold!Apart /\ Opt!ArgsApart /\ Own!Apart

listVars == <<prev, succ, head, length, walk, at, unseen, pushEnd>>
readyVars == <<top, below, owned, op>>

(* Reconfigured between a pool that reserves one buffer of at most two and   *)
(* one that reserves none and lends a single buffer.                         *)
MCConfigs == {<<1, 1>>, <<0, 0>>}

(* Two names with one hash, a secret, a list, and an unsigned number.        *)
MCHash == [level |-> 1, depth |-> 1, password |-> 2, peers |-> 3, size |-> 4]
MCArgs ==
    [level |-> [type |-> "int", secret |-> FALSE, default |-> 1, min |-> 0, max |-> 2],
     depth |-> [type |-> "int", secret |-> FALSE, default |-> 2, min |-> 1, max |-> 3],
     password |-> [type |-> "string", secret |-> TRUE, default |-> 1, min |-> 1, max |-> 4],
     peers |-> [type |-> "list", secret |-> FALSE, default |-> <<>>, min |-> 0, max |-> 2],
     size |-> [type |-> "size", secret |-> FALSE, default |-> 1, min |-> 1, max |-> 12]]

(* 3, that only one of the names with one hash may have, -1, a number too    *)
(* long for an int, and a word that says yes.                                *)
MCTexts == {[num |-> 3, yes |-> FALSE, len |-> 1], [num |-> -1, yes |-> FALSE, len |-> 2],
            [num |-> 10, yes |-> FALSE, len |-> 2], [num |-> Garbage, yes |-> TRUE, len |-> 5]}

Parts == {"ring", "list", "ready", "pool", "own", "addr", "hold", "opt", "res"}
Idle == "idle"

MCInit ==
    /\ part \in Parts
    /\ Init /\ Ready!Init /\ Addr!Init /\ Opt!Init /\ Res!Init
    /\ List!Init /\ (part # "list" => pushEnd = "front")
    /\ IF part = "pool" THEN Pool!Init ELSE m = Idle
    /\ IF part = "own" THEN Own!Init ELSE o = Idle
    /\ IF part = "hold" THEN Hold!Init ELSE h = Idle

MCNext ==
    \/ part = "ring" /\ Next /\ UNCHANGED <<part, listVars, readyVars, m, o, a, h, c, n>>
    \/ part = "list" /\ List!Next /\ UNCHANGED <<part, vars, readyVars, m, o, a, h, c, n>>
    \/ part = "ready" /\ Ready!Next /\ UNCHANGED <<part, vars, listVars, m, o, a, h, c, n>>
    \/ part = "pool" /\ Pool!Next /\ UNCHANGED <<part, vars, listVars, readyVars, o, a, h, c, n>>
    \/ part = "own" /\ Own!Next /\ UNCHANGED <<part, vars, listVars, readyVars, m, a, h, c, n>>
    \/ part = "addr" /\ Addr!Next /\ UNCHANGED <<part, vars, listVars, readyVars, m, o, h, c, n>>
    \/ part = "hold" /\ Hold!Next /\ UNCHANGED <<part, vars, listVars, readyVars, m, o, a, c, n>>
    \/ part = "opt" /\ Opt!Next /\ UNCHANGED <<part, vars, listVars, readyVars, m, o, a, h, n>>
    \/ part = "res" /\ Res!Next /\ UNCHANGED <<part, vars, listVars, readyVars, m, o, a, h, c>>

MCSpec == MCInit /\ [][MCNext]_<<part, vars, listVars, readyVars, m, o, a, h, c, n>>

(* Pointers, and requests, that the buffers do not tell apart.               *)
Symmetry == Permutations(Ptrs) \cup Permutations(Reqs)

(* The abstract list and the abstract stack; both are empty in a behaviour   *)
(* of another part.                                                          *)
AbstractList == INSTANCE NodeList
    WITH list <- IF part = "list" THEN List!Contents ELSE <<>>
AbstractStack == INSTANCE NodeStack
    WITH Nodes <- Threaded,
         stack <- IF part = "ready" THEN Ready!Linked ELSE <<>>,
         outside <- IF part = "ready" THEN owned \cup Ready!BeingPushed ELSE Threaded

(* List: every operation on the pointers is one of a list without            *)
(* repetition, or none; is_inserted() and _size tell the truth; for_each     *)
(* stands on no node that has left and misses none that stays (LinkedList).  *)
ListSound ==
    /\ AbstractList!Spec
    /\ [](part = "list" => List!MembershipExact /\ List!CursorValid)
    /\ List!VisitsAllFront

(* Ready list: it is a stack with atomic push and pop, whatever threads do   *)
(* between the load and the exchange of another (LinkedListThreadSafe).      *)
ImplementsStack == AbstractStack!Spec

(* Buffers: every buffer is in one place and counted, and its view stays     *)
(* inside its memory (BufferPool, PointerShared, BufferView).                *)
BuffersSound == part = "pool" => Pool!BuffersAccounted /\ Pool!ViewInMemory

(* Buffers: the pending list holds exactly the requests that wait, none of   *)
(* them in front of a buffer, and the pool keeps to its limit.               *)
PoolServes == part = "pool" => Pool!PendingRequestsAreServed /\ Pool!WithinLimit

(* Buffers: a buffer that changes hands shows nothing of its last user.      *)
RecycledBuffersAreEmpty == [][part = "pool" => Pool!Recycled]_m

(* Owners: an object lives as long as its references, none is forgotten or   *)
(* used after its end (IOHandle, PointerShared, the RAII classes).           *)
OwnersSound == part = "own" => Own!OwnersSound

(* Addresses: a call that succeeds leaves the address it was given with the  *)
(* length of its family, whatever was there before (AddressINet).            *)
AddressSound == Addr!AddressSound

(* Values: a holder has the value that assignments gave it, and no object is *)
(* used that is not there (Optional, VariantRecursive, VariantLookupTable);  *)
(* no outcome is lost unseen, none is missed that was seen (Result,          *)
(* ResultStrict).                                                            *)
HoldersSound == /\ part = "hold" => Hold!HoldersSound
                /\ part = "res" => Res!ResultsAreSeen

(* Options: an accepted call leaves every option valid, with the last value  *)
(* given in any call, and secrets unseen (parse_argv, apply_options).        *)
OptionsSound == Opt!OptionsSound
=============================================================================
