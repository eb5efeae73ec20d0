---------------------------- MODULE SurfaceTable ----------------------------
(***************************************************************************)
(* IOSurface (iokit/Kernel/arm/XZSSurface.cpp): surfaces with an id, a slot *)
(* of the global table and a user count; per-client references that map a   *)
(* surface; a pool of kept buffers; the account of wired bytes.             *)
(*                                                                         *)
(* sweet_surface_lock is never held across two of the steps below, so a     *)
(* section under it is one step.  A client's fLock is held across the       *)
(* freeing of a reference, so it is a variable.  A retain count is a number *)
(* as in the code: an object whose count reaches 0 is freed, whoever still   *)
(* uses it.                                                                 *)
(***************************************************************************)
EXTENDS Integers, FiniteSets

CONSTANTS
    Threads,    \* threads in calls of IOSurfaceRootUserClient
    Clients,    \* user clients
    Owners,     \* the assignments of threads to clients considered
    Surfaces,   \* SweetSurface objects
    Bufs,       \* IOBufferMemoryDescriptors
    None,
    MaxId,      \* SWEET_SURFACE_MAX_ID - 1
    Sizes,      \* allocSize values sweet_surface_layout may compute
    MinBig,     \* SWEET_SURFACE_MIN_BIG_ALLOC
    NumKept,    \* SWEET_SURFACE_NUM_KEPT
    WiredMax,   \* SWEET_SURFACE_WIRED_MAX
    MayFail     \* whether allocations, mappings and copy-outs may fail

Ids == 1 .. MaxId

ASSUME SurfaceAssumption ==
    /\ Owners \subseteq [Threads -> Clients]
    /\ IsFiniteSet(Threads) /\ IsFiniteSet(Clients) /\ IsFiniteSet(Bufs)
    /\ None \notin Threads \cup Surfaces \cup Bufs
    /\ MaxId \in Nat \ {0}
    /\ Sizes \subseteq Nat \ {0}
    /\ {MinBig, NumKept, WiredMax} \subseteq Nat
    /\ MayFail \in BOOLEAN

VARIABLES
    owner,      \* thread -> the client it calls; fixed
    table,      \* sweet_surface_table
    users,      \* sweet_surface_users
    nextId,     \* sweet_surface_next_id
    kept,       \* gSurfaceKept
    wired,      \* sweet_surface_wired
    obj,        \* surface -> life, retain count, id, allocSize and memory
    bufSize,    \* buffer -> its length, 0 when it does not exist
    pixels,     \* buffer -> the surface it was last drawn through, or None
    refs,       \* client -> surface -> count of its SweetSurfaceRef, 0 for none
    fLock,      \* client -> the thread in its lock across steps
    closed,     \* clients after clientClose
    ported,     \* surfaces some task holds a port for
    pc, sur, existing, then, got,   \* per thread: place, surface, addRef's
                                    \* flag, where a freed reference returns
                                    \* to, and the buffer create() has
    outer       \* thread -> the surface of the call whose undo is freeing a
                \* reference, or None

tableVars == <<table, users, nextId>>
memVars == <<kept, wired, bufSize, pixels>>
clientVars == <<refs, fLock, closed, ported>>
local == <<owner, sur, existing, then, got, outer>>
vars == <<tableVars, memVars, obj, clientVars, pc, local>>

NoObj == [life |-> "none", rc |-> 0, id |-> 0, size |-> 0, buf |-> None]

Init ==
    /\ owner \in Owners
    /\ table = [i \in Ids |-> None] /\ users = [i \in Ids |-> 0] /\ nextId = 1
    /\ kept = {} /\ wired = 0
    /\ obj = [s \in Surfaces |-> NoObj]
    /\ bufSize = [b \in Bufs |-> 0] /\ pixels = [b \in Bufs |-> None]
    /\ refs = [c \in Clients |-> [s \in Surfaces |-> 0]]
    /\ fLock = [c \in Clients |-> None]
    /\ closed = {} /\ ported = {}
    /\ pc = [t \in Threads |-> "idle"]
    /\ sur = [t \in Threads |-> None] /\ got = [t \in Threads |-> None]
    /\ outer = [t \in Threads |-> None]
    /\ existing = [t \in Threads |-> FALSE]
    /\ then = [t \in Threads |-> "idle"]

Goto(t, l) == pc' = [pc EXCEPT ![t] = l]
With(t, s) == sur' = [sur EXCEPT ![t] = s]

(* retain() and release().                                                 *)
Retained(s) == [obj EXCEPT ![s].rc = @ + 1]
Released(s) ==
    [obj EXCEPT ![s].rc = @ - 1,
                ![s].life = IF obj[s].rc = 1 THEN "dying" ELSE @]

(* Mutant: a kept buffer is freed as well.                                  *)
KeepBufferAndFree(s) ==
    /\ obj[s].life = "dying"
    /\ kept' = IF obj[s].buf # None /\ obj[s].size >= MinBig
                    /\ Cardinality(kept) < NumKept
               THEN kept \cup {obj[s].buf} ELSE kept
    /\ obj' = [obj EXCEPT ![s].life = "unwire"]
    /\ UNCHANGED <<tableVars, wired, bufSize, pixels, clientVars, pc, local>>

(***************************************************************************)
(* SweetSurface::free.  It runs on the thread that dropped the last retain; *)
(* nothing waits for it, so its steps are the object's own.                 *)
(***************************************************************************)
KeepBuffer(s) ==
    /\ obj[s].life = "dying"
    /\ IF obj[s].buf # None /\ obj[s].size >= MinBig /\ Cardinality(kept) < NumKept
       THEN /\ kept' = kept \cup {obj[s].buf}
            /\ obj' = [obj EXCEPT ![s] = NoObj]
       ELSE /\ obj' = [obj EXCEPT ![s].life = "unwire"]
            /\ UNCHANGED kept
    /\ UNCHANGED <<tableVars, wired, bufSize, pixels, clientVars, pc, local>>

(* Mutant: bytes are given back for memory that was never obtained.         *)
UnwireBufferAlways(s) ==
    /\ obj[s].life = "unwire"
    /\ wired' = wired - obj[s].size
    /\ bufSize' = [b \in Bufs |-> IF b = obj[s].buf THEN 0 ELSE bufSize[b]]
    /\ pixels' = [b \in Bufs |-> IF b = obj[s].buf THEN None ELSE pixels[b]]
    /\ obj' = [obj EXCEPT ![s] = NoObj]
    /\ UNCHANGED <<tableVars, kept, clientVars, pc, local>>

(* A surface that never got its memory has nothing to give back.            *)
UnwireBuffer(s) ==
    /\ obj[s].life = "unwire"
    /\ IF obj[s].buf = None
       THEN UNCHANGED <<wired, bufSize, pixels>>
       ELSE /\ wired' = wired - obj[s].size
            /\ bufSize' = [bufSize EXCEPT ![obj[s].buf] = 0]
            /\ pixels' = [pixels EXCEPT ![obj[s].buf] = None]
    /\ obj' = [obj EXCEPT ![s] = NoObj]
    /\ UNCHANGED <<tableVars, kept, clientVars, pc, local>>

(***************************************************************************)
(* create                                                                  *)
(***************************************************************************)
Calls(t) == pc[t] = "idle" /\ owner[t] \notin closed

CreateBegin(t, s, size) ==
    /\ Calls(t)
    /\ obj[s].life = "none"
    /\ obj' = [obj EXCEPT ![s] = [NoObj EXCEPT !.life = "live", !.rc = 1,
                                               !.size = size]]
    /\ With(t, s)
    /\ \/ Goto(t, IF size >= MinBig THEN "kept" ELSE "reserve")
       \/ Goto(t, "release")      \* sweet_surface_layout refuses
    /\ UNCHANGED <<tableVars, memVars, clientVars, owner, existing, then, got, outer>>

Fits(s) == {b \in kept : bufSize[b] = obj[s].size}

TakeKept(t) ==
    /\ pc[t] = "kept"
    /\ \/ \E b \in Fits(sur[t]) :
             /\ kept' = kept \ {b}
             /\ got' = [got EXCEPT ![t] = b]
             /\ Goto(t, "zero")
       \/ Fits(sur[t]) = {} /\ Goto(t, "reserve") /\ UNCHANGED <<kept, got>>
    /\ UNCHANGED <<tableVars, wired, bufSize, pixels, obj, clientVars, sur,
                   existing, then, owner, outer>>

(* OSAddAtomic64 first, the limit after it.                                *)
Reserve(t) ==
    /\ pc[t] = "reserve"
    /\ wired' = wired + obj[sur[t]].size
    /\ Goto(t, IF wired + obj[sur[t]].size <= WiredMax THEN "getBuf" ELSE "unreserve")
    /\ UNCHANGED <<tableVars, kept, bufSize, pixels, obj, clientVars, local>>

GetBuf(t) ==
    /\ pc[t] = "getBuf"
    /\ \/ \E b \in Bufs :
             /\ bufSize[b] = 0
             /\ bufSize' = [bufSize EXCEPT ![b] = obj[sur[t]].size]
             /\ got' = [got EXCEPT ![t] = b]
             /\ Goto(t, "zero")
       \/ MayFail /\ Goto(t, "unreserve") /\ UNCHANGED <<bufSize, got>>
    /\ UNCHANGED <<tableVars, kept, wired, pixels, obj, clientVars, sur,
                   existing, then, owner, outer>>

(* Mutant: the reservation of a failed create is not undone.                *)
UnreserveMissing(t) ==
    /\ pc[t] = "unreserve"
    /\ Goto(t, "release")
    /\ UNCHANGED <<tableVars, memVars, obj, clientVars, local>>

Unreserve(t) ==
    /\ pc[t] = "unreserve"
    /\ wired' = wired - obj[sur[t]].size
    /\ Goto(t, "release")
    /\ UNCHANGED <<tableVars, kept, bufSize, pixels, obj, clientVars, local>>

(* Mutant: memory from the pool is handed out as it is.                     *)
ZeroBufMissing(t) ==
    /\ pc[t] = "zero"
    /\ obj' = [obj EXCEPT ![sur[t]].buf = got[t]]
    /\ got' = [got EXCEPT ![t] = None]
    /\ Goto(t, "publish")
    /\ UNCHANGED <<tableVars, memVars, clientVars, sur, existing, then, owner, outer>>

ZeroBuf(t) ==
    /\ pc[t] = "zero"
    /\ pixels' = [pixels EXCEPT ![got[t]] = None]
    /\ obj' = [obj EXCEPT ![sur[t]].buf = got[t]]
    /\ got' = [got EXCEPT ![t] = None]
    /\ Goto(t, "publish")
    /\ UNCHANGED <<tableVars, kept, wired, bufSize, clientVars, sur, existing,
                   then, owner, outer>>

(* sweet_surface_insert_locked: the next free id, going round from nextId.  *)
Following(i) == IF i < MaxId THEN i + 1 ELSE 1
Distance(i) == (i - nextId) % MaxId
FreeIds == {i \in Ids : table[i] = None}
NextFree == CHOOSE i \in FreeIds : \A j \in FreeIds : Distance(i) <= Distance(j)

sweet_surface_publish(t) ==
    /\ pc[t] = "publish"
    /\ IF FreeIds = {}
       THEN /\ Goto(t, "release")
            /\ UNCHANGED <<tableVars, obj>>
       ELSE LET i == NextFree IN
            /\ table' = [table EXCEPT ![i] = sur[t]]
            /\ users' = [users EXCEPT ![i] = 1]
            /\ nextId' = Following(i)
            /\ obj' = [obj EXCEPT ![sur[t]].id = i, ![sur[t]].rc = @ + 1]
            /\ Goto(t, "addRef")
    /\ UNCHANGED <<memVars, clientVars, local>>

(***************************************************************************)
(* Lookup, LookupFromPort, CreatePort and kernel uses by id.               *)
(***************************************************************************)
(* sweet_surface_copy, for a lookup or for a use that ends with a release:  *)
(* present(), a blit, an attachment, a trap.                                *)
sweet_surface_copy(t, i, purpose) ==
    /\ Calls(t)
    /\ table[i] # None
    /\ obj' = Retained(table[i])
    /\ With(t, table[i])
    /\ Goto(t, purpose)
    /\ UNCHANGED <<tableVars, memVars, clientVars, owner, existing, then, got, outer>>

LookupFromPort(t, s) ==
    /\ Calls(t)
    /\ s \in ported
    /\ obj' = Retained(s)
    /\ With(t, s)
    /\ Goto(t, "get")
    /\ UNCHANGED <<tableVars, memVars, clientVars, owner, existing, then, got, outer>>

(* The port retains the surface as long as a task has a right to it.        *)
CreatePort(t) ==
    /\ pc[t] = "port"
    /\ ported' = ported \cup {sur[t]}
    /\ obj' = IF sur[t] \in ported THEN obj ELSE Retained(sur[t])
    /\ Goto(t, "release")
    /\ UNCHANGED <<tableVars, memVars, refs, fLock, closed, local>>

PortGone(s) ==
    /\ s \in ported
    /\ ported' = ported \ {s}
    /\ obj' = Released(s)
    /\ UNCHANGED <<tableVars, memVars, refs, fLock, closed, pc, local>>

(* Mutant: a surface takes its old id back from whoever has it now.         *)
sweet_surface_getReplaces(t) ==
    /\ pc[t] = "get"
    /\ LET s == sur[t]
           i == obj[s].id
       IN  IF table[i] = s
           THEN users' = [users EXCEPT ![i] = @ + 1] /\ UNCHANGED <<table, obj>>
           ELSE /\ table' = [table EXCEPT ![i] = s]
                /\ users' = [users EXCEPT ![i] = 1]
                /\ obj' = Retained(s)
    /\ Goto(t, "addRef")
    /\ UNCHANGED <<nextId, memVars, clientVars, local>>

sweet_surface_get(t) ==
    /\ pc[t] = "get"
    /\ LET s == sur[t]
           i == obj[s].id
       IN  \/ /\ table[i] = s
              /\ users' = [users EXCEPT ![i] = @ + 1]
              /\ Goto(t, "addRef")
              /\ UNCHANGED <<table, obj>>
           \/ /\ table[i] = None
              /\ table' = [table EXCEPT ![i] = s]
              /\ users' = [users EXCEPT ![i] = 1]
              /\ obj' = Retained(s)
              /\ Goto(t, "addRef")
           \/ /\ table[i] \notin {s, None}
              /\ Goto(t, "release")
              /\ UNCHANGED <<table, users, obj>>
    /\ UNCHANGED <<nextId, memVars, clientVars, local>>

(* Mutant: the table's retain is not dropped with the last user.            *)
sweet_surface_putKeeps(t, l) ==
    LET s == sur[t]
        i == obj[s].id
    IN  /\ IF table[i] = s
           THEN /\ users' = [users EXCEPT ![i] = @ - 1]
                /\ table' = [table EXCEPT ![i] = IF users[i] = 1 THEN None ELSE s]
           ELSE UNCHANGED <<users, table>>
        /\ Goto(t, l)
        /\ UNCHANGED <<nextId, obj>>

(* Drop a user, then go on at `l`.  The table's retain goes with the last    *)
(* user; every caller still has one of its own, so it is never the last.    *)
sweet_surface_put(t, l) ==
    LET s == sur[t]
        i == obj[s].id
    IN  /\ IF table[i] = s
           THEN /\ users' = [users EXCEPT ![i] = @ - 1]
                /\ table' = [table EXCEPT ![i] = IF users[i] = 1 THEN None ELSE s]
                /\ obj' = IF users[i] = 1 THEN Released(s) ELSE obj
           ELSE UNCHANGED <<users, table, obj>>
        /\ Goto(t, l)
        /\ UNCHANGED nextId

(* What each of these calls ends with.                                     *)
ReleaseSurface(t) ==
    /\ pc[t] \in {"release", "use"}
    /\ obj' = Released(sur[t])
    /\ With(t, None)
    /\ Goto(t, "idle")
    /\ UNCHANGED <<tableVars, memVars, clientVars, owner, existing, then, got, outer>>

(***************************************************************************)
(* addRef, by the thread that has a user count on its surface               *)
(***************************************************************************)
Unlocked(t) == fLock[owner[t]] = None
Ref(t) == refs[owner[t]][sur[t]]

FindExisting(t) ==
    /\ pc[t] = "addRef" /\ Unlocked(t)
    /\ existing' = [existing EXCEPT ![t] = Ref(t) > 0]
    /\ Goto(t, IF Ref(t) > 0 THEN "putExisting" ELSE "allocRef")
    /\ UNCHANGED <<tableVars, memVars, obj, clientVars, sur, then, got, owner, outer>>

PutExisting(t) ==
    /\ pc[t] = "putExisting"
    /\ sweet_surface_put(t, "fill")
    /\ UNCHANGED <<memVars, clientVars, local>>

AllocRef(t) ==
    /\ pc[t] = "allocRef"
    /\ \/ /\ obj' = Retained(sur[t])
          /\ Goto(t, "map")
          /\ UNCHANGED tableVars
       \/ /\ MayFail
          /\ sweet_surface_put(t, "release")
    /\ UNCHANGED <<memVars, clientVars, local>>

(* Outside the lock; a reference that cannot be mapped is freed again.      *)
MapRef(t) ==
    /\ pc[t] = "map"
    /\ \/ Goto(t, "insert") /\ UNCHANGED then
       \/ MayFail /\ Goto(t, "unmap") /\ then' = [then EXCEPT ![t] = "release"]
    /\ UNCHANGED <<tableVars, memVars, obj, clientVars, sur, existing, got,
                   owner, outer>>

InsertRef(t) ==
    /\ pc[t] = "insert" /\ Unlocked(t)
    /\ refs' = [refs EXCEPT ![owner[t]][sur[t]] = @ + 1]
    /\ IF Ref(t) > 0        \* raced: counted there, ours is freed
       THEN Goto(t, "unmap") /\ then' = [then EXCEPT ![t] = "fill"]
       ELSE Goto(t, "fill") /\ UNCHANGED then
    /\ UNCHANGED <<tableVars, memVars, obj, fLock, closed, ported, sur,
                   existing, got, owner, outer>>

(* The answer; when it cannot be copied out, trapRelease(s->id).            *)
FillResult(t) ==
    /\ pc[t] = "fill"
    /\ \/ Goto(t, "release")
       \/ MayFail /\ ~existing[t] /\ Goto(t, "undo")
    /\ existing' = [existing EXCEPT ![t] = FALSE]
    /\ UNCHANGED <<tableVars, memVars, obj, clientVars, sur, then, got, owner, outer>>

(***************************************************************************)
(* SweetSurfaceRef::free                                                   *)
(***************************************************************************)
UnmapRef(t) ==
    /\ pc[t] = "unmap"
    /\ Goto(t, "put")
    /\ UNCHANGED <<tableVars, memVars, obj, clientVars, local>>

PutRef(t) ==
    /\ pc[t] = "put"
    /\ sweet_surface_put(t, "relRef")
    /\ UNCHANGED <<memVars, clientVars, local>>

ReleaseRef(t) ==
    /\ pc[t] = "relRef"
    /\ obj' = Released(sur[t])
    /\ Goto(t, then[t])
    /\ then' = [then EXCEPT ![t] = "idle"]
    /\ UNCHANGED <<tableVars, memVars, clientVars, sur, existing, got, owner, outer>>

(***************************************************************************)
(* trapRelease, as a trap or as returnSurface's undo, and clientClose.      *)
(***************************************************************************)
(* DropCount for surface s; the last one removes the reference and frees it *)
(* inside the lock.                                                         *)
DropCount(t, s, after, unlock) ==
    LET c == owner[t] IN
    /\ refs' = [refs EXCEPT ![c][s] = @ - 1]
    /\ IF refs[c][s] = 1
       THEN /\ fLock' = [fLock EXCEPT ![c] = t]
            /\ then' = [then EXCEPT ![t] = unlock]
            /\ Goto(t, "unmap")
       ELSE /\ Goto(t, after)
            /\ UNCHANGED <<fLock, then>>

trapRelease(t, s) ==
    /\ Calls(t) /\ Unlocked(t)
    /\ refs[owner[t]][s] > 0
    /\ DropCount(t, s, "idle", "unlock")
    /\ With(t, IF refs[owner[t]][s] = 1 THEN s ELSE None)
    /\ UNCHANGED <<tableVars, memVars, obj, closed, ported, existing, got,
                   owner, outer>>

(* The references findRef may return for the id the undo passes.  Another    *)
(* thread may have released the call's own in the meantime, and the id be    *)
(* that of another surface the client has: its reference is the one dropped. *)
findRef(t) == {s \in Surfaces : refs[owner[t]][s] > 0 /\ obj[s].id = obj[sur[t]].id}

UndoRelease(t) ==
    /\ pc[t] = "undo" /\ Unlocked(t)
    /\ \/ \E s \in findRef(t) :
             /\ DropCount(t, s, "release", "unlockUndo")
             /\ IF refs[owner[t]][s] = 1
                THEN With(t, s) /\ outer' = [outer EXCEPT ![t] = sur[t]]
                ELSE UNCHANGED <<sur, outer>>
       \/ /\ findRef(t) = {}
          /\ Goto(t, "release")
          /\ UNCHANGED <<refs, fLock, then, sur, outer>>
    /\ UNCHANGED <<tableVars, memVars, obj, closed, ported, existing, got, owner>>

(* A trap is over with its reference; an undo goes on with its own surface.  *)
UnlockClient(t) ==
    /\ pc[t] \in {"unlock", "unlockUndo"}
    /\ fLock' = [fLock EXCEPT ![owner[t]] = None]
    /\ With(t, outer[t])
    /\ outer' = [outer EXCEPT ![t] = None]
    /\ Goto(t, IF pc[t] = "unlock" THEN "idle" ELSE "release")
    /\ UNCHANGED <<tableVars, memVars, obj, refs, closed, ported, existing,
                   then, got, owner>>

Others(t) == {u \in Threads \ {t} : owner[u] = owner[t]}

(* clientClose, or, once no call is left inside, the client's own free().   *)
CloseBegin(t) ==
    LET c == owner[t] IN
    /\ pc[t] = "idle" /\ Unlocked(t)
    /\ \/ c \notin closed
       \/ (\E s \in Surfaces : refs[c][s] > 0) /\ \A u \in Others(t) : pc[u] = "idle"
    /\ closed' = closed \cup {c}
    /\ fLock' = [fLock EXCEPT ![c] = t]
    /\ Goto(t, "flush")
    /\ UNCHANGED <<tableVars, memVars, obj, refs, ported, local>>

(* flushCollection frees the references one by one, whatever their count.   *)
FlushRef(t, s) ==
    LET c == owner[t] IN
    /\ pc[t] = "flush" /\ refs[c][s] > 0
    /\ refs' = [refs EXCEPT ![c][s] = 0]
    /\ With(t, s)
    /\ then' = [then EXCEPT ![t] = "flush"]
    /\ Goto(t, "unmap")
    /\ UNCHANGED <<tableVars, memVars, obj, fLock, closed, ported, existing,
                   got, owner, outer>>

FlushEnd(t) ==
    /\ pc[t] = "flush" /\ \A s \in Surfaces : refs[owner[t]][s] = 0
    /\ Goto(t, "unlock")
    /\ UNCHANGED <<tableVars, memVars, obj, clientVars, local>>

(* A new client in the place of one that is gone.                          *)
Reopen(c) ==
    /\ c \in closed
    /\ \A t \in Threads : owner[t] = c => pc[t] = "idle"
    /\ \A s \in Surfaces : refs[c][s] = 0
    /\ closed' = closed \ {c}
    /\ UNCHANGED <<tableVars, memVars, obj, refs, fLock, ported, pc, local>>

(* A client draws through a mapping it has.                                *)
DrawThrough(c, s) ==
    /\ refs[c][s] > 0
    /\ pixels' = [pixels EXCEPT ![obj[s].buf] = s]
    /\ UNCHANGED <<tableVars, kept, wired, obj, bufSize, clientVars, pc, local>>

-----------------------------------------------------------------------------
Call(t) ==
    \/ \E s \in Surfaces, size \in Sizes : CreateBegin(t, s, size)
    \/ \E i \in Ids, purpose \in {"get", "use", "port"} :
          sweet_surface_copy(t, i, purpose)
    \/ \E s \in Surfaces : LookupFromPort(t, s) \/ trapRelease(t, s)
    \/ CloseBegin(t)

Continue(t) ==
    \/ TakeKept(t) \/ Reserve(t) \/ GetBuf(t) \/ Unreserve(t) \/ ZeroBuf(t)
    \/ sweet_surface_publish(t) \/ CreatePort(t) \/ sweet_surface_get(t)
    \/ ReleaseSurface(t) \/ FindExisting(t) \/ PutExisting(t) \/ AllocRef(t)
    \/ MapRef(t) \/ InsertRef(t) \/ FillResult(t) \/ UnmapRef(t) \/ PutRef(t)
    \/ ReleaseRef(t) \/ UndoRelease(t) \/ UnlockClient(t) \/ FlushEnd(t)
    \/ \E s \in Surfaces : FlushRef(t, s)

FreeSurface(s) == KeepBuffer(s) \/ UnwireBuffer(s)

Next ==
    \/ \E t \in Threads : Call(t) \/ Continue(t)
    \/ \E s \in Surfaces : FreeSurface(s) \/ PortGone(s)
    \/ \E c \in Clients : Reopen(c) \/ \E s \in Surfaces : DrawThrough(c, s)

Spec == Init /\ [][Next]_vars

-----------------------------------------------------------------------------
Lives == {"none", "live", "dying", "unwire"}
Places == {"idle", "kept", "reserve", "getBuf", "unreserve", "zero", "publish",
           "get", "use", "port", "addRef", "putExisting", "allocRef", "map",
           "insert", "fill", "undo", "unmap", "put", "relRef", "release",
           "unlock", "unlockUndo", "flush"}

(* Type invariant; counts and the wired account never go below zero.        *)
TypeOK ==
    /\ owner \in Owners
    /\ table \in [Ids -> Surfaces \cup {None}]
    /\ users \in [Ids -> Nat] /\ nextId \in Ids
    /\ kept \subseteq Bufs /\ wired \in Nat
    /\ obj \in [Surfaces -> [life : Lives, rc : Nat, id : 0 .. MaxId,
                             size : Nat, buf : Bufs \cup {None}]]
    /\ bufSize \in [Bufs -> Nat] /\ pixels \in [Bufs -> Surfaces \cup {None}]
    /\ refs \in [Clients -> [Surfaces -> Nat]]
    /\ fLock \in [Clients -> Threads \cup {None}]
    /\ closed \subseteq Clients /\ ported \subseteq Surfaces
    /\ pc \in [Threads -> Places]
    /\ sur \in [Threads -> Surfaces \cup {None}]
    /\ existing \in [Threads -> BOOLEAN] /\ then \in [Threads -> Places]
    /\ got \in [Threads -> Bufs \cup {None}]
    /\ outer \in [Threads -> Surfaces \cup {None}]

(***************************************************************************)
(* Who counts as a user of s: references of clients, references being made  *)
(* or freed, and calls that have not handed their count over yet.           *)
(***************************************************************************)
ThreadsAt(s, places) == {t \in Threads : sur[t] = s /\ pc[t] \in places}
RefHolders(s) == {c \in Clients : refs[c][s] > 0}
UserPlaces == {"addRef", "putExisting", "allocRef", "map", "insert", "unmap", "put"}
UserCount(s) == Cardinality(RefHolders(s)) + Cardinality(ThreadsAt(s, UserPlaces))

(***************************************************************************)
(* "the table holds one retain and a user count (creators, client           *)
(* mappings, kernel holders)" (XZSSurface.cpp 152-153): the count is exact, *)
(* a surface is in the table under its id exactly while it has a user, and   *)
(* so none is leaked there and none with users can be replaced.             *)
(***************************************************************************)
UsersCounted ==
    /\ \A i \in Ids : table[i] # None =>
          /\ obj[table[i]].id = i
          /\ users[i] = UserCount(table[i])
          /\ users[i] > 0
    /\ \A s \in Surfaces : UserCount(s) > 0 => table[obj[s].id] = s

(***************************************************************************)
(* The retain count of a surface is the number of those who hold it: the     *)
(* table, references, the port, and calls (a call that frees a second       *)
(* reference of its own to the same surface, or undoes one by its id, still  *)
(* holds its own).                                                          *)
(***************************************************************************)
InTable(s) == {i \in Ids : table[i] = s}
CallPlaces == {"kept", "reserve", "getBuf", "unreserve", "zero", "publish", "get",
               "use", "port", "addRef", "putExisting", "allocRef", "map",
               "insert", "fill", "undo", "release"}
OwnRefPlaces == {"map", "insert", "unmap", "put", "relRef"}
(* Freeing a reference in the middle of a call that goes on with s.         *)
InnerDrop(s) == {t \in ThreadsAt(s, {"unmap", "put", "relRef"}) :
                    then[t] \in {"release", "fill"}}
Undoing(s) == {t \in Threads : outer[t] = s}

RetainsCounted ==
    \A s \in Surfaces :
        obj[s].rc = Cardinality(InTable(s)) + Cardinality(RefHolders(s))
                    + (IF s \in ported THEN 1 ELSE 0)
                    + Cardinality(ThreadsAt(s, CallPlaces))
                    + Cardinality(ThreadsAt(s, OwnRefPlaces))
                    + Cardinality(InnerDrop(s)) + Cardinality(Undoing(s))

(***************************************************************************)
(* A kept buffer belongs to nobody: it is the memory of no surface, no       *)
(* create() has it, and so no client still has it mapped; and no two         *)
(* surfaces share a buffer.                                                 *)
(***************************************************************************)
MemoryOf(b) == {s \in Surfaces : obj[s].buf = b} \cup {t \in Threads : got[t] = b}
BuffersOwnedOnce ==
    /\ \A b \in Bufs : Cardinality(MemoryOf(b)) + (IF b \in kept THEN 1 ELSE 0)
                          = (IF bufSize[b] > 0 THEN 1 ELSE 0)
    /\ \A s \in Surfaces : obj[s].buf # None => bufSize[obj[s].buf] = obj[s].size
    /\ \A s \in Surfaces : RefHolders(s) # {} => obj[s].life = "live"

(***************************************************************************)
(* sweet_surface_wired is the memory there is, kept buffers included, plus   *)
(* what create() has reserved: no path forgets to give bytes back or gives  *)
(* them back twice.                                                         *)
(***************************************************************************)
Bytes(S, size) == UNION {{x} \X (1 .. size[x]) : x \in S}
Reserved == [t \in Threads |->
                IF pc[t] \in {"getBuf", "unreserve"} THEN obj[sur[t]].size ELSE 0]
WiredIsExact ==
    wired = Cardinality(Bytes(Bufs, bufSize)) + Cardinality(Bytes(Threads, Reserved))

(* A surface shows only what was drawn through it: memory from the kept      *)
(* pool is cleared before anyone can look the surface up.                   *)
NoOldPixels ==
    \A i \in Ids : table[i] # None => pixels[obj[table[i]].buf] \in {None, table[i]}
=============================================================================
