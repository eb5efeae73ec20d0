------------------------- MODULE SurfaceTableProofs -------------------------
(***************************************************************************)
(* Theorems about SurfaceTable, for any numbers of threads, clients,        *)
(* surfaces, buffers and ids: the user counts, the retain counts, the        *)
(* buffers' ownership, the wired account and the pixels.                    *)
(***************************************************************************)
EXTENDS SurfaceTable, FiniteSetTheorems, TLAPS

B(p) == IF p THEN 1 ELSE 0

(* The surface is in the table, under its id.                               *)
Listed(s) == obj[s].id \in Ids /\ table[obj[s].id] = s

(* What a thread at place p, with n in `then`, holds of its surface: how     *)
(* many retains and whether a user count; an undo also holds its own call's. *)
Dropping == {"unmap", "put", "relRef"}
Holds(p, n) == B(p \in CallPlaces) + B(p \in OwnRefPlaces)
                 + B(p \in Dropping /\ n \in {"release", "fill"})
Uses(p) == B(p \in UserPlaces)
Held(t, s) == (IF sur[t] = s THEN Holds(pc[t], then[t]) ELSE 0) + B(outer[t] = s)
Used(t, s) == IF sur[t] = s THEN Uses(pc[t]) ELSE 0

CallHolds(s) == Cardinality(ThreadsAt(s, CallPlaces))
                  + Cardinality(ThreadsAt(s, OwnRefPlaces)) + Cardinality(InnerDrop(s))
                  + Cardinality(Undoing(s))
CallUsers(s) == Cardinality(ThreadsAt(s, UserPlaces))

-----------------------------------------------------------------------------
(* Cardinalities.                                                          *)
LEMMA Change ==
    ASSUME NEW S, IsFiniteSet(S), NEW A \in SUBSET S, NEW C \in SUBSET S, NEW x \in S,
           \A y \in S : y # x => (y \in A <=> y \in C)
    PROVE  /\ Cardinality(A) \in Nat /\ Cardinality(C) \in Nat
           /\ Cardinality(C) = Cardinality(A) - B(x \in A) + B(x \in C)
           /\ x \in A => Cardinality(A) > 0
<1> DEFINE R == A \ {x}
<1>1. IsFiniteSet(A) /\ IsFiniteSet(C)
    BY FS_Subset
<1>2. /\ IsFiniteSet(R)
      /\ Cardinality(R) = IF x \in A THEN Cardinality(A) - 1 ELSE Cardinality(A)
    BY <1>1, FS_RemoveElement
<1>3. /\ Cardinality(C \ {x}) = IF x \in C THEN Cardinality(C) - 1 ELSE Cardinality(C)
      /\ C \ {x} = R
    BY <1>1, FS_RemoveElement
<1>4. Cardinality(A) \in Nat /\ Cardinality(C) \in Nat /\ Cardinality(R) \in Nat
    BY <1>1, <1>2, FS_CardinalityType
<1> HIDE DEF R
<1>5. QED  BY <1>2, <1>3, <1>4 DEF B

LEMMA Count ==
    ASSUME NEW S, IsFiniteSet(S), NEW A \in SUBSET S
    PROVE  /\ Cardinality(A) \in Nat
           /\ (Cardinality(A) = 0 <=> A = {})
  BY FS_Subset, FS_CardinalityType, FS_EmptySet

(***************************************************************************)
(* One thread moves: what it held and what it holds.                        *)
(***************************************************************************)
LEMMA ThreadMoves ==
    ASSUME NEW t \in Threads, NEW s,
           \A u \in Threads \ {t} :
               /\ sur'[u] = sur[u] /\ pc'[u] = pc[u]
               /\ then'[u] = then[u] /\ outer'[u] = outer[u]
    PROVE  /\ CallHolds(s) \in Nat /\ CallUsers(s) \in Nat
           /\ CallHolds(s)' = CallHolds(s) - Held(t, s) + Held(t, s)'
           /\ CallUsers(s)' = CallUsers(s) - Used(t, s) + Used(t, s)'
           /\ Held(t, s) > 0 => CallHolds(s) > 0
           /\ Used(t, s) > 0 => CallUsers(s) > 0
<1>1. IsFiniteSet(Threads)
    BY SurfaceAssumption
<1> DEFINE P == CallPlaces
           Q == OwnRefPlaces
           U == UserPlaces
           A(set) == ThreadsAt(s, set)
           D == InnerDrop(s)
           O == Undoing(s)
<1>2. ASSUME NEW set
      PROVE  /\ Cardinality(A(set)) \in Nat /\ Cardinality(A(set)') \in Nat
             /\ Cardinality(A(set)') = Cardinality(A(set)) - B(t \in A(set)) + B(t \in A(set)')
             /\ t \in A(set) => Cardinality(A(set)) > 0
  <2>1. \A y \in Threads : y # t => (y \in A(set) <=> y \in A(set)')
    BY DEF ThreadsAt
  <2>2. A(set) \in SUBSET Threads /\ A(set)' \in SUBSET Threads
    BY DEF ThreadsAt
  <2>3. QED  BY <1>1, <2>1, <2>2, Change
<1>3. /\ Cardinality(D) \in Nat /\ Cardinality(D') \in Nat
      /\ Cardinality(D') = Cardinality(D) - B(t \in D) + B(t \in D')
      /\ t \in D => Cardinality(D) > 0
  <2>1. \A y \in Threads : y # t => (y \in D <=> y \in D')
    BY DEF ThreadsAt, InnerDrop
  <2>2. D \in SUBSET Threads /\ D' \in SUBSET Threads
    BY DEF ThreadsAt, InnerDrop
  <2>3. QED  BY <1>1, <2>1, <2>2, Change
<1>o. /\ Cardinality(O) \in Nat /\ Cardinality(O') \in Nat
      /\ Cardinality(O') = Cardinality(O) - B(t \in O) + B(t \in O')
      /\ t \in O => Cardinality(O) > 0
  <2>1. \A y \in Threads : y # t => (y \in O <=> y \in O')
    BY DEF Undoing
  <2>2. O \in SUBSET Threads /\ O' \in SUBSET Threads
    BY DEF Undoing
  <2>3. QED  BY <1>1, <2>1, <2>2, Change
<1>4. /\ Held(t, s) = B(t \in A(P)) + B(t \in A(Q)) + B(t \in D) + B(t \in O)
      /\ Held(t, s)' = B(t \in A(P)') + B(t \in A(Q)') + B(t \in D') + B(t \in O')
      /\ Used(t, s) = B(t \in A(U)) /\ Used(t, s)' = B(t \in A(U)')
    BY DEF Held, Holds, Used, Uses, B, ThreadsAt, InnerDrop, Dropping, Undoing
<1>5. QED
  <2>1. /\ CallHolds(s) = Cardinality(A(P)) + Cardinality(A(Q)) + Cardinality(D)
                            + Cardinality(O)
        /\ CallHolds(s)' = Cardinality(A(P)') + Cardinality(A(Q)') + Cardinality(D')
                            + Cardinality(O')
        /\ CallUsers(s) = Cardinality(A(U)) /\ CallUsers(s)' = Cardinality(A(U)')
    BY DEF CallHolds, CallUsers
  <2>2. /\ Cardinality(A(P)) \in Nat /\ Cardinality(A(P)') \in Nat
        /\ Cardinality(A(P)') = Cardinality(A(P)) - B(t \in A(P)) + B(t \in A(P)')
        /\ t \in A(P) => Cardinality(A(P)) > 0
    BY <1>2
  <2>3. /\ Cardinality(A(Q)) \in Nat /\ Cardinality(A(Q)') \in Nat
        /\ Cardinality(A(Q)') = Cardinality(A(Q)) - B(t \in A(Q)) + B(t \in A(Q)')
        /\ t \in A(Q) => Cardinality(A(Q)) > 0
    BY <1>2
  <2>4. /\ Cardinality(A(U)) \in Nat /\ Cardinality(A(U)') \in Nat
        /\ Cardinality(A(U)') = Cardinality(A(U)) - B(t \in A(U)) + B(t \in A(U)')
        /\ t \in A(U) => Cardinality(A(U)) > 0
    BY <1>2
  <2>5. /\ CallUsers(s) \in Nat
        /\ CallUsers(s)' = CallUsers(s) - Used(t, s) + Used(t, s)'
        /\ Used(t, s) > 0 => CallUsers(s) > 0
    BY <1>4, <2>1, <2>4 DEF B
  <2>6. CallHolds(s) \in Nat /\ (Held(t, s) > 0 => CallHolds(s) > 0)
    BY <1>3, <1>4, <1>o, <2>1, <2>2, <2>3 DEF B
  <2>7. CallHolds(s)' = CallHolds(s) - Held(t, s) + Held(t, s)'
    BY <1>3, <1>4, <1>o, <2>1, <2>2, <2>3 DEF B
  <2>8. QED  BY <2>5, <2>6, <2>7

(* One client's reference appears or goes.                                  *)
LEMMA RefsMove ==
    ASSUME NEW c \in Clients, NEW s,
           \A d \in Clients \ {c} : refs'[d][s] > 0 <=> refs[d][s] > 0
    PROVE  /\ Cardinality(RefHolders(s)) \in Nat
           /\ Cardinality(RefHolders(s)') =
                 Cardinality(RefHolders(s)) - B(refs[c][s] > 0) + B(refs'[c][s] > 0)
           /\ refs[c][s] > 0 => Cardinality(RefHolders(s)) > 0
<1>1. IsFiniteSet(Clients)
    BY SurfaceAssumption
<1>2. /\ RefHolders(s) \in SUBSET Clients /\ RefHolders(s)' \in SUBSET Clients
      /\ \A d \in Clients : d # c => (d \in RefHolders(s) <=> d \in RefHolders(s)')
      /\ c \in RefHolders(s) <=> refs[c][s] > 0
      /\ c \in RefHolders(s)' <=> refs'[c][s] > 0
    BY DEF RefHolders
<1>3. /\ Cardinality(RefHolders(s)) \in Nat
      /\ Cardinality(RefHolders(s)') = Cardinality(RefHolders(s))
               - B(c \in RefHolders(s)) + B(c \in RefHolders(s)')
      /\ c \in RefHolders(s) => Cardinality(RefHolders(s)) > 0
    BY <1>1, <1>2, Change
<1>4. QED  BY <1>2, <1>3 DEF B

(* No thread and no client moves.                                          *)
LEMMA NobodyMoves ==
    ASSUME UNCHANGED <<pc, sur, then, outer, refs>>, NEW s
    PROVE  /\ CallHolds(s) \in Nat /\ CallUsers(s) \in Nat
           /\ CallHolds(s)' = CallHolds(s) /\ CallUsers(s)' = CallUsers(s)
           /\ Cardinality(RefHolders(s)) \in Nat
           /\ Cardinality(RefHolders(s)') = Cardinality(RefHolders(s))
<1>1. IsFiniteSet(Threads) /\ IsFiniteSet(Clients)
    BY SurfaceAssumption
<1>2. /\ \A set : ThreadsAt(s, set) \in SUBSET Threads
      /\ InnerDrop(s) \in SUBSET Threads /\ RefHolders(s) \in SUBSET Clients
      /\ Undoing(s) \in SUBSET Threads
    BY DEF ThreadsAt, InnerDrop, RefHolders, Undoing
<1>3. /\ \A set : Cardinality(ThreadsAt(s, set)) \in Nat
      /\ Cardinality(InnerDrop(s)) \in Nat /\ Cardinality(RefHolders(s)) \in Nat
      /\ Cardinality(Undoing(s)) \in Nat
    BY <1>1, <1>2, Count
<1>4. /\ \A set : ThreadsAt(s, set)' = ThreadsAt(s, set)
      /\ InnerDrop(s)' = InnerDrop(s) /\ RefHolders(s)' = RefHolders(s)
      /\ Undoing(s)' = Undoing(s)
    BY DEF ThreadsAt, InnerDrop, RefHolders, Undoing
<1>5. QED
    BY <1>3, <1>4 DEF CallHolds, CallUsers

-----------------------------------------------------------------------------
(***************************************************************************)
(* The invariant.  Types first; the wired account is an integer until it is *)
(* known to be exact.                                                      *)
(***************************************************************************)
ObjType == [life : Lives, rc : Nat, id : 0 .. MaxId, size : Nat, buf : Bufs \cup {None}]

Types ==
    /\ owner \in [Threads -> Clients]
    /\ table \in [Ids -> Surfaces \cup {None}]
    /\ users \in [Ids -> Nat] /\ nextId \in Ids
    /\ kept \subseteq Bufs
    /\ obj \in [Surfaces -> ObjType]
    /\ bufSize \in [Bufs -> Nat] /\ pixels \in [Bufs -> Surfaces \cup {None}]
    /\ refs \in [Clients -> [Surfaces -> Nat]]
    /\ fLock \in [Clients -> Threads \cup {None}]
    /\ closed \subseteq Clients /\ ported \subseteq Surfaces
    /\ pc \in [Threads -> Places]
    /\ sur \in [Threads -> Surfaces \cup {None}]
    /\ existing \in [Threads -> BOOLEAN] /\ then \in [Threads -> Places]
    /\ got \in [Threads -> Bufs \cup {None}]
    /\ outer \in [Threads -> Surfaces \cup {None}]

(* A slot of the table holds the surface with its id.                       *)
SlotsNamed == \A i \in Ids : table[i] # None => obj[table[i]].id = i

Tabled(s) == IF Listed(s) THEN users[obj[s].id] ELSE 0
UsersExact == \A s \in Surfaces : Cardinality(RefHolders(s)) + CallUsers(s) = Tabled(s)
UsersPositive == \A s \in Surfaces : Listed(s) => users[obj[s].id] > 0
RetainsExact ==
    \A s \in Surfaces :
        obj[s].rc = B(Listed(s)) + Cardinality(RefHolders(s)) + B(s \in ported)
                    + CallHolds(s)
LifeIsHeld == \A s \in Surfaces : obj[s].life = "live" <=> obj[s].rc > 0

(* What a thread's place says of its surface.  An id is given once, when     *)
(* create() publishes the surface, and nobody else can reach it before.      *)
Unpublished == {"kept", "reserve", "getBuf", "unreserve", "zero", "publish"}
Holding == CallPlaces \cup OwnRefPlaces
Published == Holding \ (Unpublished \cup {"release"})
InUndo(p, n) == p = "unlockUndo" \/ (p \in Dropping /\ n = "unlockUndo")
PlaceKnown(t) ==
    /\ pc[t] \in Holding => sur[t] \in Surfaces
    /\ pc[t] \in Unpublished => obj[sur[t]].id = 0
    /\ pc[t] \in Published => obj[sur[t]].id \in Ids
    /\ pc[t] \in Dropping => then[t] \in {"release", "fill", "unlock", "unlockUndo", "flush"}
    /\ InUndo(pc[t], then[t]) => outer[t] \in Surfaces
    /\ ~InUndo(pc[t], then[t]) => outer[t] = None
NameKnown(s) == s \in ported \/ (\E c \in Clients : refs[c][s] > 0) => obj[s].id \in Ids
CreatorsApart ==
    \A t, u \in Threads :
        pc[t] \in Unpublished /\ pc[u] \in Unpublished /\ sur[t] = sur[u] => t = u

CountInv ==
    /\ SlotsNamed /\ UsersExact /\ UsersPositive /\ RetainsExact /\ LifeIsHeld
    /\ \A t \in Threads : PlaceKnown(t)
    /\ \A s \in Surfaces : NameKnown(s)
    /\ CreatorsApart

-----------------------------------------------------------------------------
(* retain() and release(), field by field.                                 *)
LEMMA ObjFields ==
    ASSUME Types, NEW x \in Surfaces
    PROVE  /\ obj[x] \in ObjType /\ obj[x].life \in Lives /\ obj[x].rc \in Nat
           /\ obj[x].id \in 0 .. MaxId /\ obj[x].size \in Nat
           /\ obj[x].buf \in Bufs \cup {None}
  BY DEF Types, ObjType

LEMMA RetainedFields ==
    ASSUME Types, NEW s \in Surfaces
    PROVE  /\ Retained(s) \in [Surfaces -> ObjType]
           /\ \A x \in Surfaces :
                 /\ Retained(s)[x].id = obj[x].id /\ Retained(s)[x].life = obj[x].life
                 /\ Retained(s)[x].size = obj[x].size /\ Retained(s)[x].buf = obj[x].buf
                 /\ Retained(s)[x].rc = obj[x].rc + B(x = s)
<1> DEFINE r == [obj[s] EXCEPT !.rc = @ + 1]
<1>1. obj[s] \in ObjType /\ obj \in [Surfaces -> ObjType]
    BY DEF Types
<1>2. /\ r \in ObjType
      /\ r.id = obj[s].id /\ r.life = obj[s].life /\ r.size = obj[s].size
      /\ r.buf = obj[s].buf /\ r.rc = obj[s].rc + 1
    BY <1>1 DEF ObjType
<1>3. Retained(s) = [obj EXCEPT ![s] = r]
    BY <1>1 DEF Retained
<1> HIDE DEF r
<1>4. Retained(s) \in [Surfaces -> ObjType]
    BY <1>1, <1>2, <1>3
<1>5. ASSUME NEW x \in Surfaces
      PROVE  Retained(s)[x] = IF x = s THEN r ELSE obj[x]
    BY <1>1, <1>3
<1>6. \A x \in Surfaces : obj[x].rc \in Nat
    BY ObjFields
<1>7. QED  BY <1>2, <1>4, <1>5, <1>6 DEF B

LEMMA ReleasedFields ==
    ASSUME Types, NEW s \in Surfaces, obj[s].rc > 0
    PROVE  /\ Released(s) \in [Surfaces -> ObjType]
           /\ \A x \in Surfaces :
                 /\ Released(s)[x].id = obj[x].id
                 /\ Released(s)[x].size = obj[x].size /\ Released(s)[x].buf = obj[x].buf
                 /\ Released(s)[x].rc = obj[x].rc - B(x = s)
                 /\ Released(s)[x].life = IF x = s /\ obj[s].rc = 1 THEN "dying"
                                          ELSE obj[x].life
<1> DEFINE r == [obj[s] EXCEPT !.rc = @ - 1,
                               !.life = IF obj[s].rc = 1 THEN "dying" ELSE @]
<1>1. obj[s] \in ObjType /\ obj \in [Surfaces -> ObjType]
    BY DEF Types
<1>2. /\ r \in ObjType
      /\ r.id = obj[s].id /\ r.size = obj[s].size
      /\ r.buf = obj[s].buf /\ r.rc = obj[s].rc - 1
      /\ r.life = IF obj[s].rc = 1 THEN "dying" ELSE obj[s].life
  <2>1. obj[s].rc - 1 \in Nat
    BY <1>1 DEF ObjType
  <2>2. (IF obj[s].rc = 1 THEN "dying" ELSE obj[s].life) \in Lives
    BY <1>1 DEF ObjType, Lives
  <2>3. QED  BY <1>1, <2>1, <2>2 DEF ObjType
<1>3. Released(s) = [obj EXCEPT ![s] = r]
    BY <1>1 DEF Released
<1> HIDE DEF r
<1>4. Released(s) \in [Surfaces -> ObjType]
    BY <1>1, <1>2, <1>3
<1>5. ASSUME NEW x \in Surfaces
      PROVE  Released(s)[x] = IF x = s THEN r ELSE obj[x]
    BY <1>1, <1>3
<1>6. \A x \in Surfaces : obj[x].rc \in Nat
    BY ObjFields
<1>7. QED  BY <1>2, <1>4, <1>5, <1>6 DEF B

(* The strengthened counts say what the module's own say.                   *)
LEMMA InTableCount ==
    ASSUME Types, SlotsNamed, NEW s \in Surfaces
    PROVE  Cardinality(InTable(s)) = B(Listed(s))
<1>1. CASE Listed(s)
  <2>1. InTable(s) = {obj[s].id}
    BY <1>1, SurfaceAssumption DEF InTable, Listed, SlotsNamed, Types
  <2>2. QED  BY <1>1, <2>1, FS_Singleton DEF B
<1>2. CASE ~Listed(s)
  <2>1. \A i \in Ids : table[i] = s => i = obj[s].id
    BY SurfaceAssumption DEF SlotsNamed
  <2>2. InTable(s) = {}
    BY <1>2, <2>1 DEF InTable, Listed
  <2>3. QED  BY <1>2, <2>2, FS_EmptySet DEF B
<1>3. QED  BY <1>1, <1>2

(* A surface that is listed, referenced, ported or held by a call is alive.  *)
LEMMA HeldIsLive ==
    ASSUME Types, CountInv, NEW s \in Surfaces,
           \/ Listed(s) \/ s \in ported \/ \E c \in Clients : refs[c][s] > 0
           \/ \E t \in Threads : sur[t] = s /\ pc[t] \in Holding \cup Dropping
    PROVE  obj[s].rc > 0 /\ obj[s].life = "live"
<1>1. /\ CallHolds(s) \in Nat /\ Cardinality(RefHolders(s)) \in Nat
  <2>1. IsFiniteSet(Threads) /\ IsFiniteSet(Clients)
    BY SurfaceAssumption
  <2>2. /\ \A set : ThreadsAt(s, set) \in SUBSET Threads
        /\ InnerDrop(s) \in SUBSET Threads /\ RefHolders(s) \in SUBSET Clients
        /\ Undoing(s) \in SUBSET Threads
    BY DEF ThreadsAt, InnerDrop, RefHolders, Undoing
  <2>3. QED  BY <2>1, <2>2, Count DEF CallHolds
<1>2. obj[s].rc > 0
  <2>0. obj[s].rc = B(Listed(s)) + Cardinality(RefHolders(s)) + B(s \in ported) + CallHolds(s)
    BY DEF CountInv, RetainsExact
  <2>1. CASE Listed(s) \/ s \in ported
    BY <1>1, <2>0, <2>1 DEF B
  <2>2. CASE RefHolders(s) # {}
    <3>0. RefHolders(s) \in SUBSET Clients /\ IsFiniteSet(Clients)
      BY SurfaceAssumption DEF RefHolders
    <3>1. Cardinality(RefHolders(s)) > 0
      BY <1>1, <2>2, <3>0, Count
    <3>2. QED  BY <1>1, <2>0, <3>1 DEF B
  <2>3. ASSUME NEW t \in Threads, sur[t] = s, pc[t] \in Holding \cup Dropping
        PROVE  obj[s].rc > 0
    <3>1. ThreadsAt(s, CallPlaces) # {} \/ ThreadsAt(s, OwnRefPlaces) # {}
      BY <2>3 DEF ThreadsAt, Holding, Dropping, OwnRefPlaces
    <3>2. /\ Cardinality(ThreadsAt(s, CallPlaces)) \in Nat
          /\ Cardinality(ThreadsAt(s, OwnRefPlaces)) \in Nat
          /\ Cardinality(InnerDrop(s)) \in Nat /\ Cardinality(Undoing(s)) \in Nat
          /\ Cardinality(ThreadsAt(s, CallPlaces)) = 0 <=> ThreadsAt(s, CallPlaces) = {}
          /\ Cardinality(ThreadsAt(s, OwnRefPlaces)) = 0 <=> ThreadsAt(s, OwnRefPlaces) = {}
      <4>1. /\ \A set : ThreadsAt(s, set) \in SUBSET Threads
            /\ InnerDrop(s) \in SUBSET Threads /\ Undoing(s) \in SUBSET Threads
        BY DEF ThreadsAt, InnerDrop, Undoing
      <4>2. QED  BY <4>1, SurfaceAssumption, Count
    <3>3. CallHolds(s) > 0
      <4>1. CASE ThreadsAt(s, CallPlaces) # {}
        BY <3>2, <4>1 DEF CallHolds
      <4>2. CASE ThreadsAt(s, OwnRefPlaces) # {}
        BY <3>2, <4>2 DEF CallHolds
      <4>3. QED  BY <3>1, <4>1, <4>2
    <3>4. QED  BY <1>1, <2>0, <3>3 DEF B
  <2>4. QED  BY <2>1, <2>2, <2>3 DEF RefHolders
<1>3. QED  BY <1>2 DEF CountInv, LifeIsHeld

(***************************************************************************)
(* The balance of one thread's step.                                       *)
(***************************************************************************)
LEMMA Balance ==
    ASSUME CountInv, NEW t \in Threads, NEW c \in Clients, NEW s \in Surfaces,
           \A u \in Threads \ {t} :
               /\ sur'[u] = sur[u] /\ pc'[u] = pc[u]
               /\ then'[u] = then[u] /\ outer'[u] = outer[u],
           \A d \in Clients \ {c} : refs'[d][s] > 0 <=> refs[d][s] > 0,
           Tabled(s)' = Tabled(s) - Used(t, s) + Used(t, s)'
                          - B(refs[c][s] > 0) + B(refs'[c][s] > 0),
           obj'[s].rc = obj[s].rc - B(Listed(s)) + B(Listed(s)') - B(s \in ported)
                          + B(s \in ported') - Held(t, s) + Held(t, s)'
                          - B(refs[c][s] > 0) + B(refs'[c][s] > 0)
    PROVE  /\ Cardinality(RefHolders(s)') + CallUsers(s)' = Tabled(s)'
           /\ obj'[s].rc = B(Listed(s)') + Cardinality(RefHolders(s)')
                           + B(s \in ported') + CallHolds(s)'
<1>1. /\ CallHolds(s) \in Nat /\ CallUsers(s) \in Nat
      /\ CallHolds(s)' = CallHolds(s) - Held(t, s) + Held(t, s)'
      /\ CallUsers(s)' = CallUsers(s) - Used(t, s) + Used(t, s)'
    BY ThreadMoves
<1>2. /\ Cardinality(RefHolders(s)) \in Nat
      /\ Cardinality(RefHolders(s)') =
            Cardinality(RefHolders(s)) - B(refs[c][s] > 0) + B(refs'[c][s] > 0)
    BY RefsMove
<1>3. /\ Cardinality(RefHolders(s)) + CallUsers(s) = Tabled(s)
      /\ obj[s].rc = B(Listed(s)) + Cardinality(RefHolders(s)) + B(s \in ported)
                     + CallHolds(s)
    BY DEF CountInv, UsersExact, RetainsExact
<1>4. /\ \A p : B(p) \in Int
      /\ Held(t, s) \in Int /\ Held(t, s)' \in Int
      /\ Used(t, s) \in Int /\ Used(t, s)' \in Int
    BY DEF B, Held, Holds, Used, Uses
<1>5. QED
  <2>1. Cardinality(RefHolders(s)') + CallUsers(s)' = Tabled(s)'
    BY <1>1, <1>2, <1>3, <1>4
  <2>2. obj'[s].rc = B(Listed(s)') + Cardinality(RefHolders(s)')
                           + B(s \in ported') + CallHolds(s)'
    BY <1>1, <1>2, <1>3, <1>4
  <2>3. QED  BY <2>1, <2>2

(* A thread's step that gives no id.                                        *)
LEMMA CountStep ==
    ASSUME Types, CountInv, NEW t \in Threads, NEW c \in Clients,
           \A u \in Threads \ {t} :
               /\ sur'[u] = sur[u] /\ pc'[u] = pc[u]
               /\ then'[u] = then[u] /\ outer'[u] = outer[u],
           \A d \in Clients \ {c}, s \in Surfaces : refs'[d][s] > 0 <=> refs[d][s] > 0,
           \A s \in Surfaces : obj'[s].id = obj[s].id,
           SlotsNamed', UsersPositive', LifeIsHeld', PlaceKnown(t)',
           pc'[t] \in Unpublished => pc[t] \in Unpublished /\ sur'[t] = sur[t],
           \A s \in Surfaces : s \in ported' \/ refs'[c][s] > 0 => obj[s].id \in Ids,
           \A s \in Surfaces :
               /\ Tabled(s)' = Tabled(s) - Used(t, s) + Used(t, s)'
                                 - B(refs[c][s] > 0) + B(refs'[c][s] > 0)
               /\ obj'[s].rc = obj[s].rc - B(Listed(s)) + B(Listed(s)') - B(s \in ported)
                                 + B(s \in ported') - Held(t, s) + Held(t, s)'
                                 - B(refs[c][s] > 0) + B(refs'[c][s] > 0)
    PROVE  CountInv'
<1>1. UsersExact' /\ RetainsExact'
    BY Balance DEF UsersExact, RetainsExact
<1>2. ASSUME NEW u \in Threads
      PROVE  PlaceKnown(u)'
  <2>1. CASE u = t
    BY <2>1
  <2>2. CASE u # t
    <3>1. PlaceKnown(u) /\ (pc[u] \in Unpublished \cup Published => sur[u] \in Surfaces)
      BY DEF CountInv, PlaceKnown, Unpublished, Published, Holding, CallPlaces
    <3>2. QED  BY <2>2, <3>1 DEF PlaceKnown
  <2>3. QED  BY <2>1, <2>2
<1>3. ASSUME NEW s \in Surfaces
      PROVE  NameKnown(s)'
    BY DEF CountInv, NameKnown
<1>4. CreatorsApart'
    BY DEF CountInv, CreatorsApart
<1>5. QED  BY <1>1, <1>2, <1>3, <1>4 DEF CountInv

LEMMA TableStays ==
    ASSUME Types, CountInv, UNCHANGED <<table, users>>,
           \A s \in Surfaces : obj'[s].id = obj[s].id
    PROVE  /\ SlotsNamed' /\ UsersPositive'
           /\ \A s \in Surfaces : (Listed(s)' <=> Listed(s)) /\ Tabled(s)' = Tabled(s)
<1>1. \A s \in Surfaces : (Listed(s)' <=> Listed(s)) /\ Tabled(s)' = Tabled(s)
    BY DEF Listed, Tabled
<1>2. UsersPositive'
    BY <1>1 DEF CountInv, UsersPositive
<1>3. SlotsNamed'
    BY DEF Types, CountInv, SlotsNamed
<1>4. QED  BY <1>1, <1>2, <1>3

(* A step that leaves the table and the references as they are.             *)
LEMMA CallStep ==
    ASSUME Types, CountInv, NEW t \in Threads,
           \A u \in Threads \ {t} :
               /\ sur'[u] = sur[u] /\ pc'[u] = pc[u]
               /\ then'[u] = then[u] /\ outer'[u] = outer[u],
           \A d \in Clients, s \in Surfaces : refs'[d][s] > 0 <=> refs[d][s] > 0,
           UNCHANGED <<table, users>>,
           \A s \in Surfaces : obj'[s].id = obj[s].id,
           LifeIsHeld', PlaceKnown(t)',
           pc'[t] \in Unpublished => pc[t] \in Unpublished /\ sur'[t] = sur[t],
           \A s \in ported' : obj[s].id \in Ids,
           \A s \in Surfaces :
               /\ Used(t, s)' = Used(t, s)
               /\ obj'[s].rc = obj[s].rc - B(s \in ported) + B(s \in ported')
                                 - Held(t, s) + Held(t, s)'
    PROVE  CountInv'
<1>1. PICK c \in Clients : TRUE
    BY DEF Types
<1>2. /\ SlotsNamed' /\ UsersPositive'
      /\ \A s \in Surfaces : (Listed(s)' <=> Listed(s)) /\ Tabled(s)' = Tabled(s)
    BY TableStays
<1>3. \A s \in Surfaces : s \in ported' \/ refs'[c][s] > 0 => obj[s].id \in Ids
    BY DEF CountInv, NameKnown
<1>4. ASSUME NEW s \in Surfaces
      PROVE  /\ Tabled(s)' = Tabled(s) - Used(t, s) + Used(t, s)'
                                 - B(refs[c][s] > 0) + B(refs'[c][s] > 0)
             /\ obj'[s].rc = obj[s].rc - B(Listed(s)) + B(Listed(s)') - B(s \in ported)
                                 + B(s \in ported') - Held(t, s) + Held(t, s)'
                                 - B(refs[c][s] > 0) + B(refs'[c][s] > 0)
  <2>1. /\ B(refs'[c][s] > 0) = B(refs[c][s] > 0) /\ B(Listed(s)') = B(Listed(s))
        /\ B(refs[c][s] > 0) \in Int /\ B(Listed(s)) \in Int
        /\ B(s \in ported) \in Int /\ B(s \in ported') \in Int
    BY <1>2 DEF B
  <2>2. /\ Used(t, s) \in Int /\ Held(t, s) \in Int /\ Held(t, s)' \in Int
    BY DEF Used, Uses, Held, Holds, B
  <2>3. obj[s].rc \in Int /\ Tabled(s) \in Int
    BY ObjFields DEF Types, Tabled, Listed
  <2>4. Used(t, s)' = Used(t, s) /\ Tabled(s)' = Tabled(s)
        /\ obj'[s].rc = obj[s].rc - B(s \in ported) + B(s \in ported')
                                 - Held(t, s) + Held(t, s)'
    BY <1>2
  <2>5. QED  BY <2>1, <2>2, <2>3, <2>4
<1>5. QED
    BY <1>2, <1>3, <1>4, CountStep

(* A step in which no count changes.                                        *)
LEMMA QuietStep ==
    ASSUME Types, CountInv, NEW t \in Threads,
           \A u \in Threads \ {t} :
               /\ sur'[u] = sur[u] /\ pc'[u] = pc[u]
               /\ then'[u] = then[u] /\ outer'[u] = outer[u],
           \A d \in Clients, s \in Surfaces : refs'[d][s] > 0 <=> refs[d][s] > 0,
           UNCHANGED <<table, users, ported>>,
           \A s \in Surfaces : /\ obj'[s].id = obj[s].id /\ obj'[s].rc = obj[s].rc
                               /\ obj'[s].life = obj[s].life,
           PlaceKnown(t)',
           pc'[t] \in Unpublished => pc[t] \in Unpublished /\ sur'[t] = sur[t],
           \A s \in Surfaces : Used(t, s)' = Used(t, s) /\ Held(t, s)' = Held(t, s)
    PROVE  CountInv'
<1>1. LifeIsHeld'
    BY DEF CountInv, LifeIsHeld
<1>2. \A s \in ported' : obj[s].id \in Ids
    BY DEF CountInv, NameKnown, Types
<1>3. ASSUME NEW s \in Surfaces
      PROVE  /\ Used(t, s)' = Used(t, s)
             /\ obj'[s].rc = obj[s].rc - B(s \in ported) + B(s \in ported')
                                 - Held(t, s) + Held(t, s)'
  <2>1. /\ obj[s].rc \in Int /\ B(s \in ported) \in Int /\ Held(t, s) \in Int
    BY ObjFields DEF Held, Holds, B
  <2>2. QED  BY <2>1
<1>4. QED  BY <1>1, <1>2, <1>3, CallStep

(* The id of a new surface.                                               *)
LEMMA Least ==
    ASSUME NEW S \in SUBSET Nat, S # {}
    PROVE  \E n \in S : \A m \in S : n <= m
<1> DEFINE R == OpToRel(<, Nat)
<1>1. IsWellFoundedOn(R, Nat)
    BY NatLessThanWellFounded
<1>2. \A m, n \in Nat : m < n => <<m, n>> \in R
    BY DEF OpToRel
<1> HIDE DEF R
<1>3. PICK n \in S : \A m \in S : ~(<<m, n>> \in R)
    BY <1>1, WFMin
<1>4. ASSUME NEW m \in S
      PROVE  n <= m
  <2>1. m \in Nat /\ n \in Nat
    OBVIOUS
  <2>2. ~(m < n)
    BY <1>2, <1>3, <2>1
  <2>3. QED  BY <2>1, <2>2
<1>5. QED  BY <1>4

LEMMA NextFreeIsFree ==
    ASSUME Types, FreeIds # {}
    PROVE  NextFree \in FreeIds /\ Following(NextFree) \in Ids
<1>1. MaxId \in Nat \ {0} /\ nextId \in Ids /\ FreeIds \subseteq Ids
    BY SurfaceAssumption DEF Types, FreeIds
<1>2. \A i \in FreeIds : Distance(i) \in Nat
    BY <1>1 DEF Distance, Ids
<1> DEFINE D == {Distance(i) : i \in FreeIds}
<1>3. PICK n \in D : \A m \in D : n <= m
  <2>1. D \in SUBSET Nat /\ D # {}
    BY <1>2
  <2> HIDE DEF D
  <2>2. QED  BY <2>1, Least
<1>4. PICK i \in FreeIds : Distance(i) = n
    OBVIOUS
<1>5. \A j \in FreeIds : Distance(i) <= Distance(j)
    BY <1>3, <1>4
<1>6. NextFree \in FreeIds
    BY <1>5 DEF NextFree
<1>7. QED  BY <1>1, <1>6 DEF Following, Ids

(* Other records of an object's fields.                                    *)
LEMMA EmptyObj == NoObj \in ObjType
<1>1. 0 \in 0 .. MaxId
    BY SurfaceAssumption
<1>2. QED  BY <1>1 DEF NoObj, ObjType, Lives

LEMMA NewObj ==
    ASSUME NEW size \in Sizes
    PROVE  LET new == [NoObj EXCEPT !.life = "live", !.rc = 1, !.size = size] IN
           /\ new \in ObjType /\ new.life = "live" /\ new.rc = 1 /\ new.id = 0
           /\ new.size = size /\ new.buf = None
<1>1. size \in Nat /\ "live" \in Lives
    BY SurfaceAssumption DEF Lives
<1>2. NoObj.id = 0 /\ NoObj.buf = None
    BY DEF NoObj
<1>3. QED  BY <1>1, <1>2, EmptyObj DEF ObjType

LEMMA PublishedFields ==
    ASSUME Types, NEW s \in Surfaces, NEW i \in Ids, NEW new,
           new = [obj EXCEPT ![s].id = i, ![s].rc = @ + 1]
    PROVE  /\ new \in [Surfaces -> ObjType]
           /\ new[s].id = i /\ new[s].rc = obj[s].rc + 1 /\ new[s].life = obj[s].life
           /\ new[s].size = obj[s].size /\ new[s].buf = obj[s].buf
           /\ \A x \in Surfaces \ {s} : new[x] = obj[x]
<1> DEFINE r == [obj[s] EXCEPT !.id = i, !.rc = @ + 1]
<1>1. obj[s] \in ObjType /\ obj \in [Surfaces -> ObjType]
    BY DEF Types
<1>2. i \in 0 .. MaxId
    BY SurfaceAssumption DEF Ids
<1>3. /\ r \in ObjType
      /\ r.id = i /\ r.life = obj[s].life /\ r.size = obj[s].size
      /\ r.buf = obj[s].buf /\ r.rc = obj[s].rc + 1
  <2>1. obj[s].rc + 1 \in Nat
    BY <1>1 DEF ObjType
  <2>2. QED  BY <1>1, <1>2, <2>1 DEF ObjType
<1>4. new = [obj EXCEPT ![s] = r]
    BY <1>1
<1> HIDE DEF r
<1>5. new \in [Surfaces -> ObjType] /\ new[s] = r /\ \A x \in Surfaces \ {s} : new[x] = obj[x]
    BY <1>1, <1>3, <1>4
<1>6. QED  BY <1>3, <1>5

LEMMA PutTypes ==
    ASSUME Types, CountInv, NEW t \in Threads, NEW l \in Places, sur[t] \in Surfaces,
           obj[sur[t]].rc > 0, sweet_surface_put(t, l)
    PROVE  /\ table' \in [Ids -> Surfaces \cup {None}] /\ users' \in [Ids -> Nat]
           /\ obj' \in [Surfaces -> ObjType] /\ pc' \in [Threads -> Places]
           /\ nextId' = nextId
<1> DEFINE s == sur[t]
           i == obj[s].id
<1>1. obj' = Released(s) \/ obj' = obj
    BY DEF sweet_surface_put
<1>2. obj' \in [Surfaces -> ObjType]
    BY <1>1, ReleasedFields DEF Types
<1>3. users' \in [Ids -> Nat]
  <2>1. CASE i \in Ids /\ table[i] = s
    <3>1. users[i] > 0 /\ users[i] \in Nat
      BY <2>1 DEF CountInv, UsersPositive, Listed, Types
    <3>2. users' = [users EXCEPT ![i] = users[i] - 1]
      BY <2>1 DEF sweet_surface_put
    <3>3. users[i] - 1 \in Nat
      BY <3>1
    <3>4. QED  BY <3>2, <3>3 DEF Types
  <2>2. CASE i \notin Ids \/ table[i] # s
    <3>1. users \in [Ids -> Nat]
      BY DEF Types
    <3>2. users' = users \/ users' = [users EXCEPT ![i] = @ - 1]
      BY DEF sweet_surface_put
    <3>3. i \in Ids => users' = users
      BY <2>2 DEF sweet_surface_put
    <3>4. QED  BY <3>1, <3>2, <3>3
  <2>3. QED  BY <2>1, <2>2
<1>4. table' \in [Ids -> Surfaces \cup {None}]
  <2>1. table \in [Ids -> Surfaces \cup {None}]
    BY DEF Types
  <2>2. QED  BY <2>1 DEF sweet_surface_put
<1>5. pc' \in [Threads -> Places] /\ nextId' = nextId
    BY DEF sweet_surface_put, Types, Goto
<1>6. QED  BY <1>2, <1>3, <1>4, <1>5

LEMMA DropCountTypes ==
    ASSUME Types, NEW t \in Threads, NEW s \in Surfaces, NEW after \in Places,
           NEW unlock \in Places, DropCount(t, s, after, unlock), refs[owner[t]][s] > 0
    PROVE  /\ refs' \in [Clients -> [Surfaces -> Nat]]
           /\ fLock' \in [Clients -> Threads \cup {None}]
           /\ pc' \in [Threads -> Places] /\ then' \in [Threads -> Places]
<1>1. owner[t] \in Clients /\ refs[owner[t]] \in [Surfaces -> Nat]
    BY DEF Types
<1>2. refs' \in [Clients -> [Surfaces -> Nat]]
    BY <1>1 DEF Types, DropCount
<1>3. fLock' \in [Clients -> Threads \cup {None}] /\ then' \in [Threads -> Places]
    BY <1>1 DEF Types, DropCount
<1>4. pc' \in [Threads -> Places]
    BY DEF Types, DropCount, Goto, Places
<1>5. QED  BY <1>2, <1>3, <1>4

-----------------------------------------------------------------------------
(* Types are kept.                                                         *)
LEMMA TypesStep ==
    ASSUME Types, CountInv, Next
    PROVE  Types'
<1> USE DEF tableVars, memVars, clientVars, local, Goto, With
<1>0. /\ \A t \in Threads : pc[t] \in Holding \cup Dropping =>
              sur[t] \in Surfaces /\ obj[sur[t]].rc > 0
      /\ \A t \in Threads : pc[t] \in Places
      /\ obj \in [Surfaces -> ObjType]
      /\ None \notin Surfaces
    BY HeldIsLive, SurfaceAssumption DEF CountInv, PlaceKnown, Types, Holding, Dropping, OwnRefPlaces
<1>1. ASSUME NEW t \in Threads, Call(t) PROVE Types'
  <2>1. ASSUME NEW s \in Surfaces, NEW size \in Sizes, CreateBegin(t, s, size) PROVE Types'
    <3>1. [NoObj EXCEPT !.life = "live", !.rc = 1, !.size = size] \in ObjType
      BY NewObj
    <3>2. obj' \in [Surfaces -> ObjType]
      BY <1>0, <2>1, <3>1 DEF CreateBegin
    <3>3. QED  BY <2>1, <3>2 DEF Types, CreateBegin, Places
  <2>2. ASSUME NEW i \in Ids, NEW purpose \in {"get", "use", "port"},
               sweet_surface_copy(t, i, purpose)
        PROVE  Types'
    <3>1. table[i] \in Surfaces
      BY <2>2 DEF Types, sweet_surface_copy
    <3>2. obj' \in [Surfaces -> ObjType]
      BY <2>2, <3>1, RetainedFields DEF sweet_surface_copy
    <3>3. QED  BY <2>2, <3>1, <3>2 DEF Types, sweet_surface_copy, Places
  <2>3. ASSUME NEW s \in Surfaces, LookupFromPort(t, s) PROVE Types'
    <3>2. obj' \in [Surfaces -> ObjType]
      BY <2>3, RetainedFields DEF LookupFromPort
    <3>3. QED  BY <2>3, <3>2 DEF Types, LookupFromPort, Places
  <2>4. ASSUME NEW s \in Surfaces, trapRelease(t, s) PROVE Types'
    <3>1. owner[t] \in Clients /\ refs[owner[t]] \in [Surfaces -> Nat]
      BY DEF Types
    <3>2. DropCount(t, s, "idle", "unlock") /\ refs[owner[t]][s] > 0
      BY <2>4 DEF trapRelease
    <3>3. {"idle", "unlock"} \subseteq Places
      BY DEF Places
    <3>4. /\ refs' \in [Clients -> [Surfaces -> Nat]]
          /\ fLock' \in [Clients -> Threads \cup {None}]
          /\ pc' \in [Threads -> Places] /\ then' \in [Threads -> Places]
      BY <3>2, <3>3, DropCountTypes
    <3>5. QED  BY <2>4, <3>1, <3>4 DEF Types, trapRelease
  <2>5. CASE CloseBegin(t)
    <3>1. owner[t] \in Clients
      BY DEF Types
    <3>2. QED  BY <2>5, <3>1 DEF Types, CloseBegin, Places
  <2>6. QED  BY <1>1, <2>1, <2>2, <2>3, <2>4, <2>5 DEF Call
<1>2. ASSUME NEW t \in Threads, Continue(t) PROVE Types'
  <2>1. CASE TakeKept(t)
    <3>1. pc' \in [Threads -> Places]
      <4>1. pc \in [Threads -> Places]
        BY DEF Types
      <4>2. QED  BY <2>1, <4>1 DEF TakeKept, Places
    <3>2. QED  BY <2>1, <3>1 DEF Types, TakeKept, Fits
  <2>2. CASE Reserve(t)
    BY <2>2 DEF Types, Reserve, Places
  <2>3. CASE GetBuf(t)
    <3>1. sur[t] \in Surfaces
      BY <1>0, <2>3 DEF GetBuf, Holding, CallPlaces
    <3>2. obj[sur[t]].size \in Nat
      BY <3>1, ObjFields
    <3>3. bufSize' \in [Bufs -> Nat] /\ got' \in [Threads -> Bufs \cup {None}]
      <4>1. bufSize \in [Bufs -> Nat] /\ got \in [Threads -> Bufs \cup {None}]
        BY DEF Types
      <4>2. QED  BY <2>3, <3>2, <4>1 DEF GetBuf
    <3>4. pc' \in [Threads -> Places]
      <4>1. pc \in [Threads -> Places]
        BY DEF Types
      <4>2. QED  BY <2>3, <4>1 DEF GetBuf, Places
    <3>5. QED  BY <2>3, <3>3, <3>4 DEF Types, GetBuf
  <2>4. CASE Unreserve(t)
    BY <2>4 DEF Types, Unreserve, Places
  <2>5. CASE ZeroBuf(t)
    <3>1. got[t] \in Bufs \cup {None}
      BY DEF Types
    <3>2. sur[t] \in Surfaces
      BY <1>0, <2>5 DEF ZeroBuf, Holding, CallPlaces
    <3>3. obj' \in [Surfaces -> ObjType]
      BY <2>5, <3>1, <3>2, <1>0 DEF ZeroBuf, ObjType
    <3>4. QED  BY <2>5, <3>3 DEF Types, ZeroBuf, Places
  <2>6. CASE sweet_surface_publish(t)
    <3>1. sur[t] \in Surfaces
      BY <1>0, <2>6 DEF sweet_surface_publish, Holding, CallPlaces
    <3>2. CASE FreeIds = {}
      BY <2>6, <3>2 DEF Types, sweet_surface_publish, Places
    <3>3. CASE FreeIds # {}
      <4>1. PICK i \in Ids : i = NextFree
        BY <3>3, NextFreeIsFree DEF FreeIds
      <4>2. Following(i) \in Ids
        BY <3>3, <4>1, NextFreeIsFree
      <4>3. /\ table' = [table EXCEPT ![i] = sur[t]]
            /\ users' = [users EXCEPT ![i] = 1]
            /\ nextId' = Following(i)
            /\ obj' = [obj EXCEPT ![sur[t]].id = i, ![sur[t]].rc = @ + 1]
            /\ Goto(t, "addRef")
        BY <2>6, <3>3, <4>1 DEF sweet_surface_publish
      <4>4. obj' \in [Surfaces -> ObjType]
        BY <3>1, <4>3, SurfaceAssumption, PublishedFields
      <4>5. QED  BY <2>6, <3>1, <4>2, <4>3, <4>4 DEF Types, sweet_surface_publish, Places
    <3>4. QED  BY <3>2, <3>3
  <2>7. CASE CreatePort(t)
    <3>1. sur[t] \in Surfaces
      BY <1>0, <2>7 DEF CreatePort, Holding, CallPlaces
    <3>2. obj' \in [Surfaces -> ObjType]
      BY <2>7, <3>1, <1>0, RetainedFields DEF CreatePort
    <3>3. QED  BY <2>7, <3>1, <3>2 DEF Types, CreatePort, Places
  <2>8. CASE sweet_surface_get(t)
    <3>1. sur[t] \in Surfaces
      BY <1>0, <2>8 DEF sweet_surface_get, Holding, CallPlaces
    <3>2. obj' \in [Surfaces -> ObjType]
      BY <2>8, <3>1, <1>0, RetainedFields DEF sweet_surface_get
    <3>3. table' \in [Ids -> Surfaces \cup {None}] /\ users' \in [Ids -> Nat]
      <4>1. table \in [Ids -> Surfaces \cup {None}] /\ users \in [Ids -> Nat]
        BY DEF Types
      <4>2. QED  BY <2>8, <3>1, <4>1 DEF sweet_surface_get
    <3>4. pc' \in [Threads -> Places]
      <4>1. pc \in [Threads -> Places]
        BY DEF Types
      <4>2. QED  BY <2>8, <4>1 DEF sweet_surface_get, Places
    <3>5. QED  BY <2>8, <3>2, <3>3, <3>4 DEF Types, sweet_surface_get
  <2>9. CASE ReleaseSurface(t)
    <3>1. sur[t] \in Surfaces /\ obj[sur[t]].rc > 0
      BY <1>0, <2>9 DEF ReleaseSurface, Holding, CallPlaces
    <3>2. obj' \in [Surfaces -> ObjType]
      BY <2>9, <3>1, ReleasedFields DEF ReleaseSurface
    <3>3. QED  BY <2>9, <3>2 DEF Types, ReleaseSurface, Places
  <2>10. CASE FindExisting(t)
    BY <2>10 DEF Types, FindExisting, Places
  <2>11. CASE PutExisting(t) \/ PutRef(t)
    <3>1. sur[t] \in Surfaces /\ obj[sur[t]].rc > 0
      BY <1>0, <2>11 DEF PutExisting, PutRef, Holding, CallPlaces, Dropping
    <3>2. PICK l \in Places : sweet_surface_put(t, l)
      BY <2>11 DEF PutExisting, PutRef, Places
    <3>3. /\ table' \in [Ids -> Surfaces \cup {None}] /\ users' \in [Ids -> Nat]
          /\ obj' \in [Surfaces -> ObjType] /\ pc' \in [Threads -> Places]
          /\ nextId' = nextId
      BY <3>1, <3>2, PutTypes
    <3>4. QED  BY <2>11, <3>3 DEF Types, PutExisting, PutRef
  <2>12. CASE AllocRef(t)
    <3>1. sur[t] \in Surfaces /\ obj[sur[t]].rc > 0
      BY <1>0, <2>12 DEF AllocRef, Holding, CallPlaces
    <3>2. CASE obj' = Retained(sur[t]) /\ Goto(t, "map") /\ UNCHANGED tableVars
      <4>1. obj' \in [Surfaces -> ObjType]
        BY <3>1, <3>2, RetainedFields
      <4>2. QED  BY <2>12, <3>2, <4>1 DEF Types, AllocRef, Places
    <3>3. CASE sweet_surface_put(t, "release")
      <4>1. "release" \in Places
        BY DEF Places
      <4>2. /\ table' \in [Ids -> Surfaces \cup {None}] /\ users' \in [Ids -> Nat]
            /\ obj' \in [Surfaces -> ObjType] /\ pc' \in [Threads -> Places]
            /\ nextId' = nextId
        BY <3>1, <3>3, <4>1, PutTypes
      <4>3. QED  BY <2>12, <4>2 DEF Types, AllocRef
    <3>4. QED  BY <2>12, <3>2, <3>3 DEF AllocRef
  <2>13. CASE MapRef(t) \/ FillResult(t) \/ UnmapRef(t) \/ FlushEnd(t)
    BY <2>13 DEF Types, MapRef, FillResult, UnmapRef, FlushEnd, Places
  <2>14. CASE InsertRef(t)
    <3>1. sur[t] \in Surfaces /\ owner[t] \in Clients
      BY <1>0, <2>14 DEF InsertRef, Holding, CallPlaces, Types
    <3>2. refs' \in [Clients -> [Surfaces -> Nat]]
      BY <2>14, <3>1 DEF InsertRef, Types
    <3>3. {"unmap", "fill"} \subseteq Places
      BY DEF Places
    <3>4. pc' \in [Threads -> Places] /\ then' \in [Threads -> Places]
      <4>1. pc \in [Threads -> Places] /\ then \in [Threads -> Places]
        BY DEF Types
      <4>2. QED  BY <2>14, <3>3, <4>1 DEF InsertRef
    <3>5. QED  BY <2>14, <3>2, <3>4 DEF Types, InsertRef
  <2>15. CASE ReleaseRef(t)
    <3>1. sur[t] \in Surfaces /\ obj[sur[t]].rc > 0
      BY <1>0, <2>15 DEF ReleaseRef, Dropping
    <3>2. obj' \in [Surfaces -> ObjType]
      BY <2>15, <3>1, ReleasedFields DEF ReleaseRef
    <3>3. QED  BY <2>15, <3>2 DEF Types, ReleaseRef, Places
  <2>16. CASE UndoRelease(t)
    <3>1. sur[t] \in Surfaces
      BY <1>0, <2>16 DEF UndoRelease, Holding, CallPlaces
    <3>2. ASSUME NEW s \in findRef(t), DropCount(t, s, "release", "unlockUndo"),
                 \/ sur' = [sur EXCEPT ![t] = s] /\ outer' = [outer EXCEPT ![t] = sur[t]]
                 \/ UNCHANGED <<sur, outer>>
          PROVE  Types'
      <4>1. s \in Surfaces /\ refs[owner[t]][s] > 0
        BY DEF findRef
      <4>2. {"release", "unlockUndo"} \subseteq Places
        BY DEF Places
      <4>3. /\ refs' \in [Clients -> [Surfaces -> Nat]]
            /\ fLock' \in [Clients -> Threads \cup {None}]
            /\ pc' \in [Threads -> Places] /\ then' \in [Threads -> Places]
        BY <3>2, <4>1, <4>2, DropCountTypes
      <4>4. /\ sur' \in [Threads -> Surfaces \cup {None}]
            /\ outer' \in [Threads -> Surfaces \cup {None}]
        <5>1. /\ sur \in [Threads -> Surfaces \cup {None}]
              /\ outer \in [Threads -> Surfaces \cup {None}]
          BY DEF Types
        <5>2. QED  BY <3>1, <3>2, <4>1, <5>1
      <4>5. QED  BY <2>16, <4>3, <4>4 DEF Types, UndoRelease
    <3>3. CASE Goto(t, "release") /\ UNCHANGED <<refs, fLock, then, sur, outer>>
      BY <2>16, <3>3 DEF Types, UndoRelease, Places
    <3>4. QED  BY <2>16, <3>2, <3>3 DEF UndoRelease
  <2>17. CASE UnlockClient(t)
    BY <2>17 DEF Types, UnlockClient, Places
  <2>18. ASSUME NEW s \in Surfaces, FlushRef(t, s) PROVE Types'
    <3>1. owner[t] \in Clients
      BY DEF Types
    <3>2. refs' \in [Clients -> [Surfaces -> Nat]]
      BY <2>18, <3>1 DEF FlushRef, Types
    <3>3. QED  BY <2>18, <3>2 DEF Types, FlushRef, Places
  <2>19. QED
    BY <1>2, <2>1, <2>2, <2>3, <2>4, <2>5, <2>6, <2>7, <2>8, <2>9, <2>10, <2>11, <2>12,
       <2>13, <2>14, <2>15, <2>16, <2>17, <2>18 DEF Continue
<1>3. ASSUME NEW s \in Surfaces, FreeSurface(s) \/ PortGone(s) PROVE Types'
  <2>1. CASE KeepBuffer(s)
    <3>1. obj[s].buf \in Bufs \cup {None} /\ NoObj \in ObjType
      BY ObjFields, EmptyObj
    <3>2. obj' \in [Surfaces -> ObjType]
      BY <1>0, <2>1, <3>1 DEF KeepBuffer, ObjType, Lives
    <3>3. QED  BY <2>1, <3>1, <3>2 DEF Types, KeepBuffer
  <2>2. CASE UnwireBuffer(s)
    <3>1. NoObj \in ObjType
      BY EmptyObj
    <3>2. obj' \in [Surfaces -> ObjType]
      BY <1>0, <2>2, <3>1 DEF UnwireBuffer
    <3>3. bufSize' \in [Bufs -> Nat] /\ pixels' \in [Bufs -> Surfaces \cup {None}]
      <4>1. bufSize \in [Bufs -> Nat] /\ pixels \in [Bufs -> Surfaces \cup {None}]
        BY DEF Types
      <4>2. QED  BY <2>2, <4>1 DEF UnwireBuffer
    <3>4. QED  BY <2>2, <3>2, <3>3 DEF Types, UnwireBuffer
  <2>3. CASE PortGone(s)
    <3>1. obj[s].rc > 0
      BY <2>3, HeldIsLive DEF PortGone
    <3>2. obj' \in [Surfaces -> ObjType]
      BY <2>3, <3>1, ReleasedFields DEF PortGone
    <3>3. QED  BY <2>3, <3>2 DEF Types, PortGone
  <2>4. QED  BY <1>3, <2>1, <2>2, <2>3 DEF FreeSurface
<1>4. ASSUME NEW c \in Clients, Reopen(c) \/ \E s \in Surfaces : DrawThrough(c, s)
      PROVE  Types'
    BY <1>4 DEF Types, Reopen, DrawThrough
<1>5. QED  BY <1>1, <1>2, <1>3, <1>4 DEF Next

(* create() before the surface is published, and the steps inside a call    *)
(* that move no count.                                                      *)
LEMMA CountQuiet ==
    ASSUME Types, CountInv, NEW t \in Threads,
           \/ TakeKept(t) \/ Reserve(t) \/ GetBuf(t) \/ Unreserve(t) \/ ZeroBuf(t)
           \/ FindExisting(t) \/ MapRef(t) \/ FillResult(t) \/ UnmapRef(t)
           \/ UnlockClient(t) \/ FlushEnd(t) \/ CloseBegin(t)
    PROVE  CountInv'
<1> USE DEF tableVars, memVars, clientVars, local, Goto, With
<1>0. /\ pc \in [Threads -> Places] /\ sur \in [Threads -> Surfaces \cup {None}]
      /\ then \in [Threads -> Places] /\ obj \in [Surfaces -> ObjType]
      /\ outer \in [Threads -> Surfaces \cup {None}] /\ None \notin Surfaces
    BY SurfaceAssumption DEF Types
<1>1. PlaceKnown(t)
    BY DEF CountInv
<1>2. \A u \in Threads \ {t} :
          /\ sur'[u] = sur[u] /\ pc'[u] = pc[u]
          /\ then'[u] = then[u] /\ outer'[u] = outer[u]
    BY <1>0 DEF TakeKept, Reserve, GetBuf, Unreserve, ZeroBuf, FindExisting, MapRef,
                FillResult, UnmapRef, UnlockClient, FlushEnd, CloseBegin
<1>3. UNCHANGED <<table, users, ported, refs>>
    BY DEF TakeKept, Reserve, GetBuf, Unreserve, ZeroBuf, FindExisting, MapRef,
           FillResult, UnmapRef, UnlockClient, FlushEnd, CloseBegin
<1>4. \A s \in Surfaces : /\ obj'[s].id = obj[s].id /\ obj'[s].rc = obj[s].rc
                          /\ obj'[s].life = obj[s].life
  <2>1. CASE ZeroBuf(t)
    BY <1>0, <2>1 DEF ZeroBuf, ObjType
  <2>2. CASE ~ZeroBuf(t)
    <3>1. obj' = obj
      BY <2>2 DEF TakeKept, Reserve, GetBuf, Unreserve, FindExisting, MapRef,
           FillResult, UnmapRef, UnlockClient, FlushEnd, CloseBegin
    <3>2. QED  BY <3>1
  <2>3. QED  BY <2>1, <2>2
<1>5. \/ /\ sur'[t] = sur[t] /\ then'[t] = then[t] /\ outer'[t] = outer[t]
         /\ \/ pc[t] \in Unpublished \ {"publish"} /\ pc'[t] \in Unpublished \cup {"release"}
            \/ pc[t] = "addRef" /\ pc'[t] \in {"putExisting", "allocRef"}
            \/ pc[t] = "map" /\ pc'[t] = "insert"
            \/ pc[t] = "fill" /\ pc'[t] \in {"release", "undo"}
            \/ pc[t] = "unmap" /\ pc'[t] = "put"
            \/ pc[t] \in {"flush", "idle"} /\ pc'[t] \in {"flush", "unlock"}
      \/ /\ sur'[t] = sur[t] /\ then'[t] = "release" /\ outer'[t] = outer[t]
         /\ pc[t] = "map" /\ pc'[t] = "unmap"
      \/ /\ sur'[t] = outer[t] /\ outer'[t] = None
         /\ \/ pc[t] = "unlock" /\ pc'[t] = "idle" /\ outer[t] = None
            \/ pc[t] = "unlockUndo" /\ pc'[t] = "release" /\ outer[t] \in Surfaces
  <2>1. CASE TakeKept(t) \/ Reserve(t) \/ GetBuf(t) \/ Unreserve(t) \/ ZeroBuf(t)
    BY <1>0, <2>1 DEF TakeKept, Reserve, GetBuf, Unreserve, ZeroBuf, Unpublished
  <2>2. CASE FindExisting(t) \/ FillResult(t) \/ UnmapRef(t) \/ FlushEnd(t) \/ CloseBegin(t)
    BY <1>0, <2>2 DEF FindExisting, FillResult, UnmapRef, FlushEnd, CloseBegin
  <2>3. CASE MapRef(t)
    BY <1>0, <2>3 DEF MapRef
  <2>4. CASE UnlockClient(t)
    BY <1>0, <1>1, <2>4 DEF UnlockClient, PlaceKnown, InUndo, Dropping
  <2>5. QED  BY <2>1, <2>2, <2>3, <2>4
<1>6. \A s \in Surfaces : Used(t, s)' = Used(t, s) /\ Held(t, s)' = Held(t, s)
    BY <1>0, <1>5 DEF Used, Uses, UserPlaces, Held, Holds, CallPlaces, OwnRefPlaces,
                Dropping, B, Unpublished
<1>7. PlaceKnown(t)'
    BY <1>1, <1>4, <1>5 DEF PlaceKnown, InUndo, Holding, Published, Unpublished, CallPlaces,
                OwnRefPlaces, Dropping
<1>8. pc'[t] \in Unpublished => pc[t] \in Unpublished /\ sur'[t] = sur[t]
    BY <1>5 DEF Unpublished
<1>9. QED
    BY <1>2, <1>3, <1>4, <1>6, <1>7, <1>8, QuietStep

(* A call takes a retain of a surface that is alive.                        *)
LEMMA CountRetain ==
    ASSUME Types, CountInv, NEW t \in Threads, NEW s \in Surfaces,
           obj' = Retained(s), obj[s].life = "live", obj[s].id \in Ids,
           sur' = [sur EXCEPT ![t] = s], UNCHANGED <<then, outer, table, users, refs>>,
           \/ /\ pc[t] = "idle" /\ UNCHANGED ported
              /\ pc' = [pc EXCEPT ![t] = "get"] \/ pc' = [pc EXCEPT ![t] = "use"]
                 \/ pc' = [pc EXCEPT ![t] = "port"]
           \/ /\ sur[t] = s /\ pc[t] = "port" /\ pc' = [pc EXCEPT ![t] = "release"]
              /\ s \notin ported /\ ported' = ported \cup {s}
           \/ /\ sur[t] = s /\ pc[t] = "allocRef" /\ pc' = [pc EXCEPT ![t] = "map"]
              /\ UNCHANGED ported
    PROVE  CountInv'
<1>0. /\ pc \in [Threads -> Places] /\ sur \in [Threads -> Surfaces \cup {None}]
      /\ then \in [Threads -> Places] /\ ported \subseteq Surfaces
    BY DEF Types
<1>1. \A u \in Threads \ {t} :
          /\ sur'[u] = sur[u] /\ pc'[u] = pc[u]
          /\ then'[u] = then[u] /\ outer'[u] = outer[u]
    BY <1>0
<1>2. \A x \in Surfaces : /\ obj'[x].id = obj[x].id /\ obj'[x].life = obj[x].life
                          /\ obj'[x].rc = obj[x].rc + B(x = s)
                          /\ obj[x].rc \in Nat
    BY RetainedFields, ObjFields
<1>3. LifeIsHeld'
    BY <1>2 DEF CountInv, LifeIsHeld, B
<1>4. sur'[t] = s /\ then'[t] = then[t] /\ obj'[s].id \in Ids
    BY <1>0, <1>2
<1>5. PlaceKnown(t)' /\ pc'[t] \notin Unpublished
  <2>1. PlaceKnown(t) /\ outer'[t] = outer[t]
    BY DEF CountInv
  <2>2. QED
    BY <1>0, <1>4, <2>1 DEF PlaceKnown, InUndo, Holding, Published, Unpublished, Dropping
<1>6. \A x \in ported' : obj[x].id \in Ids
    BY <1>0 DEF CountInv, NameKnown
<1>7. ASSUME NEW x \in Surfaces
      PROVE  /\ Used(t, x)' = Used(t, x)
             /\ obj'[x].rc = obj[x].rc - B(x \in ported) + B(x \in ported')
                                 - Held(t, x) + Held(t, x)'
    BY <1>0, <1>2, <1>4 DEF Used, Uses, UserPlaces, Held, Holds, CallPlaces, OwnRefPlaces,
                            Dropping, B
<1>8. QED
    BY <1>1, <1>2, <1>3, <1>5, <1>6, <1>7, CallStep

(* A call drops a retain.                                                  *)
LEMMA CountRelease ==
    ASSUME Types, CountInv, NEW t \in Threads, ReleaseSurface(t) \/ ReleaseRef(t)
    PROVE  CountInv'
<1> USE DEF tableVars, memVars, clientVars, local, Goto, With
<1>0. /\ pc \in [Threads -> Places] /\ sur \in [Threads -> Surfaces \cup {None}]
      /\ then \in [Threads -> Places] /\ ported \subseteq Surfaces
      /\ None \notin Surfaces
    BY SurfaceAssumption DEF Types
<1>a. PlaceKnown(t)
    BY DEF CountInv
<1> DEFINE s == sur[t]
<1>b. s \in Surfaces /\ obj[s].rc > 0
  <2>1. pc[t] \in Holding
    BY DEF ReleaseSurface, ReleaseRef, Holding, CallPlaces, OwnRefPlaces
  <2>2. s \in Surfaces
    BY <1>a, <2>1 DEF PlaceKnown
  <2>3. QED  BY <2>1, <2>2, HeldIsLive
<1>1. \A u \in Threads \ {t} :
          /\ sur'[u] = sur[u] /\ pc'[u] = pc[u]
          /\ then'[u] = then[u] /\ outer'[u] = outer[u]
    BY <1>0 DEF ReleaseSurface, ReleaseRef
<1>2. \A x \in Surfaces : /\ obj'[x].id = obj[x].id
                          /\ obj'[x].life = IF x = s /\ obj[s].rc = 1 THEN "dying"
                                            ELSE obj[x].life
                          /\ obj'[x].rc = obj[x].rc - B(x = s)
                          /\ obj[x].rc \in Nat
    BY <1>b, ReleasedFields, ObjFields DEF ReleaseSurface, ReleaseRef
<1>3. LifeIsHeld'
    BY <1>b, <1>2 DEF CountInv, LifeIsHeld, B
<1>4. \/ /\ pc[t] \in {"release", "use"} /\ pc'[t] = "idle" /\ sur'[t] = None
         /\ then'[t] = then[t]
      \/ /\ pc[t] = "relRef" /\ pc'[t] = then[t] /\ sur'[t] = s /\ then'[t] = "idle"
         /\ then[t] \in {"release", "fill", "unlock", "unlockUndo", "flush"}
    BY <1>0, <1>a DEF ReleaseSurface, ReleaseRef, PlaceKnown, Dropping
<1>o. outer'[t] = outer[t]
    BY DEF ReleaseSurface, ReleaseRef
<1>5. pc[t] = "relRef" => obj[s].id \in Ids
    BY <1>a DEF PlaceKnown, Published, Holding, OwnRefPlaces, Unpublished
<1>6. PlaceKnown(t)' /\ pc'[t] \notin Unpublished
    BY <1>a, <1>b, <1>o, <1>2, <1>4, <1>5 DEF PlaceKnown, InUndo, Holding, Published, Unpublished, Dropping,
                                CallPlaces, OwnRefPlaces
<1>7. UNCHANGED <<table, users, refs, ported>>
    BY DEF ReleaseSurface, ReleaseRef
<1>8. \A x \in ported' : obj[x].id \in Ids
    BY <1>0, <1>7 DEF CountInv, NameKnown
<1>9. ASSUME NEW x \in Surfaces
      PROVE  /\ Used(t, x)' = Used(t, x)
             /\ obj'[x].rc = obj[x].rc - B(x \in ported) + B(x \in ported')
                                 - Held(t, x) + Held(t, x)'
    BY <1>0, <1>o, <1>2, <1>4, <1>7 DEF Used, Uses, UserPlaces, Held, Holds, CallPlaces, OwnRefPlaces,
                            Dropping, B
<1>10. QED
    BY <1>1, <1>2, <1>3, <1>6, <1>7, <1>8, <1>9, CallStep

(* The calls that these are.                                               *)
LEMMA CountLookups ==
    ASSUME Types, CountInv, NEW t \in Threads,
           \/ \E i \in Ids, purpose \in {"get", "use", "port"} :
                 sweet_surface_copy(t, i, purpose)
           \/ \E s \in Surfaces : LookupFromPort(t, s)
           \/ CreatePort(t)
           \/ AllocRef(t) /\ ~sweet_surface_put(t, "release")
    PROVE  CountInv'
<1> USE DEF tableVars, memVars, clientVars, local, Goto, With
<1>0. /\ pc \in [Threads -> Places] /\ sur \in [Threads -> Surfaces \cup {None}]
      /\ PlaceKnown(t)
    BY DEF Types, CountInv
<1>1. ASSUME NEW i \in Ids, NEW purpose \in {"get", "use", "port"},
             sweet_surface_copy(t, i, purpose)
      PROVE  CountInv'
  <2>1. table[i] \in Surfaces /\ obj[table[i]].id = i
    BY <1>1 DEF sweet_surface_copy, CountInv, SlotsNamed, Types
  <2>2. obj[table[i]].life = "live"
    BY <2>1, HeldIsLive DEF Listed
  <2>3. QED
    BY <1>1, <2>1, <2>2, CountRetain DEF sweet_surface_copy, Calls
<1>2. ASSUME NEW s \in Surfaces, LookupFromPort(t, s)
      PROVE  CountInv'
  <2>1. obj[s].id \in Ids /\ obj[s].life = "live"
    BY <1>2, HeldIsLive DEF LookupFromPort, CountInv, NameKnown
  <2>2. QED
    BY <1>2, <2>1, CountRetain DEF LookupFromPort, Calls
<1>3. ASSUME pc[t] \in {"port", "allocRef"}
      PROVE  /\ sur[t] \in Surfaces /\ obj[sur[t]].id \in Ids /\ obj[sur[t]].life = "live"
             /\ sur = [sur EXCEPT ![t] = sur[t]]
  <2>1. pc[t] \in Holding /\ pc[t] \in Published
    BY <1>3 DEF Holding, Published, Unpublished, CallPlaces
  <2>2. sur[t] \in Surfaces /\ obj[sur[t]].id \in Ids
    BY <1>0, <2>1 DEF PlaceKnown
  <2>3. QED  BY <1>0, <2>1, <2>2, HeldIsLive
<1>4. CASE CreatePort(t)
  <2>1. CASE sur[t] \notin ported
    BY <1>3, <1>4, <2>1, CountRetain DEF CreatePort
  <2>2. CASE sur[t] \in ported
    <3>1. /\ ported' = ported /\ obj' = obj /\ UNCHANGED <<table, users, refs, sur, then, outer>>
          /\ pc[t] = "port" /\ pc' = [pc EXCEPT ![t] = "release"]
      BY <1>4, <2>2 DEF CreatePort
    <3>2. \A u \in Threads \ {t} : pc'[u] = pc[u]
      BY <1>0, <3>1
    <3>3. pc'[t] = "release"
      BY <1>0, <3>1
    <3>4. PlaceKnown(t)' /\ pc'[t] \notin Unpublished
      BY <1>0, <1>3, <3>1, <3>3 DEF PlaceKnown, InUndo, Holding, Published, Unpublished, Dropping
    <3>5. \A s \in Surfaces : Used(t, s)' = Used(t, s) /\ Held(t, s)' = Held(t, s)
      BY <3>1, <3>3 DEF Used, Uses, UserPlaces, Held, Holds, CallPlaces, OwnRefPlaces,
                        Dropping, B
    <3>6. QED  BY <3>1, <3>2, <3>4, <3>5, QuietStep
  <2>3. QED  BY <2>1, <2>2
<1>5. CASE AllocRef(t) /\ ~sweet_surface_put(t, "release")
    BY <1>3, <1>5, CountRetain DEF AllocRef
<1>6. QED  BY <1>1, <1>2, <1>4, <1>5

(* A call that is a user of its surface finds it in the table.              *)
LEMMA UserIsListed ==
    ASSUME Types, CountInv, NEW t \in Threads, pc[t] \in UserPlaces
    PROVE  /\ sur[t] \in Surfaces /\ Listed(sur[t])
           /\ users[obj[sur[t]].id] \in Nat \ {0}
<1> DEFINE s == sur[t]
<1>1. s \in Surfaces
    BY DEF CountInv, PlaceKnown, Holding, UserPlaces, CallPlaces, OwnRefPlaces
<1>2. CallUsers(s) \in Nat /\ CallUsers(s) > 0 /\ Cardinality(RefHolders(s)) \in Nat
  <2>1. t \in ThreadsAt(s, UserPlaces)
    BY DEF ThreadsAt
  <2>2. /\ IsFiniteSet(Threads) /\ ThreadsAt(s, UserPlaces) \in SUBSET Threads
        /\ IsFiniteSet(Clients) /\ RefHolders(s) \in SUBSET Clients
    BY SurfaceAssumption DEF ThreadsAt, RefHolders
  <2>3. /\ Cardinality(ThreadsAt(s, UserPlaces)) \in Nat
        /\ Cardinality(ThreadsAt(s, UserPlaces)) # 0
        /\ Cardinality(RefHolders(s)) \in Nat
    BY <2>1, <2>2, Count
  <2>4. QED  BY <2>3 DEF CallUsers
<1>3. Cardinality(RefHolders(s)) + CallUsers(s) = Tabled(s)
    BY <1>1 DEF CountInv, UsersExact
<1>4. Tabled(s) > 0
    BY <1>2, <1>3
<1>5. Listed(s)
    BY <1>4 DEF Tabled
<1>6. users[obj[s].id] \in Nat /\ users[obj[s].id] > 0
    BY <1>1, <1>5 DEF Types, Listed, CountInv, UsersPositive
<1>7. QED  BY <1>1, <1>5, <1>6

(* A user of a surface drops its count.                                     *)
LEMMA CountPut ==
    ASSUME Types, CountInv, NEW t \in Threads, NEW l, sweet_surface_put(t, l),
           UNCHANGED <<refs, ported, sur, then, outer>>,
           \/ pc[t] = "putExisting" /\ l = "fill"
           \/ pc[t] = "allocRef" /\ l = "release"
           \/ pc[t] = "put" /\ l = "relRef"
    PROVE  CountInv'
<1> DEFINE s == sur[t]
           i == obj[s].id
<1>0. /\ pc \in [Threads -> Places] /\ None \notin Surfaces /\ PlaceKnown(t)
      /\ table \in [Ids -> Surfaces \cup {None}] /\ users \in [Ids -> Nat]
      /\ owner[t] \in Clients
    BY SurfaceAssumption DEF Types, CountInv
<1>1. /\ s \in Surfaces /\ Listed(s) /\ users[i] \in Nat \ {0}
    BY UserIsListed DEF UserPlaces
<1>2. i \in Ids /\ table[i] = s
    BY <1>1 DEF Listed
<1>3. obj[s].rc > 0
    BY <1>1, HeldIsLive
<1>4. /\ users' = [users EXCEPT ![i] = users[i] - 1]
      /\ table' = [table EXCEPT ![i] = IF users[i] = 1 THEN None ELSE s]
      /\ obj' = IF users[i] = 1 THEN Released(s) ELSE obj
      /\ pc' = [pc EXCEPT ![t] = l]
    BY <1>2 DEF sweet_surface_put, Goto
<1>5. ASSUME NEW x \in Surfaces
      PROVE  /\ obj'[x].id = obj[x].id /\ obj[x].rc \in Nat
             /\ obj'[x].life = IF users[i] = 1 /\ x = s /\ obj[s].rc = 1 THEN "dying"
                               ELSE obj[x].life
             /\ obj'[x].rc = obj[x].rc - B(users[i] = 1 /\ x = s)
  <2>0. obj[x].rc \in Nat
    BY ObjFields
  <2>1. CASE users[i] = 1
    BY <1>1, <1>3, <1>4, <2>0, <2>1, ReleasedFields DEF B
  <2>2. CASE users[i] # 1
    BY <1>4, <2>0, <2>2 DEF B
  <2>3. QED  BY <2>1, <2>2
<1>6. LifeIsHeld'
    BY <1>3, <1>5 DEF CountInv, LifeIsHeld, B
<1>7. ASSUME NEW x \in Surfaces \ {s}
      PROVE  (Listed(x)' <=> Listed(x)) /\ Tabled(x)' = Tabled(x)
    BY <1>0, <1>2, <1>4, <1>5 DEF Listed, Tabled
<1>8. /\ Listed(s)' <=> users[i] # 1
      /\ Tabled(s)' = users[i] - 1 /\ Tabled(s) = users[i]
  <2>1. obj'[s].id = i
    BY <1>1, <1>5
  <2>2. table'[i] = (IF users[i] = 1 THEN None ELSE s) /\ users'[i] = users[i] - 1
    BY <1>0, <1>2, <1>4
  <2>3. QED  BY <1>0, <1>1, <1>2, <2>1, <2>2 DEF Listed, Tabled
<1>9. UsersPositive'
  <2>1. ASSUME NEW x \in Surfaces, Listed(x)'
        PROVE  users'[obj'[x].id] > 0
    <3>1. CASE x = s
      <4>1. Tabled(s)' = users'[obj'[s].id]
        BY <2>1, <3>1 DEF Tabled
      <4>2. users[i] # 1
        BY <1>8, <2>1, <3>1
      <4>3. QED  BY <1>1, <1>8, <3>1, <4>1, <4>2
    <3>2. CASE x # s
      <4>1. Tabled(x)' = users'[obj'[x].id] /\ Tabled(x) = users[obj[x].id]
        BY <1>7, <2>1, <3>2 DEF Tabled
      <4>2. users[obj[x].id] > 0
        BY <1>7, <2>1, <3>2 DEF CountInv, UsersPositive
      <4>3. QED  BY <1>7, <3>2, <4>1, <4>2
    <3>3. QED  BY <3>1, <3>2
  <2>2. QED  BY <2>1 DEF UsersPositive
<1>10. SlotsNamed'
  <2>1. \A j \in Ids : table'[j] = table[j] \/ table'[j] = None
    BY <1>0, <1>2, <1>4
  <2>2. QED  BY <1>0, <1>5, <2>1 DEF CountInv, SlotsNamed
<1>11. pc'[t] = l /\ sur'[t] = s /\ then'[t] = then[t] /\ outer'[t] = outer[t]
    BY <1>0, <1>4
<1>12. \A u \in Threads \ {t} :
           /\ sur'[u] = sur[u] /\ pc'[u] = pc[u]
           /\ then'[u] = then[u] /\ outer'[u] = outer[u]
    BY <1>0, <1>4
<1>13. PlaceKnown(t)' /\ pc'[t] \notin Unpublished
  <2>1. obj'[s].id \in Ids
    BY <1>1, <1>2, <1>5
  <2>2. QED
    BY <1>0, <1>1, <1>11, <2>1 DEF PlaceKnown, InUndo, Holding, Published, Unpublished, Dropping,
                                CallPlaces, OwnRefPlaces
<1>14. ASSUME NEW x \in Surfaces
       PROVE  /\ Held(t, x)' = Held(t, x)
              /\ Used(t, x) = B(x = s) /\ Used(t, x)' = 0
    BY <1>11 DEF Used, Uses, UserPlaces, Held, Holds, CallPlaces, OwnRefPlaces, Dropping, B
<1> DEFINE c == owner[t]
<1>15. ASSUME NEW x \in Surfaces
       PROVE  /\ Tabled(x)' = Tabled(x) - Used(t, x) + Used(t, x)'
                                 - B(refs[c][x] > 0) + B(refs'[c][x] > 0)
              /\ obj'[x].rc = obj[x].rc - B(Listed(x)) + B(Listed(x)') - B(x \in ported)
                                 + B(x \in ported') - Held(t, x) + Held(t, x)'
                                 - B(refs[c][x] > 0) + B(refs'[c][x] > 0)
  <2>1. /\ B(refs[c][x] > 0) = B(refs'[c][x] > 0) /\ B(refs[c][x] > 0) \in Int
        /\ B(x \in ported) = B(x \in ported') /\ B(x \in ported) \in Int
        /\ Held(t, x) \in Int
    BY DEF B, Held, Holds
  <2>2. Tabled(x) \in Int
    BY <1>0 DEF Tabled, Listed
  <2>3. CASE x = s
    <3>1. Tabled(s)' = Tabled(s) - 1
      BY <1>8
    <3>2. B(Listed(s)) = 1 /\ B(Listed(s)') = IF users[i] = 1 THEN 0 ELSE 1
      BY <1>1, <1>8 DEF B
    <3>3. Used(t, s) = 1 /\ Used(t, s)' = 0 /\ Held(t, s)' = Held(t, s)
      BY <1>1, <1>14 DEF B
    <3>4. obj'[s].rc = IF users[i] = 1 THEN obj[s].rc - 1 ELSE obj[s].rc
      BY <1>1, <1>5 DEF B
    <3>5. QED  BY <1>5, <2>1, <2>2, <2>3, <3>1, <3>2, <3>3, <3>4
  <2>4. CASE x # s
    <3>1. Tabled(x)' = Tabled(x) /\ B(Listed(x)) = B(Listed(x)') /\ B(Listed(x)) \in Int
      BY <1>7, <2>4 DEF B
    <3>2. Used(t, x) = 0 /\ Used(t, x)' = 0 /\ Held(t, x)' = Held(t, x)
      BY <1>14, <2>4 DEF B
    <3>3. obj'[x].rc = obj[x].rc
      BY <1>5, <2>4 DEF B
    <3>4. QED  BY <1>5, <2>1, <2>2, <3>1, <3>2, <3>3
  <2>5. QED  BY <2>3, <2>4
<1>16. \A x \in Surfaces : x \in ported' \/ refs'[c][x] > 0 => obj[x].id \in Ids
    BY <1>0 DEF CountInv, NameKnown
<1>17. \A x \in Surfaces : obj'[x].id = obj[x].id
    BY <1>5
<1> HIDE DEF c, s, i
<1>18. c \in Clients
    BY <1>0 DEF c
<1>19. QED
    BY <1>6, <1>9, <1>10, <1>12, <1>13, <1>15, <1>16, <1>17, <1>18, CountStep

LEMMA CountPuts ==
    ASSUME Types, CountInv, NEW t \in Threads,
           \/ PutExisting(t) \/ PutRef(t)
           \/ AllocRef(t) /\ sweet_surface_put(t, "release")
    PROVE  CountInv'
  BY CountPut DEF PutExisting, PutRef, AllocRef, memVars, clientVars, local

(* sweet_surface_get: another user, or the surface back under its old id.    *)
LEMMA CountGet ==
    ASSUME Types, CountInv, NEW t \in Threads, sweet_surface_get(t)
    PROVE  CountInv'
<1> SUFFICES ASSUME NEW s, s = sur[t], NEW i, i = obj[s].id, NEW c, c = owner[t]
             PROVE  CountInv'
    OBVIOUS
<1> USE DEF tableVars, memVars, clientVars, local, Goto
<1>0. /\ pc \in [Threads -> Places] /\ None \notin Surfaces /\ PlaceKnown(t)
      /\ table \in [Ids -> Surfaces \cup {None}] /\ users \in [Ids -> Nat]
      /\ c \in Clients
    BY SurfaceAssumption DEF Types, CountInv
<1>1. pc[t] = "get" /\ UNCHANGED <<refs, ported, sur, then, outer>>
    BY DEF sweet_surface_get
<1>2. s \in Surfaces /\ i \in Ids
    BY <1>0, <1>1 DEF PlaceKnown, Holding, Published, Unpublished, CallPlaces
<1>3. obj[s].life = "live"
    BY <1>1, <1>2, HeldIsLive DEF Holding, CallPlaces
<1>4. CASE table[i] \notin {s, None}
  <2>1. /\ UNCHANGED <<table, users, obj>> /\ pc' = [pc EXCEPT ![t] = "release"]
    BY <1>4 DEF sweet_surface_get
  <2>2. pc'[t] = "release" /\ sur'[t] = s
    BY <1>0, <1>1, <2>1
  <2>3. \A u \in Threads \ {t} :
            /\ sur'[u] = sur[u] /\ pc'[u] = pc[u]
            /\ then'[u] = then[u] /\ outer'[u] = outer[u]
    BY <1>0, <1>1, <2>1
  <2>4. PlaceKnown(t)' /\ pc'[t] \notin Unpublished
    BY <1>0, <1>1, <1>2, <2>2 DEF PlaceKnown, InUndo, Holding, Published, Unpublished, Dropping
  <2>5. \A x \in Surfaces : Used(t, x)' = Used(t, x) /\ Held(t, x)' = Held(t, x)
    BY <1>1, <2>2 DEF Used, Uses, UserPlaces, Held, Holds, CallPlaces, OwnRefPlaces,
                        Dropping, B
  <2>6. QED  BY <1>1, <2>1, <2>3, <2>4, <2>5, QuietStep
<1>5. CASE table[i] \in {s, None}
  <2> DEFINE back == table[i] = None
  <2>1. /\ table' = [table EXCEPT ![i] = s]
        /\ users' = [users EXCEPT ![i] = IF back THEN 1 ELSE users[i] + 1]
        /\ obj' = IF back THEN Retained(s) ELSE obj
        /\ pc' = [pc EXCEPT ![t] = "addRef"]
    <3>1. CASE table[i] = s
      <4>1. /\ table' = table /\ users' = [users EXCEPT ![i] = users[i] + 1] /\ obj' = obj
            /\ pc' = [pc EXCEPT ![t] = "addRef"] /\ ~back
        BY <1>0, <1>2, <3>1 DEF sweet_surface_get
      <4>2. table = [table EXCEPT ![i] = s]
        BY <1>0, <1>2, <3>1
      <4>3. QED  BY <4>1, <4>2
    <3>2. CASE table[i] = None
      BY <1>0, <1>2, <3>2 DEF sweet_surface_get
    <3>3. QED  BY <1>5, <3>1, <3>2
  <2>2. ASSUME NEW x \in Surfaces
        PROVE  /\ obj'[x].id = obj[x].id /\ obj'[x].life = obj[x].life
               /\ obj'[x].rc = obj[x].rc + B(back /\ x = s) /\ obj[x].rc \in Nat
    <3>0. obj[x].rc \in Nat
      BY ObjFields
    <3>1. CASE back
      BY <1>2, <2>1, <3>0, <3>1, RetainedFields DEF B
    <3>2. CASE ~back
      BY <2>1, <3>0, <3>2 DEF B
    <3>3. QED  BY <3>1, <3>2
  <2>3. LifeIsHeld'
    BY <1>3, <2>2 DEF CountInv, LifeIsHeld, B
  <2>4. ASSUME NEW x \in Surfaces \ {s}
        PROVE  (Listed(x)' <=> Listed(x)) /\ Tabled(x)' = Tabled(x)
    BY <1>0, <1>2, <1>5, <2>1, <2>2 DEF Listed, Tabled
  <2>5. /\ Listed(s)' /\ B(Listed(s)) = (IF back THEN 0 ELSE 1)
        /\ Tabled(s)' = Tabled(s) + 1 /\ Tabled(s) \in Nat
    <3>1. obj'[s].id = i
      BY <1>2, <2>2
    <3>2. table'[i] = s /\ users'[i] = IF back THEN 1 ELSE users[i] + 1
      BY <1>0, <1>2, <2>1
    <3>3. Listed(s)'
      BY <1>2, <3>1, <3>2 DEF Listed
    <3>4. Tabled(s)' = users'[i]
      BY <3>1, <3>3 DEF Tabled
    <3>5. CASE table[i] = None
      <4>1. ~Listed(s)
        BY <1>0, <1>2, <3>5 DEF Listed
      <4>2. Tabled(s) = 0 /\ B(Listed(s)) = 0
        BY <4>1 DEF Tabled, B
      <4>3. QED  BY <3>2, <3>3, <3>4, <3>5, <4>2
    <3>6. CASE table[i] = s
      <4>1. Listed(s)
        BY <1>2, <3>6 DEF Listed
      <4>2. Tabled(s) = users[i] /\ B(Listed(s)) = 1 /\ ~back
        BY <1>0, <1>2, <3>6, <4>1 DEF Tabled, B
      <4>3. users[i] \in Nat
        BY <1>0, <1>2
      <4>4. QED  BY <3>2, <3>3, <3>4, <4>2, <4>3
    <3>7. QED  BY <1>5, <3>5, <3>6
  <2>6. UsersPositive'
    <3>1. ASSUME NEW x \in Surfaces, Listed(x)'
          PROVE  users'[obj'[x].id] > 0
      <4>1. CASE x = s
        <5>1. Tabled(s)' = users'[obj'[s].id]
          BY <2>5 DEF Tabled
        <5>2. QED  BY <2>5, <4>1, <5>1
      <4>2. CASE x # s
        <5>1. Tabled(x)' = users'[obj'[x].id] /\ Tabled(x) = users[obj[x].id]
          BY <2>4, <3>1, <4>2 DEF Tabled
        <5>2. users[obj[x].id] > 0
          BY <2>4, <3>1, <4>2 DEF CountInv, UsersPositive
        <5>3. QED  BY <2>4, <4>2, <5>1, <5>2
      <4>3. QED  BY <4>1, <4>2
    <3>2. QED  BY <3>1 DEF UsersPositive
  <2>7. SlotsNamed'
    BY <1>0, <1>2, <2>1, <2>2 DEF CountInv, SlotsNamed
  <2>8. pc'[t] = "addRef" /\ sur'[t] = s /\ then'[t] = then[t]
    BY <1>0, <1>1, <2>1
  <2>9. \A u \in Threads \ {t} :
            /\ sur'[u] = sur[u] /\ pc'[u] = pc[u]
            /\ then'[u] = then[u] /\ outer'[u] = outer[u]
    BY <1>0, <1>1, <2>1
  <2>10. PlaceKnown(t)' /\ pc'[t] \notin Unpublished
    BY <1>0, <1>1, <1>2, <2>2, <2>8 DEF PlaceKnown, InUndo, Holding, Published, Unpublished, Dropping,
                            CallPlaces, OwnRefPlaces
  <2>11. ASSUME NEW x \in Surfaces
         PROVE  /\ Held(t, x)' = Held(t, x)
                /\ Used(t, x) = 0 /\ Used(t, x)' = B(x = s)
    BY <1>1, <2>8 DEF Used, Uses, UserPlaces, Held, Holds, CallPlaces, OwnRefPlaces, Dropping, B
  <2>12. ASSUME NEW x \in Surfaces
         PROVE  /\ Tabled(x)' = Tabled(x) - Used(t, x) + Used(t, x)'
                                   - B(refs[c][x] > 0) + B(refs'[c][x] > 0)
                /\ obj'[x].rc = obj[x].rc - B(Listed(x)) + B(Listed(x)') - B(x \in ported)
                                   + B(x \in ported') - Held(t, x) + Held(t, x)'
                                   - B(refs[c][x] > 0) + B(refs'[c][x] > 0)
    <3>1. /\ B(refs[c][x] > 0) = B(refs'[c][x] > 0) /\ B(refs[c][x] > 0) \in Int
          /\ B(x \in ported) = B(x \in ported') /\ B(x \in ported) \in Int
          /\ Held(t, x) \in Int
      BY <1>1 DEF B, Held, Holds
    <3>2. Tabled(x) \in Int
      BY <1>0 DEF Tabled, Listed
    <3>3. CASE x = s
      <4>1. B(Listed(s)) = (IF back THEN 0 ELSE 1) /\ B(Listed(s)') = 1
        BY <2>5 DEF B
      <4>2. Used(t, s) = 0 /\ Used(t, s)' = 1 /\ Held(t, s)' = Held(t, s)
        BY <1>2, <2>11 DEF B
      <4>3. obj'[s].rc = (IF back THEN obj[s].rc + 1 ELSE obj[s].rc) /\ obj[s].rc \in Nat
        BY <1>2, <2>2 DEF B
      <4>4. Tabled(s)' = Tabled(s) + 1
        BY <2>5
      <4>5. QED  BY <3>1, <3>2, <3>3, <4>1, <4>2, <4>3, <4>4
    <3>4. CASE x # s
      <4>1. Tabled(x)' = Tabled(x) /\ B(Listed(x)) = B(Listed(x)') /\ B(Listed(x)) \in Int
        BY <2>4, <3>4 DEF B
      <4>2. Used(t, x) = 0 /\ Used(t, x)' = 0 /\ Held(t, x)' = Held(t, x)
        BY <2>11, <3>4 DEF B
      <4>3. obj'[x].rc = obj[x].rc /\ obj[x].rc \in Nat
        BY <2>2, <3>4 DEF B
      <4>4. QED  BY <3>1, <3>2, <4>1, <4>2, <4>3
    <3>5. QED  BY <3>3, <3>4
  <2>13. \A x \in Surfaces : x \in ported' \/ refs'[c][x] > 0 => obj[x].id \in Ids
    BY <1>0, <1>1 DEF CountInv, NameKnown
  <2>14. \A x \in Surfaces : obj'[x].id = obj[x].id
    BY <2>2
  <2>15. \A d \in Clients \ {c}, x \in Surfaces : refs'[d][x] > 0 <=> refs[d][x] > 0
    BY <1>1
  <2>16. c \in Clients
    BY <1>0
  <2> HIDE DEF back
  <2>17. QED
    BY <2>3, <2>6, <2>7, <2>9, <2>10, <2>12, <2>13, <2>14, <2>15, <2>16, CountStep
<1>6. QED  BY <1>4, <1>5

(* A reference goes from the client's list into the hands of the call that   *)
(* frees it.                                                               *)
LEMMA CountUnref ==
    ASSUME Types, CountInv, NEW t \in Threads, NEW c \in Clients, NEW s \in Surfaces,
           refs[c][s] > 0, refs' = [refs EXCEPT ![c][s] = 0],
           UNCHANGED <<table, users, obj, ported>>,
           pc' = [pc EXCEPT ![t] = "unmap"],
           sur' = [sur EXCEPT ![t] = s],
           \/ /\ pc[t] \in {"idle", "flush"}
              /\ then' = [then EXCEPT ![t] = "unlock"] \/ then' = [then EXCEPT ![t] = "flush"]
              /\ UNCHANGED outer
           \/ /\ pc[t] = "undo" /\ then' = [then EXCEPT ![t] = "unlockUndo"]
              /\ outer' = [outer EXCEPT ![t] = sur[t]]
    PROVE  CountInv'
<1>0. /\ pc \in [Threads -> Places] /\ sur \in [Threads -> Surfaces \cup {None}]
      /\ then \in [Threads -> Places] /\ outer \in [Threads -> Surfaces \cup {None}]
      /\ table \in [Ids -> Surfaces \cup {None}] /\ users \in [Ids -> Nat]
      /\ None \notin Surfaces /\ PlaceKnown(t)
    BY SurfaceAssumption DEF Types, CountInv
<1>a. /\ ~(refs'[c][s] > 0)
      /\ \A d \in Clients, x \in Surfaces :
            d # c \/ x # s => (refs'[d][x] > 0 <=> refs[d][x] > 0)
    BY DEF Types
<1>1. pc'[t] = "unmap" /\ sur'[t] = s /\ then'[t] \in {"unlock", "flush", "unlockUndo"}
    BY <1>0
<1>2. /\ then'[t] = "unlockUndo" <=> pc[t] = "undo"
      /\ outer[t] = None
      /\ \/ pc[t] \in {"idle", "flush"} /\ outer'[t] = None
         \/ pc[t] = "undo" /\ outer'[t] = sur[t] /\ sur[t] \in Surfaces
  <2>1. outer[t] = None
    BY <1>0 DEF PlaceKnown, InUndo, Dropping
  <2>2. pc[t] = "undo" => sur[t] \in Surfaces
    BY <1>0 DEF PlaceKnown, Holding, CallPlaces
  <2>3. QED  BY <1>0, <2>1, <2>2
<1>3. \A u \in Threads \ {t} :
          /\ sur'[u] = sur[u] /\ pc'[u] = pc[u]
          /\ then'[u] = then[u] /\ outer'[u] = outer[u]
    BY <1>0
<1>4. obj[s].id \in Ids
    BY DEF CountInv, NameKnown
<1>5. PlaceKnown(t)' /\ pc'[t] \notin Unpublished
    BY <1>1, <1>2, <1>4 DEF PlaceKnown, InUndo, Holding, Published, Unpublished, Dropping,
                      CallPlaces, OwnRefPlaces
<1>6. /\ SlotsNamed' /\ UsersPositive'
      /\ \A x \in Surfaces : (Listed(x)' <=> Listed(x)) /\ Tabled(x)' = Tabled(x)
    BY TableStays
<1>7. LifeIsHeld'
    BY DEF CountInv, LifeIsHeld
<1>8. ASSUME NEW x \in Surfaces
      PROVE  /\ Used(t, x) = 0 /\ Used(t, x)' = B(x = s)
             /\ Held(t, x)' = Held(t, x) + B(x = s) /\ Held(t, x) \in Int
    BY <1>0, <1>1, <1>2 DEF Used, Uses, UserPlaces, Held, Holds, CallPlaces, OwnRefPlaces,
                      Dropping, B
<1>9. ASSUME NEW x \in Surfaces
      PROVE  /\ Tabled(x)' = Tabled(x) - Used(t, x) + Used(t, x)'
                                - B(refs[c][x] > 0) + B(refs'[c][x] > 0)
             /\ obj'[x].rc = obj[x].rc - B(Listed(x)) + B(Listed(x)') - B(x \in ported)
                                + B(x \in ported') - Held(t, x) + Held(t, x)'
                                - B(refs[c][x] > 0) + B(refs'[c][x] > 0)
  <2>1. B(Listed(x)) = B(Listed(x)') /\ B(Listed(x)) \in Int /\ Tabled(x)' = Tabled(x)
    BY <1>6 DEF B
  <2>2. obj[x].rc \in Int /\ Tabled(x) \in Int
    BY <1>0, ObjFields DEF Tabled, Listed
  <2>3. B(refs[c][x] > 0) = B(refs'[c][x] > 0) + B(x = s) /\ B(refs'[c][x] > 0) \in Int
    BY <1>a DEF B
  <2>4. B(x \in ported) = B(x \in ported') /\ B(x \in ported) \in Int /\ B(x = s) \in Int
    BY DEF B
  <2>5. obj'[x].rc = obj[x].rc
    BY DEF Goto
  <2>6. Used(t, x) = 0 /\ Used(t, x)' = B(x = s)
        /\ Held(t, x)' = Held(t, x) + B(x = s) /\ Held(t, x) \in Int
    BY <1>8
  <2>7. Tabled(x)' = Tabled(x) - Used(t, x) + Used(t, x)'
                       - B(refs[c][x] > 0) + B(refs'[c][x] > 0)
    BY <2>1, <2>2, <2>3, <2>4, <2>6
  <2>8. obj'[x].rc = obj[x].rc - B(Listed(x)) + B(Listed(x)') - B(x \in ported)
                       + B(x \in ported') - Held(t, x) + Held(t, x)'
                       - B(refs[c][x] > 0) + B(refs'[c][x] > 0)
    BY <2>1, <2>2, <2>3, <2>4, <2>5, <2>6
  <2>9. QED  BY <2>7, <2>8
<1>10. \A x \in Surfaces : x \in ported' \/ refs'[c][x] > 0 => obj[x].id \in Ids
    BY <1>a DEF CountInv, NameKnown
<1>11. QED
    BY <1>a, <1>3, <1>5, <1>6, <1>7, <1>9, <1>10, CountStep

(* trapRelease, UndoRelease and FlushRef.                                  *)
LEMMA CountDrop ==
    ASSUME Types, CountInv, NEW t \in Threads,
           \/ \E s \in Surfaces : trapRelease(t, s) \/ FlushRef(t, s)
           \/ UndoRelease(t)
    PROVE  CountInv'
<1> USE DEF tableVars, memVars, clientVars, local, Goto, With
<1>0. /\ pc \in [Threads -> Places] /\ sur \in [Threads -> Surfaces \cup {None}]
      /\ then \in [Threads -> Places] /\ refs \in [Clients -> [Surfaces -> Nat]]
      /\ owner[t] \in Clients /\ None \notin Surfaces
      /\ PlaceKnown(t)
    BY SurfaceAssumption DEF Types, CountInv
<1> SUFFICES ASSUME NEW c \in Clients, c = owner[t]
             PROVE  CountInv'
    BY <1>0
<1>1. ASSUME NEW s \in Surfaces, FlushRef(t, s)
      PROVE  CountInv'
  <2>1. /\ refs[c][s] > 0 /\ refs' = [refs EXCEPT ![c][s] = 0] /\ pc[t] = "flush"
        /\ pc' = [pc EXCEPT ![t] = "unmap"] /\ sur' = [sur EXCEPT ![t] = s]
        /\ then' = [then EXCEPT ![t] = "flush"]
        /\ UNCHANGED <<table, users, obj, ported, outer>>
    BY <1>1 DEF FlushRef
  <2>3. pc[t] \in {"idle", "flush"}
    BY <2>1
  <2>4. QED  BY <2>1, <2>3, CountUnref
<1>2. ASSUME NEW s \in Surfaces, NEW after, NEW unlock, DropCount(t, s, after, unlock),
             refs[c][s] = 1, UNCHANGED <<table, users, obj, ported>>,
             sur' = [sur EXCEPT ![t] = s],
             \/ pc[t] = "idle" /\ unlock = "unlock" /\ UNCHANGED outer
             \/ /\ pc[t] = "undo" /\ unlock = "unlockUndo"
                /\ outer' = [outer EXCEPT ![t] = sur[t]]
      PROVE  CountInv'
  <2>1. /\ refs[c][s] > 0 /\ refs' = [refs EXCEPT ![c][s] = refs[c][s] - 1]
        /\ pc' = [pc EXCEPT ![t] = "unmap"]
        /\ then' = [then EXCEPT ![t] = unlock]
    BY <1>2 DEF DropCount
  <2>2. refs' = [refs EXCEPT ![c][s] = 0]
    BY <1>2, <2>1
  <2>3. \/ /\ pc[t] \in {"idle", "flush"}
           /\ then' = [then EXCEPT ![t] = "unlock"] \/ then' = [then EXCEPT ![t] = "flush"]
           /\ UNCHANGED outer
        \/ /\ pc[t] = "undo" /\ then' = [then EXCEPT ![t] = "unlockUndo"]
           /\ outer' = [outer EXCEPT ![t] = sur[t]]
    BY <1>2, <2>1
  <2>4. QED  BY <1>2, <2>1, <2>2, <2>3, CountUnref
<1>3. ASSUME NEW s \in Surfaces, NEW after, NEW unlock, DropCount(t, s, after, unlock),
             refs[c][s] > 0, refs[c][s] # 1, UNCHANGED <<table, users, obj, ported, outer>>,
             \/ pc[t] = "idle" /\ after = "idle" /\ sur' = [sur EXCEPT ![t] = None]
             \/ pc[t] = "undo" /\ after = "release" /\ sur' = sur
      PROVE  CountInv'
  <2>1. /\ refs' = [refs EXCEPT ![c][s] = refs[c][s] - 1]
        /\ pc' = [pc EXCEPT ![t] = after] /\ then' = then
    BY <1>3 DEF DropCount
  <2>2. \A d \in Clients, x \in Surfaces : refs'[d][x] > 0 <=> refs[d][x] > 0
    BY <1>0, <1>3, <2>1
  <2>3. \A u \in Threads \ {t} :
            /\ sur'[u] = sur[u] /\ pc'[u] = pc[u]
            /\ then'[u] = then[u] /\ outer'[u] = outer[u]
    BY <1>0, <1>3, <2>1
  <2>4. \/ pc[t] = "idle" /\ pc'[t] = "idle"
        \/ pc[t] = "undo" /\ pc'[t] = "release" /\ sur'[t] = sur[t]
    BY <1>0, <1>3, <2>1
  <2>5. PlaceKnown(t)' /\ pc'[t] \notin Unpublished
    BY <1>0, <1>3, <2>4 DEF PlaceKnown, InUndo, Holding, Published, Unpublished, Dropping,
                      CallPlaces, OwnRefPlaces
  <2>6. \A x \in Surfaces : Used(t, x)' = Used(t, x) /\ Held(t, x)' = Held(t, x)
    BY <1>3, <2>4 DEF Used, Uses, UserPlaces, Held, Holds, CallPlaces, OwnRefPlaces, Dropping, B
  <2>7. QED  BY <1>3, <2>2, <2>3, <2>5, <2>6, QuietStep
<1>4. ASSUME NEW s \in Surfaces, trapRelease(t, s)
      PROVE  CountInv'
  <2>1. /\ DropCount(t, s, "idle", "unlock") /\ refs[c][s] > 0 /\ pc[t] = "idle"
        /\ UNCHANGED <<table, users, obj, ported, outer>>
        /\ sur' = [sur EXCEPT ![t] = IF refs[c][s] = 1 THEN s ELSE None]
    BY <1>4 DEF trapRelease, Calls
  <2>2. CASE refs[c][s] = 1
    BY <1>2, <2>1, <2>2
  <2>3. CASE refs[c][s] # 1
    BY <1>3, <2>1, <2>3
  <2>4. QED  BY <2>2, <2>3
<1>5. CASE UndoRelease(t)
  <2>1. pc[t] = "undo" /\ UNCHANGED <<table, users, obj, ported>>
    BY <1>5 DEF UndoRelease
  <2>2. sur[t] \in Surfaces
    BY <1>0, <2>1 DEF PlaceKnown, Holding, CallPlaces
  <2>3. ASSUME NEW s \in findRef(t), DropCount(t, s, "release", "unlockUndo"),
               IF refs[owner[t]][s] = 1
               THEN sur' = [sur EXCEPT ![t] = s] /\ outer' = [outer EXCEPT ![t] = sur[t]]
               ELSE UNCHANGED <<sur, outer>>
        PROVE  CountInv'
    <3>1. s \in Surfaces /\ refs[c][s] > 0
      BY DEF findRef
    <3>2. CASE refs[c][s] = 1
      BY <1>2, <2>1, <2>3, <3>1, <3>2
    <3>3. CASE refs[c][s] # 1
      BY <1>3, <2>1, <2>3, <3>1, <3>3
    <3>4. QED  BY <3>2, <3>3
  <2>4. CASE Goto(t, "release") /\ UNCHANGED <<refs, fLock, then, sur, outer>>
    <3>1. UNCHANGED <<refs, then, sur, outer>> /\ pc' = [pc EXCEPT ![t] = "release"]
      BY <2>4
    <3>2. \A u \in Threads \ {t} :
              /\ sur'[u] = sur[u] /\ pc'[u] = pc[u]
              /\ then'[u] = then[u] /\ outer'[u] = outer[u]
      BY <1>0, <3>1
    <3>3. pc'[t] = "release" /\ sur'[t] = sur[t]
      BY <1>0, <3>1
    <3>4. PlaceKnown(t)' /\ pc'[t] \notin Unpublished
      BY <1>0, <2>1, <2>2, <3>1, <3>3 DEF PlaceKnown, InUndo, Holding, Published, Unpublished,
                                          Dropping
    <3>5. \A x \in Surfaces : Used(t, x)' = Used(t, x) /\ Held(t, x)' = Held(t, x)
      BY <2>1, <3>1, <3>3 DEF Used, Uses, UserPlaces, Held, Holds, CallPlaces, OwnRefPlaces,
                        Dropping, B
    <3>6. QED  BY <2>1, <3>1, <3>2, <3>4, <3>5, QuietStep
  <2>5. QED  BY <1>5, <2>3, <2>4 DEF UndoRelease
<1>6. QED  BY <1>1, <1>4, <1>5

(* The other way: a reference is put into the client's list.                *)
LEMMA CountInsert ==
    ASSUME Types, CountInv, NEW t \in Threads, InsertRef(t)
    PROVE  CountInv'
<1> USE DEF tableVars, memVars, clientVars, local, Goto, With
<1>0. /\ pc \in [Threads -> Places] /\ sur \in [Threads -> Surfaces \cup {None}]
      /\ then \in [Threads -> Places] /\ refs \in [Clients -> [Surfaces -> Nat]]
      /\ owner[t] \in Clients /\ users \in [Ids -> Nat]
      /\ PlaceKnown(t)
    BY DEF Types, CountInv
<1> SUFFICES ASSUME NEW c \in Clients, c = owner[t], NEW s, s = sur[t]
             PROVE  CountInv'
    BY <1>0
<1>1. /\ pc[t] = "insert" /\ UNCHANGED <<table, users, obj, ported, sur, outer>>
      /\ refs' = [refs EXCEPT ![c][s] = refs[c][s] + 1]
      /\ IF refs[c][s] > 0
         THEN pc' = [pc EXCEPT ![t] = "unmap"] /\ then' = [then EXCEPT ![t] = "fill"]
         ELSE pc' = [pc EXCEPT ![t] = "fill"] /\ then' = then
    BY DEF InsertRef, Ref
<1>2. s \in Surfaces /\ obj[s].id \in Ids
    BY <1>0, <1>1 DEF PlaceKnown, Holding, Published, Unpublished, CallPlaces
<1>3. \A u \in Threads \ {t} :
          /\ sur'[u] = sur[u] /\ pc'[u] = pc[u]
          /\ then'[u] = then[u] /\ outer'[u] = outer[u]
    BY <1>0, <1>1
<1>4. /\ refs'[c][s] > 0 /\ sur'[t] = s
      /\ \A d \in Clients, x \in Surfaces :
             d # c \/ x # s => (refs'[d][x] > 0 <=> refs[d][x] > 0)
    BY <1>0, <1>1, <1>2
<1>5. IF refs[c][s] > 0 THEN pc'[t] = "unmap" /\ then'[t] = "fill" ELSE pc'[t] = "fill"
    BY <1>0, <1>1
<1>6. PlaceKnown(t)' /\ pc'[t] \notin Unpublished
    BY <1>0, <1>1, <1>2, <1>4, <1>5 DEF PlaceKnown, InUndo, Holding, Published, Unpublished, Dropping,
                      CallPlaces, OwnRefPlaces
<1>7. /\ SlotsNamed' /\ UsersPositive'
      /\ \A x \in Surfaces : (Listed(x)' <=> Listed(x)) /\ Tabled(x)' = Tabled(x)
    BY <1>1, TableStays
<1>8. LifeIsHeld'
    BY <1>1 DEF CountInv, LifeIsHeld
<1>9. ASSUME NEW x \in Surfaces
      PROVE  /\ Used(t, x)' = Used(t, x) + B(refs[c][x] > 0) - B(refs'[c][x] > 0)
             /\ Held(t, x)' = Held(t, x) + B(refs[c][x] > 0) - B(refs'[c][x] > 0)
  <2>1. CASE x = s
    BY <1>1, <1>4, <1>5, <2>1 DEF Used, Uses, UserPlaces, Held, Holds, CallPlaces,
                      OwnRefPlaces, Dropping, B
  <2>2. CASE x # s
    <3>1. B(refs[c][x] > 0) = B(refs'[c][x] > 0) /\ B(refs[c][x] > 0) \in Int
      BY <1>4, <2>2 DEF B
    <3>2. /\ Used(t, x) = 0 /\ Used(t, x)' = 0
          /\ Held(t, x)' = Held(t, x) /\ Held(t, x) \in Int
      BY <1>1, <1>4, <2>2 DEF Used, Held, B
    <3>3. QED  BY <3>1, <3>2
  <2>3. QED  BY <2>1, <2>2
<1>10. ASSUME NEW x \in Surfaces
       PROVE  /\ Tabled(x)' = Tabled(x) - Used(t, x) + Used(t, x)'
                                - B(refs[c][x] > 0) + B(refs'[c][x] > 0)
              /\ obj'[x].rc = obj[x].rc - B(Listed(x)) + B(Listed(x)') - B(x \in ported)
                                + B(x \in ported') - Held(t, x) + Held(t, x)'
                                - B(refs[c][x] > 0) + B(refs'[c][x] > 0)
  <2>1. B(Listed(x)) = B(Listed(x)') /\ B(Listed(x)) \in Int /\ Tabled(x)' = Tabled(x)
    BY <1>7 DEF B
  <2>2. obj[x].rc \in Int /\ Tabled(x) \in Int /\ obj'[x].rc = obj[x].rc
    BY <1>0, <1>1, ObjFields DEF Tabled, Listed
  <2>3. /\ B(refs[c][x] > 0) \in Int /\ B(refs'[c][x] > 0) \in Int
        /\ Used(t, x) \in Int /\ Held(t, x) \in Int
    BY DEF B, Used, Uses, Held, Holds
  <2>4. B(x \in ported) = B(x \in ported') /\ B(x \in ported) \in Int
    BY <1>1 DEF B
  <2>5. QED  BY <1>9, <2>1, <2>2, <2>3, <2>4
<1>11. \A x \in Surfaces : x \in ported' \/ refs'[c][x] > 0 => obj[x].id \in Ids
    BY <1>1, <1>2, <1>4 DEF CountInv, NameKnown
<1>12. \A d \in Clients \ {c}, x \in Surfaces : refs'[d][x] > 0 <=> refs[d][x] > 0
    BY <1>4
<1>13. \A x \in Surfaces : obj'[x].id = obj[x].id
    BY <1>1
<1>14. QED
    BY <1>3, <1>6, <1>7, <1>8, <1>10, <1>11, <1>12, <1>13, CountStep

(* Nobody holds a surface that is not alive.                                *)
LEMMA DeadIsFree ==
    ASSUME Types, CountInv, NEW s \in Surfaces, obj[s].life # "live"
    PROVE  /\ obj[s].rc = 0 /\ s \notin ported
           /\ \A i \in Ids : table[i] # s
           /\ \A c \in Clients : ~(refs[c][s] > 0)
           /\ \A t \in Threads : sur[t] = s => pc[t] \notin Holding \cup Dropping
<1>1. obj[s].rc = 0
    BY ObjFields DEF CountInv, LifeIsHeld
<1>2. ~Listed(s) /\ s \notin ported
    BY HeldIsLive
<1>3. \A i \in Ids : table[i] # s
    BY <1>2, SurfaceAssumption DEF CountInv, SlotsNamed, Listed
<1>4. /\ \A c \in Clients : ~(refs[c][s] > 0)
      /\ \A t \in Threads : sur[t] = s => pc[t] \notin Holding \cup Dropping
    BY HeldIsLive
<1>5. QED  BY <1>1, <1>2, <1>3, <1>4

LEMMA CountCreate ==
    ASSUME Types, CountInv, NEW t \in Threads, NEW s \in Surfaces, NEW size \in Sizes,
           CreateBegin(t, s, size)
    PROVE  CountInv'
<1> USE DEF tableVars, memVars, clientVars, local, Goto, With
<1> SUFFICES ASSUME NEW c \in Clients, c = owner[t]
             PROVE  CountInv'
    BY DEF Types
<1>0. /\ pc \in [Threads -> Places] /\ sur \in [Threads -> Surfaces \cup {None}]
      /\ obj \in [Surfaces -> ObjType] /\ users \in [Ids -> Nat]
      /\ table \in [Ids -> Surfaces \cup {None}] /\ 0 \notin Ids
      /\ None \notin Surfaces /\ PlaceKnown(t)
    BY SurfaceAssumption DEF Types, Ids, CountInv
<1>1. /\ pc[t] = "idle" /\ obj[s].life = "none" /\ sur' = [sur EXCEPT ![t] = s]
      /\ UNCHANGED <<table, users, refs, ported, then, outer>>
      /\ pc' = [pc EXCEPT ![t] = "kept"] \/ pc' = [pc EXCEPT ![t] = "reserve"]
         \/ pc' = [pc EXCEPT ![t] = "release"]
    BY DEF CreateBegin, Calls
<1>2. /\ obj[s].rc = 0 /\ s \notin ported
      /\ \A i \in Ids : table[i] # s
      /\ \A d \in Clients : ~(refs[d][s] > 0)
      /\ \A u \in Threads : sur[u] = s => pc[u] \notin Holding \cup Dropping
    BY <1>1, DeadIsFree
<1>3. /\ \A x \in Surfaces \ {s} : obj'[x] = obj[x]
      /\ obj'[s].life = "live" /\ obj'[s].rc = 1 /\ obj'[s].id = 0
  <2>1. obj' = [obj EXCEPT ![s] = [NoObj EXCEPT !.life = "live", !.rc = 1, !.size = size]]
    BY DEF CreateBegin
  <2>2. obj'[s] = [NoObj EXCEPT !.life = "live", !.rc = 1, !.size = size]
    BY <1>0, <2>1
  <2>3. obj'[s].life = "live" /\ obj'[s].rc = 1 /\ obj'[s].id = 0
    <3> DEFINE new == [NoObj EXCEPT !.life = "live", !.rc = 1, !.size = size]
    <3>1. new.life = "live" /\ new.rc = 1 /\ new.id = 0
      BY NewObj
    <3> HIDE DEF new
    <3>2. obj'[s] = new
      BY <2>2 DEF new
    <3>3. QED  BY <3>1, <3>2
  <2>4. \A x \in Surfaces \ {s} : obj'[x] = obj[x]
    BY <1>0, <2>1
  <2>5. QED  BY <2>3, <2>4
<1>4. \A u \in Threads \ {t} :
          /\ sur'[u] = sur[u] /\ pc'[u] = pc[u]
          /\ then'[u] = then[u] /\ outer'[u] = outer[u]
    BY <1>0, <1>1
<1>5. sur'[t] = s /\ pc'[t] \in {"kept", "reserve", "release"}
      /\ then'[t] = then[t] /\ outer[t] = None /\ outer'[t] = None
    BY <1>0, <1>1 DEF PlaceKnown, InUndo, Dropping
<1>6. /\ ~Listed(s) /\ ~Listed(s)' /\ Tabled(s) = 0 /\ Tabled(s)' = 0
      /\ \A x \in Surfaces \ {s} : (Listed(x)' <=> Listed(x)) /\ Tabled(x)' = Tabled(x)
    BY <1>0, <1>1, <1>2, <1>3 DEF Listed, Tabled
<1>7. ASSUME NEW x \in Surfaces
      PROVE  /\ Tabled(x)' = Tabled(x) - Used(t, x) + Used(t, x)'
                                - B(refs[c][x] > 0) + B(refs'[c][x] > 0)
             /\ obj'[x].rc = obj[x].rc - B(Listed(x)) + B(Listed(x)') - B(x \in ported)
                                + B(x \in ported') - Held(t, x) + Held(t, x)'
                                - B(refs[c][x] > 0) + B(refs'[c][x] > 0)
  <2>1. Used(t, x) = 0 /\ Used(t, x)' = 0 /\ Held(t, x) = 0 /\ Held(t, x)' = B(x = s)
    BY <1>0, <1>1, <1>5 DEF Used, Uses, UserPlaces, Held, Holds, CallPlaces, OwnRefPlaces,
                      Dropping, B
  <2>2. /\ B(refs[c][x] > 0) = B(refs'[c][x] > 0) /\ B(refs[c][x] > 0) \in Int
        /\ B(x \in ported) = B(x \in ported') /\ B(x \in ported) \in Int
        /\ B(Listed(x)) = B(Listed(x)') /\ B(Listed(x)) \in Int
    BY <1>1, <1>6 DEF B
  <2>3. Tabled(x)' = Tabled(x) /\ Tabled(x) \in Int
    BY <1>0, <1>6 DEF Tabled, Listed
  <2>4. obj'[x].rc = obj[x].rc + B(x = s) /\ obj[x].rc \in Int /\ B(x = s) \in Int
    BY <1>2, <1>3, ObjFields DEF B
  <2>5. QED  BY <2>1, <2>2, <2>3, <2>4
<1>8. UsersExact' /\ RetainsExact'
    BY <1>1, <1>4, <1>7, Balance DEF UsersExact, RetainsExact
<1>9. SlotsNamed'
    BY <1>0, <1>1, <1>2, <1>3 DEF CountInv, SlotsNamed
<1>10. UsersPositive'
    BY <1>1, <1>3, <1>6 DEF CountInv, UsersPositive
<1>11. LifeIsHeld'
    BY <1>3 DEF CountInv, LifeIsHeld
<1>12. ASSUME NEW u \in Threads
       PROVE  PlaceKnown(u)'
  <2>1. CASE u = t
    BY <1>3, <1>5, <2>1 DEF PlaceKnown, InUndo, Published, Unpublished, Dropping
  <2>2. CASE u # t
    <3>1. PlaceKnown(u) /\ (pc[u] \in Unpublished \cup Published => pc[u] \in Holding)
      BY DEF CountInv, Unpublished, Published, Holding, CallPlaces
    <3>2. pc[u] \in Holding => sur[u] \in Surfaces \ {s}
      BY <1>2, <3>1 DEF PlaceKnown
    <3>3. pc[u] \in Holding => obj'[sur[u]] = obj[sur[u]]
      BY <1>3, <3>2
    <3>4. QED  BY <1>4, <2>2, <3>1, <3>2, <3>3 DEF PlaceKnown
  <2>3. QED  BY <2>1, <2>2
<1>13. ASSUME NEW x \in Surfaces
       PROVE  NameKnown(x)'
    BY <1>1, <1>2, <1>3 DEF CountInv, NameKnown
<1>14. CreatorsApart'
  <2>1. \A u \in Threads \ {t} : pc[u] \in Unpublished => sur[u] # s
    BY <1>2 DEF Unpublished, Holding, CallPlaces
  <2>2. QED  BY <1>4, <1>5, <2>1 DEF CountInv, CreatorsApart
<1>15. QED
    BY <1>8, <1>9, <1>10, <1>11, <1>12, <1>13, <1>14 DEF CountInv

LEMMA CountPublish ==
    ASSUME Types, CountInv, NEW t \in Threads, sweet_surface_publish(t)
    PROVE  CountInv'
<1> USE DEF tableVars, memVars, clientVars, local, Goto, With
<1> SUFFICES ASSUME NEW c \in Clients, c = owner[t], NEW s, s = sur[t]
             PROVE  CountInv'
    BY DEF Types
<1>0. /\ pc \in [Threads -> Places] /\ sur \in [Threads -> Surfaces \cup {None}]
      /\ obj \in [Surfaces -> ObjType] /\ users \in [Ids -> Nat]
      /\ table \in [Ids -> Surfaces \cup {None}] /\ 0 \notin Ids /\ None \notin Surfaces
      /\ PlaceKnown(t)
    BY SurfaceAssumption DEF Types, Ids, CountInv
<1>1. /\ pc[t] = "publish"
      /\ UNCHANGED <<refs, ported, then, sur, outer>>
    BY DEF sweet_surface_publish
<1>2. s \in Surfaces /\ obj[s].id = 0
    BY <1>0, <1>1 DEF PlaceKnown, Holding, CallPlaces, Unpublished
<1>3. obj[s].life = "live"
    BY <1>1, <1>2, HeldIsLive DEF Holding, CallPlaces
<1>4. CASE FreeIds = {}
  <2>1. UNCHANGED <<table, users, obj>> /\ pc' = [pc EXCEPT ![t] = "release"]
    BY <1>4 DEF sweet_surface_publish
  <2>2. pc'[t] = "release" /\ sur'[t] = s
    BY <1>0, <1>1, <2>1
  <2>3. \A u \in Threads \ {t} :
            /\ sur'[u] = sur[u] /\ pc'[u] = pc[u]
            /\ then'[u] = then[u] /\ outer'[u] = outer[u]
    BY <1>0, <1>1, <2>1
  <2>4. PlaceKnown(t)' /\ pc'[t] \notin Unpublished
    BY <1>0, <1>1, <1>2, <2>2 DEF PlaceKnown, InUndo, Holding, Published, Unpublished, Dropping
  <2>5. \A x \in Surfaces : Used(t, x)' = Used(t, x) /\ Held(t, x)' = Held(t, x)
    BY <1>1, <2>2 DEF Used, Uses, UserPlaces, Held, Holds, CallPlaces, OwnRefPlaces,
                        Dropping, B
  <2>6. QED  BY <1>1, <2>1, <2>3, <2>4, <2>5, QuietStep
<1>5. CASE FreeIds # {}
  <2>1. PICK i \in Ids : i = NextFree /\ table[i] = None
    BY <1>5, NextFreeIsFree DEF FreeIds
  <2>2. /\ table' = [table EXCEPT ![i] = s]
        /\ users' = [users EXCEPT ![i] = 1]
        /\ obj' = [obj EXCEPT ![s].id = i, ![s].rc = @ + 1]
        /\ pc' = [pc EXCEPT ![t] = "addRef"]
    BY <1>5, <2>1 DEF sweet_surface_publish
  <2>3. /\ \A x \in Surfaces \ {s} : obj'[x] = obj[x]
        /\ obj'[s].life = "live" /\ obj'[s].rc = obj[s].rc + 1 /\ obj'[s].id = i
    BY <1>2, <1>3, <2>1, <2>2, PublishedFields
  <2>4. \A u \in Threads \ {t} :
            /\ sur'[u] = sur[u] /\ pc'[u] = pc[u]
            /\ then'[u] = then[u] /\ outer'[u] = outer[u]
    BY <1>0, <1>1, <2>2
  <2>5. sur'[t] = s /\ pc'[t] = "addRef" /\ then'[t] = then[t]
    BY <1>0, <1>1, <2>2
  <2>6. /\ ~Listed(s) /\ Listed(s)' /\ Tabled(s) = 0 /\ Tabled(s)' = 1
    BY <1>0, <1>2, <2>2, <2>3 DEF Listed, Tabled
  <2>7. ASSUME NEW x \in Surfaces \ {s}
        PROVE  (Listed(x)' <=> Listed(x)) /\ Tabled(x)' = Tabled(x)
    BY <1>0, <2>1, <2>2, <2>3 DEF Listed, Tabled
  <2>8. ASSUME NEW x \in Surfaces
        PROVE  /\ Tabled(x)' = Tabled(x) - Used(t, x) + Used(t, x)'
                                  - B(refs[c][x] > 0) + B(refs'[c][x] > 0)
               /\ obj'[x].rc = obj[x].rc - B(Listed(x)) + B(Listed(x)') - B(x \in ported)
                                  + B(x \in ported') - Held(t, x) + Held(t, x)'
                                  - B(refs[c][x] > 0) + B(refs'[c][x] > 0)
    <3>1. /\ Used(t, x) = 0 /\ Used(t, x)' = B(x = s) /\ Held(t, x)' = Held(t, x)
          /\ Held(t, x) \in Int
      BY <1>1, <2>5 DEF Used, Uses, UserPlaces, Held, Holds, CallPlaces, OwnRefPlaces,
                        Dropping, B
    <3>2. /\ B(refs[c][x] > 0) = B(refs'[c][x] > 0) /\ B(refs[c][x] > 0) \in Int
          /\ B(x \in ported) = B(x \in ported') /\ B(x \in ported) \in Int
      BY <1>1 DEF B
    <3>3. B(Listed(x)') = B(Listed(x)) + B(x = s) /\ B(Listed(x)) \in Int
      BY <2>6, <2>7 DEF B
    <3>4. Tabled(x)' = Tabled(x) + B(x = s) /\ Tabled(x) \in Int
      <4>1. Tabled(x) \in Int
        BY <1>0 DEF Tabled, Listed
      <4>2. QED  BY <2>6, <2>7, <4>1 DEF B
    <3>5. obj'[x].rc = obj[x].rc + B(x = s) /\ obj[x].rc \in Int /\ B(x = s) \in Int
      BY <1>2, <2>3, ObjFields DEF B
    <3>6. QED  BY <3>1, <3>2, <3>3, <3>4, <3>5
  <2>9. UsersExact' /\ RetainsExact'
    BY <1>1, <2>4, <2>8, Balance DEF UsersExact, RetainsExact
  <2>10. SlotsNamed'
    <3>1. \A j \in Ids : table[j] # s
      BY <1>0, <1>2 DEF CountInv, SlotsNamed
    <3>2. QED  BY <1>0, <2>2, <2>3, <3>1 DEF CountInv, SlotsNamed
  <2>11. UsersPositive'
    <3>1. ASSUME NEW x \in Surfaces, Listed(x)'
          PROVE  users'[obj'[x].id] > 0
      <4>1. CASE x = s
        <5>1. Tabled(s)' = users'[obj'[s].id]
          BY <2>6 DEF Tabled
        <5>2. QED  BY <2>6, <4>1, <5>1
      <4>2. CASE x # s
        <5>1. Tabled(x)' = users'[obj'[x].id] /\ Tabled(x) = users[obj[x].id]
          BY <2>7, <3>1, <4>2 DEF Tabled
        <5>2. users[obj[x].id] > 0
          BY <2>7, <3>1, <4>2 DEF CountInv, UsersPositive
        <5>3. QED  BY <2>7, <4>2, <5>1, <5>2
      <4>3. QED  BY <4>1, <4>2
    <3>2. QED  BY <3>1 DEF UsersPositive
  <2>12. LifeIsHeld'
    BY <1>2, <2>3, ObjFields DEF CountInv, LifeIsHeld
  <2>13. ASSUME NEW u \in Threads
         PROVE  PlaceKnown(u)'
    <3>1. CASE u = t
      BY <1>0, <1>1, <1>2, <2>3, <2>5, <3>1 DEF PlaceKnown, InUndo, Published, Unpublished, Dropping
    <3>2. CASE u # t
      <4>1. PlaceKnown(u) /\ (pc[u] \in Unpublished \cup Published => pc[u] \in Holding)
        BY DEF CountInv, Unpublished, Published, Holding, CallPlaces
      <4>2. pc[u] \in Unpublished => sur[u] # s
        BY <1>1, <3>2 DEF CountInv, CreatorsApart, Unpublished
      <4>3. pc[u] \in Published => sur[u] # s
        BY <1>0, <1>2, <4>1 DEF PlaceKnown
      <4>4. pc[u] \in Unpublished \cup Published => obj'[sur[u]] = obj[sur[u]]
        BY <2>3, <4>1, <4>2, <4>3 DEF PlaceKnown
      <4>5. QED  BY <2>4, <3>2, <4>1, <4>4 DEF PlaceKnown
    <3>3. QED  BY <3>1, <3>2
  <2>14. ASSUME NEW x \in Surfaces
         PROVE  NameKnown(x)'
    BY <1>1, <2>3 DEF CountInv, NameKnown
  <2>15. CreatorsApart'
    BY <2>4, <2>5 DEF CountInv, CreatorsApart, Unpublished
  <2>16. QED
    BY <2>9, <2>10, <2>11, <2>12, <2>13, <2>14, <2>15 DEF CountInv
<1>6. QED  BY <1>4, <1>5

(* A step of the freeing of a surface.                                      *)
LEMMA CountFree ==
    ASSUME Types, CountInv, NEW s \in Surfaces, obj[s].life # "live",
           UNCHANGED <<pc, sur, then, outer, refs, table, users, ported>>,
           \A x \in Surfaces \ {s} : obj'[x] = obj[x],
           obj'[s].life # "live", obj'[s].rc = 0
    PROVE  CountInv'
<1>0. /\ table \in [Ids -> Surfaces \cup {None}] /\ None \notin Surfaces
    BY SurfaceAssumption DEF Types
<1>1. /\ obj[s].rc = 0 /\ s \notin ported
      /\ \A i \in Ids : table[i] # s
      /\ \A d \in Clients : ~(refs[d][s] > 0)
      /\ \A u \in Threads : sur[u] = s => pc[u] \notin Holding \cup Dropping
    BY DeadIsFree
<1>2. ~Listed(s) /\ ~Listed(s)' /\ Tabled(s) = 0 /\ Tabled(s)' = 0
    BY <1>1 DEF Listed, Tabled
<1>3. ASSUME NEW x \in Surfaces
      PROVE  /\ Listed(x)' <=> Listed(x)
             /\ Tabled(x)' = Tabled(x)
             /\ obj'[x].rc = obj[x].rc
    BY <1>1, <1>2 DEF Listed, Tabled
<1>4. ASSUME NEW x \in Surfaces
      PROVE  /\ Cardinality(RefHolders(x)') + CallUsers(x)' = Tabled(x)'
             /\ obj'[x].rc = B(Listed(x)') + Cardinality(RefHolders(x)')
                             + B(x \in ported') + CallHolds(x)'
  <2>1. /\ CallHolds(x)' = CallHolds(x) /\ CallUsers(x)' = CallUsers(x)
        /\ Cardinality(RefHolders(x)') = Cardinality(RefHolders(x))
    BY NobodyMoves
  <2>2. /\ Cardinality(RefHolders(x)) + CallUsers(x) = Tabled(x)
        /\ obj[x].rc = B(Listed(x)) + Cardinality(RefHolders(x)) + B(x \in ported)
                       + CallHolds(x)
    BY DEF CountInv, UsersExact, RetainsExact
  <2>3. B(Listed(x)') = B(Listed(x)) /\ B(x \in ported') = B(x \in ported)
    BY <1>3 DEF B
  <2>4. QED  BY <1>3, <2>1, <2>2, <2>3
<1>5. UsersExact' /\ RetainsExact'
    BY <1>4 DEF UsersExact, RetainsExact
<1>6. SlotsNamed'
    BY <1>0, <1>1 DEF CountInv, SlotsNamed
<1>7. UsersPositive'
    BY <1>2 DEF CountInv, UsersPositive, Listed
<1>8. LifeIsHeld'
    BY DEF CountInv, LifeIsHeld
<1>9. ASSUME NEW u \in Threads
      PROVE  PlaceKnown(u)'
  <2>1. PlaceKnown(u) /\ (pc[u] \in Unpublished \cup Published => pc[u] \in Holding)
    BY DEF CountInv, Unpublished, Published, Holding, CallPlaces
  <2>2. pc[u] \in Holding => sur[u] \in Surfaces \ {s}
    BY <1>1, <2>1 DEF PlaceKnown
  <2>3. QED  BY <2>1, <2>2 DEF PlaceKnown
<1>10. ASSUME NEW x \in Surfaces
       PROVE  NameKnown(x)'
    BY <1>1 DEF CountInv, NameKnown
<1>11. CreatorsApart'
    BY DEF CountInv, CreatorsApart
<1>12. QED
    BY <1>5, <1>6, <1>7, <1>8, <1>9, <1>10, <1>11 DEF CountInv

LEMMA CountPortGone ==
    ASSUME Types, CountInv, NEW s \in Surfaces, PortGone(s)
    PROVE  CountInv'
<1> USE DEF tableVars, memVars, clientVars, local
<1>1. /\ s \in ported /\ ported' = ported \ {s} /\ obj' = Released(s)
      /\ UNCHANGED <<pc, sur, then, outer, refs, table, users>>
    BY DEF PortGone
<1>2. obj[s].rc > 0
    BY <1>1, HeldIsLive
<1>3. \A x \in Surfaces : /\ obj'[x].id = obj[x].id
                          /\ obj'[x].life = IF x = s /\ obj[s].rc = 1 THEN "dying"
                                            ELSE obj[x].life
                          /\ obj'[x].rc = obj[x].rc - B(x = s)
                          /\ obj[x].rc \in Nat
    BY <1>1, <1>2, ReleasedFields, ObjFields
<1>4. /\ SlotsNamed' /\ UsersPositive'
      /\ \A x \in Surfaces : (Listed(x)' <=> Listed(x)) /\ Tabled(x)' = Tabled(x)
    BY <1>1, <1>3, TableStays
<1>5. ASSUME NEW x \in Surfaces
      PROVE  /\ Cardinality(RefHolders(x)') + CallUsers(x)' = Tabled(x)'
             /\ obj'[x].rc = B(Listed(x)') + Cardinality(RefHolders(x)')
                             + B(x \in ported') + CallHolds(x)'
  <2>1. /\ CallHolds(x)' = CallHolds(x) /\ CallUsers(x)' = CallUsers(x)
        /\ Cardinality(RefHolders(x)') = Cardinality(RefHolders(x))
        /\ CallHolds(x) \in Nat /\ Cardinality(RefHolders(x)) \in Nat
    BY <1>1, NobodyMoves
  <2>2. /\ Cardinality(RefHolders(x)) + CallUsers(x) = Tabled(x)
        /\ obj[x].rc = B(Listed(x)) + Cardinality(RefHolders(x)) + B(x \in ported)
                       + CallHolds(x)
    BY DEF CountInv, UsersExact, RetainsExact
  <2>3. /\ B(Listed(x)') = B(Listed(x)) /\ B(Listed(x)) \in Int
        /\ B(x \in ported') = B(x \in ported) - B(x = s)
        /\ B(x \in ported) \in Int /\ B(x = s) \in Int
    BY <1>1, <1>4 DEF B
  <2>4. QED  BY <1>3, <1>4, <2>1, <2>2, <2>3
<1>6. UsersExact' /\ RetainsExact'
    BY <1>5 DEF UsersExact, RetainsExact
<1>7. LifeIsHeld'
    BY <1>2, <1>3 DEF CountInv, LifeIsHeld, B
<1>8. ASSUME NEW u \in Threads
      PROVE  PlaceKnown(u)'
  <2>1. PlaceKnown(u) /\ (pc[u] \in Unpublished \cup Published => pc[u] \in Holding)
    BY DEF CountInv, Unpublished, Published, Holding, CallPlaces
  <2>2. QED  BY <1>1, <1>3, <2>1 DEF PlaceKnown
<1>9. ASSUME NEW x \in Surfaces
      PROVE  NameKnown(x)'
    BY <1>1, <1>3 DEF CountInv, NameKnown
<1>10. CreatorsApart'
    BY <1>1 DEF CountInv, CreatorsApart
<1>11. QED
    BY <1>4, <1>6, <1>7, <1>8, <1>9, <1>10 DEF CountInv

(* Nothing the counts depend on changes.                                   *)
LEMMA CountStays ==
    ASSUME CountInv, UNCHANGED <<pc, sur, then, outer, refs, table, users, ported, obj>>
    PROVE  CountInv'
<1>1. \A s : /\ CallHolds(s)' = CallHolds(s) /\ CallUsers(s)' = CallUsers(s)
             /\ RefHolders(s)' = RefHolders(s)
    BY DEF CallHolds, CallUsers, ThreadsAt, InnerDrop, RefHolders, Undoing
<1>2. \A s : (Listed(s)' <=> Listed(s)) /\ Tabled(s)' = Tabled(s)
    BY DEF Listed, Tabled
<1>3. UsersExact' /\ UsersPositive'
    BY <1>1, <1>2 DEF CountInv, UsersExact, UsersPositive
<1>4. RetainsExact'
    BY <1>1, <1>2 DEF CountInv, RetainsExact, B
<1>5. SlotsNamed' /\ LifeIsHeld' /\ CreatorsApart'
    BY DEF CountInv, SlotsNamed, LifeIsHeld, CreatorsApart
<1>6. \A t \in Threads : PlaceKnown(t)'
    BY DEF CountInv, PlaceKnown
<1>7. \A s \in Surfaces : NameKnown(s)'
    BY DEF CountInv, NameKnown
<1>8. QED  BY <1>3, <1>4, <1>5, <1>6, <1>7 DEF CountInv

LEMMA CountNext ==
    ASSUME Types, CountInv, Next
    PROVE  CountInv'
<1>1. ASSUME NEW t \in Threads, Call(t)
      PROVE  CountInv'
  <2>1. ASSUME NEW s \in Surfaces, NEW size \in Sizes, CreateBegin(t, s, size)
        PROVE  CountInv'
    BY <2>1, CountCreate
  <2>2. QED  BY <1>1, <2>1, CountLookups, CountDrop, CountQuiet DEF Call
<1>2. ASSUME NEW t \in Threads, Continue(t)
      PROVE  CountInv'
  <2>1. CASE \E s \in Surfaces : FlushRef(t, s)
    BY <2>1, CountDrop
  <2>2. CASE UndoRelease(t)
    BY <2>2, CountDrop
  <2>3. CASE AllocRef(t) \/ CreatePort(t) \/ PutExisting(t) \/ PutRef(t)
    BY <2>3, CountPuts, CountLookups
  <2>4. CASE ReleaseSurface(t) \/ ReleaseRef(t)
    BY <2>4, CountRelease
  <2>5. CASE sweet_surface_get(t) \/ sweet_surface_publish(t) \/ InsertRef(t)
    BY <2>5, CountGet, CountPublish, CountInsert
  <2>6. CASE \/ TakeKept(t) \/ Reserve(t) \/ GetBuf(t) \/ Unreserve(t) \/ ZeroBuf(t)
             \/ FindExisting(t) \/ MapRef(t) \/ FillResult(t) \/ UnmapRef(t)
             \/ UnlockClient(t) \/ FlushEnd(t)
    BY <2>6, CountQuiet
  <2>7. QED  BY <1>2, <2>1, <2>2, <2>3, <2>4, <2>5, <2>6 DEF Continue
<1>3. ASSUME NEW s \in Surfaces, FreeSurface(s)
      PROVE  CountInv'
  <2>0. obj \in [Surfaces -> ObjType]
    BY DEF Types
  <2>1. CASE KeepBuffer(s)
    <3>1. /\ obj[s].life = "dying" /\ UNCHANGED <<pc, sur, then, outer, refs, table, users, ported>>
          /\ \/ obj' = [obj EXCEPT ![s] = NoObj]
             \/ obj' = [obj EXCEPT ![s].life = "unwire"]
      BY <2>1 DEF KeepBuffer, tableVars, clientVars, local
    <3>2. obj[s].rc = 0
      BY <3>1, DeadIsFree
    <3>3. CASE obj' = [obj EXCEPT ![s] = NoObj]
      <4>1. obj'[s].life # "live" /\ obj'[s].rc = 0 /\ \A x \in Surfaces \ {s} : obj'[x] = obj[x]
        BY <2>0, <3>3 DEF NoObj
      <4>2. QED  BY <3>1, <4>1, CountFree
    <3>4. CASE obj' = [obj EXCEPT ![s].life = "unwire"]
      <4>1. obj'[s].life # "live" /\ obj'[s].rc = 0 /\ \A x \in Surfaces \ {s} : obj'[x] = obj[x]
        BY <2>0, <3>2, <3>4 DEF ObjType
      <4>2. QED  BY <3>1, <4>1, CountFree
    <3>5. QED  BY <3>1, <3>3, <3>4
  <2>2. CASE UnwireBuffer(s)
    <3>1. /\ obj[s].life = "unwire" /\ UNCHANGED <<pc, sur, then, outer, refs, table, users, ported>>
          /\ obj' = [obj EXCEPT ![s] = NoObj]
      BY <2>2 DEF UnwireBuffer, tableVars, clientVars, local
    <3>2. obj'[s].life # "live" /\ obj'[s].rc = 0 /\ \A x \in Surfaces \ {s} : obj'[x] = obj[x]
      BY <2>0, <3>1 DEF NoObj
    <3>3. QED  BY <3>1, <3>2, CountFree
  <2>3. QED  BY <1>3, <2>1, <2>2 DEF FreeSurface
<1>4. ASSUME NEW s \in Surfaces, PortGone(s)
      PROVE  CountInv'
    BY <1>4, CountPortGone
<1>5. ASSUME NEW c \in Clients, Reopen(c) \/ \E s \in Surfaces : DrawThrough(c, s)
      PROVE  CountInv'
    BY <1>5, CountStays DEF Reopen, DrawThrough, tableVars, memVars, clientVars, local
<1>6. QED  BY <1>1, <1>2, <1>3, <1>4, <1>5 DEF Next

LEMMA InitCount == Init => Types /\ CountInv
<1> SUFFICES ASSUME Init PROVE Types /\ CountInv
    OBVIOUS
<1>0. None \notin Surfaces /\ 0 \notin Ids /\ 1 \in Ids /\ Owners \subseteq [Threads -> Clients]
    BY SurfaceAssumption DEF Ids
<1>1. Types
    BY <1>0, EmptyObj DEF Init, Types, Places
<1>2. \A s \in Surfaces : ~Listed(s) /\ Tabled(s) = 0
    BY <1>0 DEF Init, Listed, Tabled
<1>3. ASSUME NEW s \in Surfaces
      PROVE  /\ Cardinality(RefHolders(s)) = 0 /\ CallUsers(s) = 0 /\ CallHolds(s) = 0
             /\ obj[s].rc = 0 /\ obj[s].life = "none"
  <2>1. /\ RefHolders(s) = {} /\ ThreadsAt(s, UserPlaces) = {} /\ ThreadsAt(s, CallPlaces) = {}
        /\ ThreadsAt(s, OwnRefPlaces) = {} /\ InnerDrop(s) = {} /\ Undoing(s) = {}
    BY <1>0 DEF Init, RefHolders, ThreadsAt, InnerDrop, Undoing
  <2>2. QED  BY <2>1, FS_EmptySet DEF CallUsers, CallHolds, Init, NoObj
<1>4. UsersExact /\ UsersPositive /\ LifeIsHeld
    BY <1>2, <1>3 DEF UsersExact, UsersPositive, LifeIsHeld
<1>5. RetainsExact
    BY <1>2, <1>3 DEF RetainsExact, B, Init
<1>6. SlotsNamed
    BY DEF SlotsNamed, Init
<1>7. \A t \in Threads : PlaceKnown(t)
    BY DEF Init, PlaceKnown, InUndo, Holding, Unpublished, Published, CallPlaces,
           OwnRefPlaces, Dropping
<1>8. (\A s \in Surfaces : NameKnown(s)) /\ CreatorsApart
    BY DEF Init, NameKnown, CreatorsApart, Unpublished
<1>9. QED
    BY <1>1, <1>4, <1>5, <1>6, <1>7, <1>8 DEF CountInv

-----------------------------------------------------------------------------
(***************************************************************************)
(* Memory: every buffer has one owner, the pool, a surface or a create();    *)
(* a surface has its own by the time it is published, and cleared.          *)
(***************************************************************************)
NoMemory == Unpublished \ {"publish"}

PoolIsFree ==
    \A b \in kept : /\ bufSize[b] > 0
                    /\ \A s \in Surfaces : obj[s].buf # b
                    /\ \A t \in Threads : got[t] # b
MemoryFits ==
    \A s \in Surfaces : obj[s].buf # None =>
        /\ bufSize[obj[s].buf] = obj[s].size /\ obj[s].size > 0
        /\ \A t \in Threads : got[t] # obj[s].buf
MemoryApart ==
    /\ \A s, x \in Surfaces : obj[s].buf = obj[x].buf /\ obj[s].buf # None => s = x
    /\ \A t, u \in Threads : got[t] = got[u] /\ got[t] # None => t = u
AllOwned ==
    \A b \in Bufs : bufSize[b] > 0 => \/ b \in kept
                                      \/ \E s \in Surfaces : obj[s].buf = b
                                      \/ \E t \in Threads : got[t] = b
CreatorMemory(t) ==
    /\ got[t] # None <=> pc[t] = "zero"
    /\ pc[t] = "zero" => bufSize[got[t]] = obj[sur[t]].size
    /\ pc[t] \in NoMemory => obj[sur[t]].buf = None /\ obj[sur[t]].size > 0
    /\ pc[t] = "publish" => obj[sur[t]].buf # None /\ pixels[obj[sur[t]].buf] = None
SurfaceMemory(s) ==
    /\ obj[s].life = "none" => obj[s].buf = None
    /\ obj[s].id \in Ids => obj[s].buf # None /\ pixels[obj[s].buf] \in {None, s}

MemInv ==
    /\ PoolIsFree /\ MemoryFits /\ MemoryApart /\ AllOwned
    /\ \A t \in Threads : CreatorMemory(t)
    /\ \A s \in Surfaces : SurfaceMemory(s)

(* A step that touches no memory.                                           *)
LEMMA MemQuiet ==
    ASSUME Types, CountInv, MemInv,
           UNCHANGED <<kept, bufSize, pixels, got>>,
           \A s \in Surfaces : /\ obj'[s].buf = obj[s].buf /\ obj'[s].size = obj[s].size
                               /\ obj'[s].id \in Ids => obj[s].id \in Ids
                               /\ obj'[s].life = "none" => obj[s].life = "none",
           \A u \in Threads : /\ pc'[u] = "zero" <=> pc[u] = "zero"
                              /\ pc'[u] \in NoMemory => pc[u] \in NoMemory
                              /\ pc'[u] = "publish" => pc[u] = "publish"
                              /\ pc'[u] \in Unpublished => sur'[u] = sur[u]
    PROVE  MemInv'
<1>1. PoolIsFree' /\ MemoryFits' /\ MemoryApart' /\ AllOwned'
    BY DEF MemInv, PoolIsFree, MemoryFits, MemoryApart, AllOwned
<1>2. ASSUME NEW t \in Threads
      PROVE  CreatorMemory(t)'
  <2>1. pc[t] \in Unpublished => sur[t] \in Surfaces
    BY DEF CountInv, PlaceKnown, Unpublished, Holding, CallPlaces
  <2>2. CreatorMemory(t)
    BY DEF MemInv
  <2>3. QED  BY <2>1, <2>2 DEF CreatorMemory, NoMemory, Unpublished
<1>3. ASSUME NEW s \in Surfaces
      PROVE  SurfaceMemory(s)'
    BY DEF MemInv, SurfaceMemory
<1>4. QED  BY <1>1, <1>2, <1>3 DEF MemInv

(* What a retain or a release does to the rest of an object.                *)
LEMMA KeepsMemory ==
    ASSUME Types, NEW s \in Surfaces, obj[s].rc > 0,
           obj' = Retained(s) \/ obj' = Released(s) \/ obj' = obj
    PROVE  \A x \in Surfaces : /\ obj'[x].buf = obj[x].buf /\ obj'[x].size = obj[x].size
                               /\ obj'[x].id = obj[x].id
                               /\ obj'[x].life = "none" => obj[x].life = "none"
<1>1. CASE obj' = Retained(s)
    BY <1>1, RetainedFields
<1>2. CASE obj' = Released(s)
    BY <1>2, ReleasedFields
<1>3. QED  BY <1>1, <1>2

(* The calls once the surface is published, and the end of every call.      *)
PlainStep(t) ==
    \/ Reserve(t) \/ Unreserve(t)
    \/ \E i \in Ids, purpose \in {"get", "use", "port"} : sweet_surface_copy(t, i, purpose)
    \/ \E s \in Surfaces : LookupFromPort(t, s) \/ trapRelease(t, s) \/ FlushRef(t, s)
    \/ CloseBegin(t) \/ CreatePort(t) \/ sweet_surface_get(t)
    \/ ReleaseSurface(t) \/ FindExisting(t) \/ PutExisting(t) \/ AllocRef(t)
    \/ MapRef(t) \/ InsertRef(t) \/ FillResult(t) \/ UnmapRef(t) \/ PutRef(t)
    \/ ReleaseRef(t) \/ UndoRelease(t) \/ UnlockClient(t) \/ FlushEnd(t)

LEMMA PlainFrame ==
    ASSUME Types, CountInv, NEW t \in Threads,
           PlainStep(t)
    PROVE  /\ UNCHANGED <<kept, bufSize, pixels, got>>
           /\ wired' = wired \/ Reserve(t) \/ Unreserve(t)
           /\ \A s \in Surfaces : /\ obj'[s].buf = obj[s].buf /\ obj'[s].size = obj[s].size
                                  /\ obj'[s].id = obj[s].id
                                  /\ obj'[s].life = "none" => obj[s].life = "none"
           /\ \A u \in Threads \ {t} : pc'[u] = pc[u] /\ sur'[u] = sur[u]
           /\ pc[t] \notin {"zero", "publish"} /\ pc'[t] \notin {"zero", "publish"}
           /\ pc'[t] \in Unpublished => pc[t] \in Unpublished /\ sur'[t] = sur[t]
           /\ \/ Reserve(t) \/ Unreserve(t)
              \/ pc[t] \notin {"getBuf", "unreserve"} /\ pc'[t] \notin {"getBuf", "unreserve"}
<1> USE DEF tableVars, memVars, clientVars, local, Goto, With
<1>0. /\ pc \in [Threads -> Places] /\ sur \in [Threads -> Surfaces \cup {None}]
      /\ PlaceKnown(t)
    BY DEF Types, CountInv
<1>1. UNCHANGED <<kept, bufSize, pixels, got>> /\ (wired' = wired \/ Reserve(t) \/ Unreserve(t))
    BY DEF PlainStep, Reserve, Unreserve, sweet_surface_copy, LookupFromPort, trapRelease, FlushRef,
           CloseBegin, CreatePort, sweet_surface_get, ReleaseSurface, FindExisting,
           PutExisting, AllocRef, MapRef, InsertRef, FillResult, UnmapRef, PutRef, ReleaseRef,
           UndoRelease, UnlockClient, FlushEnd
<1>2. \/ obj' = obj
      \/ \E s \in Surfaces : obj[s].rc > 0 /\ (obj' = Retained(s) \/ obj' = Released(s))
  <2>1. CASE \/ Reserve(t) \/ Unreserve(t) \/ CloseBegin(t)
             \/ \E s \in Surfaces : trapRelease(t, s) \/ FlushRef(t, s)
             \/ FindExisting(t) \/ MapRef(t) \/ InsertRef(t) \/ FillResult(t) \/ UnmapRef(t)
             \/ UndoRelease(t) \/ UnlockClient(t) \/ FlushEnd(t)
    BY <2>1 DEF Reserve, Unreserve, CloseBegin, trapRelease, FlushRef, FindExisting, MapRef,
                InsertRef, FillResult, UnmapRef, UndoRelease, UnlockClient, FlushEnd
  <2>2. ASSUME NEW i \in Ids, NEW purpose, sweet_surface_copy(t, i, purpose)
        PROVE  \E s \in Surfaces : obj[s].rc > 0 /\ obj' = Retained(s)
    <3>1. table[i] \in Surfaces /\ obj[table[i]].id = i
      BY <2>2 DEF sweet_surface_copy, CountInv, SlotsNamed, Types
    <3>2. obj[table[i]].rc > 0
      BY <3>1, HeldIsLive DEF Listed
    <3>3. QED  BY <2>2, <3>1, <3>2 DEF sweet_surface_copy
  <2>3. ASSUME NEW s \in Surfaces, LookupFromPort(t, s)
        PROVE  obj[s].rc > 0 /\ obj' = Retained(s)
    BY <2>3, HeldIsLive DEF LookupFromPort
  <2>4. CASE \/ CreatePort(t) \/ sweet_surface_get(t) \/ ReleaseSurface(t) \/ PutExisting(t)
             \/ AllocRef(t) \/ PutRef(t) \/ ReleaseRef(t)
    <3>1. pc[t] \in Holding
      BY <2>4 DEF CreatePort, sweet_surface_get, ReleaseSurface, PutExisting, AllocRef, PutRef,
                  ReleaseRef, Holding, CallPlaces, OwnRefPlaces
    <3>2. sur[t] \in Surfaces /\ obj[sur[t]].rc > 0
      BY <1>0, <3>1, HeldIsLive DEF PlaceKnown
    <3>3. obj' = obj \/ obj' = Retained(sur[t]) \/ obj' = Released(sur[t])
      BY <2>4 DEF CreatePort, sweet_surface_get, ReleaseSurface, PutExisting, AllocRef, PutRef,
                  ReleaseRef, sweet_surface_put
    <3>4. QED  BY <3>2, <3>3
  <2>5. QED  BY <2>1, <2>2, <2>3, <2>4 DEF PlainStep
<1>3. \A s \in Surfaces : /\ obj'[s].buf = obj[s].buf /\ obj'[s].size = obj[s].size
                          /\ obj'[s].id = obj[s].id
                          /\ obj'[s].life = "none" => obj[s].life = "none"
    BY <1>2, KeepsMemory
<1>4. \A u \in Threads \ {t} : pc'[u] = pc[u] /\ sur'[u] = sur[u]
    BY <1>0 DEF PlainStep, Reserve, Unreserve, sweet_surface_copy, LookupFromPort, trapRelease, FlushRef,
           CloseBegin, CreatePort, sweet_surface_get, ReleaseSurface, FindExisting,
           PutExisting, AllocRef, MapRef, InsertRef, FillResult, UnmapRef, PutRef, ReleaseRef,
           UndoRelease, UnlockClient, FlushEnd, sweet_surface_put, DropCount
<1>5. /\ pc[t] \notin {"zero", "publish"} /\ pc'[t] \notin {"zero", "publish"}
      /\ pc'[t] \in Unpublished => pc[t] \in Unpublished /\ sur'[t] = sur[t]
      /\ \/ Reserve(t) \/ Unreserve(t)
         \/ pc[t] \notin {"getBuf", "unreserve"} /\ pc'[t] \notin {"getBuf", "unreserve"}
  <2>1. CASE Reserve(t) \/ Unreserve(t)
    BY <1>0, <2>1 DEF Reserve, Unreserve, Unpublished
  <2>2. CASE ReleaseRef(t)
    BY <1>0, <2>2 DEF ReleaseRef, PlaceKnown, Dropping, Unpublished
  <2>3. ASSUME NEW i \in Ids, NEW purpose \in {"get", "use", "port"},
               sweet_surface_copy(t, i, purpose)
        PROVE  pc[t] = "idle" /\ pc'[t] \in {"get", "use", "port"}
    BY <1>0, <2>3 DEF sweet_surface_copy, Calls
  <2>4. ASSUME NEW s \in Surfaces, LookupFromPort(t, s) \/ trapRelease(t, s) \/ FlushRef(t, s)
        PROVE  pc[t] \in {"idle", "flush"} /\ pc'[t] \in {"get", "idle", "unmap"}
    BY <1>0, <2>4 DEF LookupFromPort, trapRelease, FlushRef, DropCount, Calls
  <2>5. CASE \/ CloseBegin(t) \/ CreatePort(t) \/ sweet_surface_get(t)
             \/ ReleaseSurface(t) \/ FindExisting(t) \/ MapRef(t) \/ InsertRef(t)
             \/ FillResult(t) \/ UnmapRef(t) \/ UnlockClient(t) \/ FlushEnd(t)
    BY <1>0, <2>5 DEF CloseBegin, CreatePort, sweet_surface_get, ReleaseSurface, FindExisting,
           MapRef, InsertRef, FillResult, UnmapRef, UnlockClient, FlushEnd, Unpublished
  <2>6. CASE PutExisting(t) \/ AllocRef(t) \/ PutRef(t) \/ UndoRelease(t)
    BY <1>0, <2>6 DEF PutExisting, AllocRef, PutRef, UndoRelease, sweet_surface_put,
           DropCount, Unpublished
  <2>7. CASE \E i \in Ids, purpose \in {"get", "use", "port"} : sweet_surface_copy(t, i, purpose)
    <3>1. pc[t] = "idle" /\ pc'[t] \in {"get", "use", "port"}
      BY <2>3, <2>7
    <3>2. QED  BY <3>1 DEF Unpublished
  <2>8. CASE \E s \in Surfaces : LookupFromPort(t, s) \/ trapRelease(t, s) \/ FlushRef(t, s)
    <3>1. pc[t] \in {"idle", "flush"} /\ pc'[t] \in {"get", "idle", "unmap"}
      BY <2>4, <2>8
    <3>2. QED  BY <3>1 DEF Unpublished
  <2>9. QED  BY <2>1, <2>2, <2>5, <2>6, <2>7, <2>8 DEF PlainStep
<1>6. QED  BY <1>1, <1>3, <1>4, <1>5

LEMMA MemPlain ==
    ASSUME Types, CountInv, MemInv, NEW t \in Threads, PlainStep(t)
    PROVE  MemInv'
<1>1. /\ UNCHANGED <<kept, bufSize, pixels, got>>
      /\ \A s \in Surfaces : /\ obj'[s].buf = obj[s].buf /\ obj'[s].size = obj[s].size
                             /\ obj'[s].id = obj[s].id
                             /\ obj'[s].life = "none" => obj[s].life = "none"
      /\ \A u \in Threads \ {t} : pc'[u] = pc[u] /\ sur'[u] = sur[u]
      /\ pc[t] \notin {"zero", "publish"} /\ pc'[t] \notin {"zero", "publish"}
      /\ pc'[t] \in Unpublished => pc[t] \in Unpublished /\ sur'[t] = sur[t]
    BY PlainFrame
<1>2. \A u \in Threads : /\ pc'[u] = "zero" <=> pc[u] = "zero"
                         /\ pc'[u] \in NoMemory => pc[u] \in NoMemory
                         /\ pc'[u] = "publish" => pc[u] = "publish"
                         /\ pc'[u] \in Unpublished => sur'[u] = sur[u]
    BY <1>1 DEF NoMemory
<1>3. \A s \in Surfaces : /\ obj'[s].buf = obj[s].buf /\ obj'[s].size = obj[s].size
                          /\ obj'[s].id \in Ids => obj[s].id \in Ids
                          /\ obj'[s].life = "none" => obj[s].life = "none"
  <2>1. SUFFICES ASSUME NEW s \in Surfaces
                 PROVE  /\ obj'[s].buf = obj[s].buf /\ obj'[s].size = obj[s].size
                        /\ obj'[s].id \in Ids => obj[s].id \in Ids
                        /\ obj'[s].life = "none" => obj[s].life = "none"
    OBVIOUS
  <2>2. /\ obj'[s].buf = obj[s].buf /\ obj'[s].size = obj[s].size
        /\ obj'[s].id = obj[s].id
        /\ obj'[s].life = "none" => obj[s].life = "none"
    BY <1>1
  <2>3. QED  BY <2>2
<1>4. UNCHANGED <<kept, bufSize, pixels, got>>
    BY <1>1
<1>5. QED  BY <1>2, <1>3, <1>4, MemQuiet

(* create(): a surface without memory ...                                   *)
LEMMA MemCreate ==
    ASSUME Types, CountInv, MemInv, NEW t \in Threads, NEW s \in Surfaces, NEW size \in Sizes,
           CreateBegin(t, s, size)
    PROVE  MemInv'
<1> USE DEF tableVars, memVars, clientVars, local, Goto, With
<1>0. /\ pc \in [Threads -> Places] /\ sur \in [Threads -> Surfaces \cup {None}]
      /\ obj \in [Surfaces -> ObjType] /\ 0 \notin Ids /\ size > 0
    BY SurfaceAssumption DEF Types, Ids
<1>1. /\ pc[t] = "idle" /\ obj[s].life = "none" /\ sur' = [sur EXCEPT ![t] = s]
      /\ UNCHANGED <<kept, bufSize, pixels, got>>
      /\ pc' = [pc EXCEPT ![t] = "kept"] \/ pc' = [pc EXCEPT ![t] = "reserve"]
         \/ pc' = [pc EXCEPT ![t] = "release"]
      /\ obj' = [obj EXCEPT ![s] = [NoObj EXCEPT !.life = "live", !.rc = 1, !.size = size]]
    BY DEF CreateBegin, Calls
<1>2. obj[s].buf = None /\ \A u \in Threads : sur[u] = s => pc[u] \notin Holding
    BY <1>1, DeadIsFree DEF MemInv, SurfaceMemory
<1>3. /\ \A x \in Surfaces \ {s} : obj'[x] = obj[x]
      /\ obj'[s].life = "live" /\ obj'[s].id = 0 /\ obj'[s].buf = None /\ obj'[s].size = size
  <2> DEFINE new == [NoObj EXCEPT !.life = "live", !.rc = 1, !.size = size]
  <2>1. new.life = "live" /\ new.id = 0 /\ new.buf = None /\ new.size = size
    BY NewObj
  <2> HIDE DEF new
  <2>2. obj' = [obj EXCEPT ![s] = new]
    BY <1>1 DEF new
  <2>3. QED  BY <1>0, <2>1, <2>2
<1>4. \A x \in Surfaces : obj'[x].buf = obj[x].buf
    BY <1>2, <1>3
<1>5. PoolIsFree' /\ MemoryApart' /\ AllOwned'
    BY <1>1, <1>4 DEF MemInv, PoolIsFree, MemoryApart, AllOwned
<1>6. MemoryFits'
    BY <1>1, <1>3, <1>4 DEF MemInv, MemoryFits
<1>7. ASSUME NEW u \in Threads
      PROVE  CreatorMemory(u)'
  <2>0. CreatorMemory(u)
    BY DEF MemInv
  <2>1. CASE u = t
    <3>1. pc'[t] \in {"kept", "reserve", "release"} /\ sur'[t] = s
      BY <1>0, <1>1
    <3>2. got'[t] = None
      BY <1>1, <2>0, <2>1 DEF CreatorMemory
    <3>3. QED  BY <1>0, <1>3, <2>1, <3>1, <3>2 DEF CreatorMemory
  <2>2. CASE u # t
    <3>1. pc[u] \in Unpublished => sur[u] \in Surfaces \ {s}
      BY <1>2 DEF CountInv, PlaceKnown, Unpublished, Holding, CallPlaces
    <3>2. pc'[u] = pc[u] /\ sur'[u] = sur[u]
      BY <1>0, <1>1, <2>2
    <3>3. QED  BY <1>1, <1>3, <2>0, <3>1, <3>2 DEF CreatorMemory, NoMemory, Unpublished
  <2>3. QED  BY <2>1, <2>2
<1>8. ASSUME NEW x \in Surfaces
      PROVE  SurfaceMemory(x)'
    BY <1>0, <1>1, <1>3 DEF MemInv, SurfaceMemory
<1>9. QED  BY <1>5, <1>6, <1>7, <1>8 DEF MemInv

(* ... gets a buffer from the pool or a new one ...                         *)
LEMMA MemGet ==
    ASSUME Types, CountInv, MemInv, NEW t \in Threads, TakeKept(t) \/ GetBuf(t)
    PROVE  MemInv'
<1> USE DEF tableVars, memVars, clientVars, local, Goto, With
<1>0. /\ pc \in [Threads -> Places] /\ bufSize \in [Bufs -> Nat] /\ kept \subseteq Bufs
      /\ got \in [Threads -> Bufs \cup {None}] /\ None \notin Bufs
    BY SurfaceAssumption DEF Types
<1>1. pc[t] \in {"kept", "getBuf"} /\ UNCHANGED <<pixels, obj, sur>>
    BY DEF TakeKept, GetBuf
<1>2. CASE UNCHANGED <<kept, bufSize, got>>
           /\ (pc' = [pc EXCEPT ![t] = "reserve"] \/ pc' = [pc EXCEPT ![t] = "unreserve"])
  <2>1. \A u \in Threads : /\ pc'[u] = "zero" <=> pc[u] = "zero"
                           /\ pc'[u] \in NoMemory => pc[u] \in NoMemory
                           /\ pc'[u] = "publish" => pc[u] = "publish"
                           /\ pc'[u] \in Unpublished => sur'[u] = sur[u]
    BY <1>0, <1>1, <1>2 DEF NoMemory, Unpublished
  <2>2. QED  BY <1>1, <1>2, <2>1, MemQuiet
<1>3. ASSUME NEW b \in Bufs, got' = [got EXCEPT ![t] = b], pc' = [pc EXCEPT ![t] = "zero"],
             kept' = kept \ {b},
             \A x \in Bufs \ {b} : bufSize'[x] = bufSize[x],
             bufSize'[b] = obj[sur[t]].size,
             \A s \in Surfaces : obj[s].buf # b,
             \A u \in Threads : got[u] # b
      PROVE  MemInv'
  <2>0. CreatorMemory(t)
    BY DEF MemInv
  <2>1. got[t] = None /\ obj[sur[t]].size > 0 /\ obj[sur[t]].buf = None
    BY <1>1, <2>0 DEF CreatorMemory, NoMemory, Unpublished
  <2>2. got'[t] = b /\ pc'[t] = "zero" /\ \A u \in Threads \ {t} : got'[u] = got[u] /\ pc'[u] = pc[u]
    BY <1>0, <1>3
  <2>3. PoolIsFree'
    BY <1>0, <1>1, <1>3, <2>2 DEF MemInv, PoolIsFree
  <2>4. MemoryFits'
    <3>1. \A s \in Surfaces : obj[s].buf \in Bufs \cup {None}
      BY ObjFields
    <3>2. QED  BY <1>0, <1>1, <1>3, <2>2, <3>1 DEF MemInv, MemoryFits
  <2>5. MemoryApart'
    BY <1>1, <1>3, <2>2 DEF MemInv, MemoryApart
  <2>6. AllOwned'
    <3>1. ASSUME NEW x \in Bufs, bufSize'[x] > 0
          PROVE  \/ x \in kept'
                 \/ \E s \in Surfaces : obj'[s].buf = x
                 \/ \E u \in Threads : got'[u] = x
      <4>1. CASE x = b
        BY <2>2, <4>1
      <4>2. CASE x # b
        <5>1. \/ x \in kept
              \/ \E s \in Surfaces : obj[s].buf = x
              \/ \E u \in Threads : got[u] = x
          BY <1>3, <3>1, <4>2 DEF MemInv, AllOwned
        <5>2. ASSUME NEW u \in Threads, got[u] = x
              PROVE  got'[u] = x
          BY <1>0, <2>1, <2>2, <5>2
        <5>3. QED  BY <1>1, <1>3, <4>2, <5>1, <5>2
      <4>3. QED  BY <4>1, <4>2
    <3>2. QED  BY <3>1 DEF AllOwned
  <2>7. ASSUME NEW u \in Threads
        PROVE  CreatorMemory(u)'
    <3>1. CASE u = t
      BY <1>0, <1>1, <1>3, <2>1, <2>2, <3>1 DEF CreatorMemory
    <3>2. CASE u # t
      <4>1. CreatorMemory(u)
        BY DEF MemInv
      <4>2. pc[u] = "zero" => got[u] \in Bufs \ {b}
        BY <1>0, <1>3, <4>1 DEF CreatorMemory
      <4>3. QED  BY <1>1, <1>3, <2>2, <3>2, <4>1, <4>2 DEF CreatorMemory
    <3>3. QED  BY <3>1, <3>2
  <2>8. ASSUME NEW s \in Surfaces
        PROVE  SurfaceMemory(s)'
    BY <1>1 DEF MemInv, SurfaceMemory
  <2>9. QED  BY <2>3, <2>4, <2>5, <2>6, <2>7, <2>8 DEF MemInv
<1>4. ASSUME NEW b \in Fits(sur[t]), kept' = kept \ {b}, got' = [got EXCEPT ![t] = b],
             pc' = [pc EXCEPT ![t] = "zero"], bufSize' = bufSize
      PROVE  MemInv'
  <2>1. b \in kept /\ bufSize[b] = obj[sur[t]].size
    BY DEF Fits
  <2>2. /\ b \in Bufs /\ \A s \in Surfaces : obj[s].buf # b
        /\ \A u \in Threads : got[u] # b
    BY <1>0, <2>1 DEF MemInv, PoolIsFree
  <2>3. QED  BY <1>3, <1>4, <2>1, <2>2
<1>5. ASSUME NEW b \in Bufs, bufSize[b] = 0, bufSize' = [bufSize EXCEPT ![b] = obj[sur[t]].size],
             got' = [got EXCEPT ![t] = b], pc' = [pc EXCEPT ![t] = "zero"], kept' = kept
      PROVE  MemInv'
  <2>1. kept' = kept \ {b}
    BY <1>5 DEF MemInv, PoolIsFree
  <2>2. \A s \in Surfaces : obj[s].buf # b
    BY <1>0, <1>5 DEF MemInv, MemoryFits
  <2>3. ASSUME NEW u \in Threads
        PROVE  got[u] # b
    <3>1. CreatorMemory(u)
      BY DEF MemInv
    <3>2. QED  BY <1>0, <1>5, <3>1 DEF CreatorMemory, NoMemory, Unpublished
  <2>4. bufSize'[b] = obj[sur[t]].size /\ \A x \in Bufs \ {b} : bufSize'[x] = bufSize[x]
    BY <1>0, <1>5
  <2>5. QED  BY <1>3, <1>5, <2>1, <2>2, <2>3, <2>4
<1>6. QED  BY <1>2, <1>4, <1>5 DEF TakeKept, GetBuf

(* ... which is cleared and becomes its memory ...                          *)
LEMMA MemZero ==
    ASSUME Types, CountInv, MemInv, NEW t \in Threads, ZeroBuf(t)
    PROVE  MemInv'
<1> USE DEF tableVars, memVars, clientVars, local, Goto, With
<1> SUFFICES ASSUME NEW s, s = sur[t], NEW b, b = got[t]
             PROVE  MemInv'
    OBVIOUS
<1>0. /\ pc \in [Threads -> Places] /\ bufSize \in [Bufs -> Nat] /\ kept \subseteq Bufs
      /\ got \in [Threads -> Bufs \cup {None}] /\ None \notin Bufs
      /\ pixels \in [Bufs -> Surfaces \cup {None}] /\ obj \in [Surfaces -> ObjType]
      /\ PlaceKnown(t) /\ CreatorMemory(t) /\ 0 \notin Ids
    BY SurfaceAssumption DEF Types, CountInv, MemInv, Ids
<1>1. /\ pc[t] = "zero" /\ UNCHANGED <<kept, bufSize, sur>>
      /\ pixels' = [pixels EXCEPT ![b] = None] /\ obj' = [obj EXCEPT ![s].buf = b]
      /\ got' = [got EXCEPT ![t] = None] /\ pc' = [pc EXCEPT ![t] = "publish"]
    BY DEF ZeroBuf
<1>2. /\ b \in Bufs /\ bufSize[b] = obj[s].size /\ obj[s].buf = None /\ obj[s].size > 0
    BY <1>0, <1>1 DEF CreatorMemory, NoMemory, Unpublished
<1>3. s \in Surfaces /\ obj[s].id = 0
    BY <1>0, <1>1 DEF PlaceKnown, Unpublished, Holding, CallPlaces
<1>4. /\ \A x \in Surfaces \ {s} : obj'[x] = obj[x]
      /\ obj'[s].buf = b /\ obj'[s].size = obj[s].size /\ obj'[s].id = 0
      /\ obj'[s].life = obj[s].life
    BY <1>0, <1>1, <1>3 DEF ObjType
<1>5. obj[s].life = "live"
    BY <1>1, <1>3, HeldIsLive DEF Holding, CallPlaces
<1>6. /\ got'[t] = None /\ pc'[t] = "publish"
      /\ \A u \in Threads \ {t} : got'[u] = got[u] /\ pc'[u] = pc[u]
    BY <1>0, <1>1
<1>7. b \notin kept /\ (\A x \in Surfaces : obj[x].buf # b) /\ \A u \in Threads \ {t} : got[u] # b
    BY <1>0, <1>2 DEF MemInv, PoolIsFree, MemoryFits, MemoryApart
<1>8. PoolIsFree'
    BY <1>0, <1>1, <1>4, <1>6, <1>7 DEF MemInv, PoolIsFree
<1>9. MemoryFits'
  <2>1. ASSUME NEW x \in Surfaces, obj'[x].buf # None
        PROVE  /\ bufSize'[obj'[x].buf] = obj'[x].size /\ obj'[x].size > 0
               /\ \A u \in Threads : got'[u] # obj'[x].buf
    <3>1. CASE x = s
      BY <1>0, <1>1, <1>2, <1>4, <1>6, <1>7, <3>1
    <3>2. CASE x # s
      BY <1>1, <1>4, <1>6, <2>1, <3>2 DEF MemInv, MemoryFits
    <3>3. QED  BY <3>1, <3>2
  <2>2. QED  BY <2>1 DEF MemoryFits
<1>10. MemoryApart'
    BY <1>4, <1>6, <1>7 DEF MemInv, MemoryApart
<1>11. AllOwned'
  <2>1. ASSUME NEW x \in Bufs, bufSize'[x] > 0
        PROVE  \/ x \in kept'
               \/ \E y \in Surfaces : obj'[y].buf = x
               \/ \E u \in Threads : got'[u] = x
    <3>1. CASE x = b
      BY <1>3, <1>4, <3>1
    <3>2. CASE x # b
      <4>1. \/ x \in kept
            \/ \E y \in Surfaces : obj[y].buf = x
            \/ \E u \in Threads : got[u] = x
        BY <1>1, <2>1 DEF MemInv, AllOwned
      <4>2. \A u \in Threads : got[u] = x => got'[u] = x
        BY <1>6, <3>2
      <4>3. \A y \in Surfaces : obj[y].buf = x => obj'[y].buf = x
        BY <1>0, <1>2, <1>4
      <4>4. QED  BY <1>1, <4>1, <4>2, <4>3
    <3>3. QED  BY <3>1, <3>2
  <2>2. QED  BY <2>1 DEF AllOwned
<1>12. ASSUME NEW u \in Threads
       PROVE  CreatorMemory(u)'
  <2>1. CASE u = t
    <3>1. pixels'[b] = None
      BY <1>0, <1>1, <1>2
    <3>2. QED  BY <1>0, <1>1, <1>2, <1>4, <1>6, <2>1, <3>1 DEF CreatorMemory, NoMemory
  <2>2. CASE u # t
    <3>1. CreatorMemory(u)
      BY DEF MemInv
    <3>2. pc[u] \in Unpublished => sur[u] \in Surfaces \ {s}
      BY <1>1, <2>2 DEF CountInv, PlaceKnown, CreatorsApart, Unpublished, Holding, CallPlaces
    <3>3. pc[u] \in Unpublished => obj'[sur[u]] = obj[sur[u]]
      BY <1>4, <3>2
    <3>4. pc[u] = "publish" => pixels'[obj[sur[u]].buf] = pixels[obj[sur[u]].buf]
      <4>1. pc[u] = "publish" => obj[sur[u]].buf \in Bufs \ {b}
        BY <1>7, <3>1, <3>2, ObjFields DEF CreatorMemory, Unpublished
      <4>2. QED  BY <1>0, <1>1, <4>1
    <3>5. QED
      BY <1>1, <1>6, <2>2, <3>1, <3>3, <3>4 DEF CreatorMemory, NoMemory, Unpublished
  <2>3. QED  BY <2>1, <2>2
<1>13. ASSUME NEW x \in Surfaces
       PROVE  SurfaceMemory(x)'
  <2>1. CASE x = s
    BY <1>0, <1>4, <1>5, <2>1 DEF SurfaceMemory
  <2>2. CASE x # s
    <3>1. SurfaceMemory(x) /\ obj'[x] = obj[x]
      BY <1>4, <2>2 DEF MemInv
    <3>2. obj[x].buf # None => pixels'[obj[x].buf] = pixels[obj[x].buf]
      BY <1>0, <1>1, <1>7, ObjFields
    <3>3. QED  BY <3>1, <3>2 DEF SurfaceMemory
  <2>3. QED  BY <2>1, <2>2
<1>14. QED
    BY <1>8, <1>9, <1>10, <1>11, <1>12, <1>13 DEF MemInv

(* ... before it is published.                                             *)
LEMMA MemPublish ==
    ASSUME Types, CountInv, MemInv, NEW t \in Threads, sweet_surface_publish(t)
    PROVE  MemInv'
<1> USE DEF tableVars, memVars, clientVars, local, Goto, With
<1> SUFFICES ASSUME NEW s, s = sur[t]
             PROVE  MemInv'
    OBVIOUS
<1>0. pc \in [Threads -> Places] /\ PlaceKnown(t) /\ CreatorMemory(t)
    BY DEF Types, CountInv, MemInv
<1>1. /\ pc[t] = "publish" /\ UNCHANGED <<kept, bufSize, pixels, got, sur>>
      /\ pc' = [pc EXCEPT ![t] = "release"] \/ pc' = [pc EXCEPT ![t] = "addRef"]
    BY DEF sweet_surface_publish
<1>2. s \in Surfaces /\ obj[s].buf # None /\ pixels[obj[s].buf] = None
    BY <1>0, <1>1 DEF PlaceKnown, CreatorMemory, Unpublished, Holding, CallPlaces
<1>3. /\ \A x \in Surfaces : /\ obj'[x].buf = obj[x].buf /\ obj'[x].size = obj[x].size
                             /\ obj'[x].life = obj[x].life
                             /\ x # s => obj'[x].id = obj[x].id
  <2>1. CASE FreeIds = {}
    BY <2>1 DEF sweet_surface_publish
  <2>2. CASE FreeIds # {}
    <3>1. PICK i \in Ids : i = NextFree
      BY <2>2, NextFreeIsFree DEF FreeIds
    <3>2. obj' = [obj EXCEPT ![s].id = i, ![s].rc = @ + 1]
      BY <2>2, <3>1 DEF sweet_surface_publish
    <3>3. /\ \A x \in Surfaces \ {s} : obj'[x] = obj[x]
          /\ obj'[s].life = obj[s].life /\ obj'[s].size = obj[s].size /\ obj'[s].buf = obj[s].buf
      BY <1>2, <3>1, <3>2, PublishedFields
    <3>4. QED  BY <3>3
  <2>3. QED  BY <2>1, <2>2
<1>4. PoolIsFree' /\ MemoryFits' /\ MemoryApart' /\ AllOwned'
    BY <1>1, <1>3 DEF MemInv, PoolIsFree, MemoryFits, MemoryApart, AllOwned
<1>5. ASSUME NEW u \in Threads
      PROVE  CreatorMemory(u)'
  <2>1. CreatorMemory(u) /\ (pc[u] \in Unpublished => sur[u] \in Surfaces)
    BY DEF MemInv, CountInv, PlaceKnown, Unpublished, Holding, CallPlaces
  <2>2. pc'[u] = pc[u] \/ (pc[u] = "publish" /\ pc'[u] \in {"release", "addRef"})
    BY <1>0, <1>1
  <2>3. QED  BY <1>1, <1>3, <2>1, <2>2 DEF CreatorMemory, NoMemory, Unpublished
<1>6. ASSUME NEW x \in Surfaces
      PROVE  SurfaceMemory(x)'
  <2>1. SurfaceMemory(x)
    BY DEF MemInv
  <2>2. QED  BY <1>1, <1>2, <1>3, <2>1 DEF SurfaceMemory
<1>7. QED  BY <1>4, <1>5, <1>6 DEF MemInv

(* The freeing of a surface: its buffer goes to the pool or is given back.   *)
LEMMA MemFree ==
    ASSUME Types, CountInv, MemInv, NEW s \in Surfaces, FreeSurface(s)
    PROVE  MemInv'
<1> USE DEF tableVars, memVars, clientVars, local
<1>0. /\ bufSize \in [Bufs -> Nat] /\ kept \subseteq Bufs /\ obj \in [Surfaces -> ObjType]
      /\ got \in [Threads -> Bufs \cup {None}] /\ None \notin Bufs
      /\ pixels \in [Bufs -> Surfaces \cup {None}] /\ 0 \notin Ids
      /\ obj[s].buf \in Bufs \cup {None}
    BY SurfaceAssumption, ObjFields DEF Types, Ids
<1>1. UNCHANGED <<pc, sur, got>> /\ obj[s].life \in {"dying", "unwire"}
    BY DEF FreeSurface, KeepBuffer, UnwireBuffer
<1>2. \A u \in Threads : pc[u] \in Unpublished => sur[u] \in Surfaces \ {s}
  <2>1. \A u \in Threads : sur[u] = s => pc[u] \notin Holding
    BY <1>1, DeadIsFree
  <2>2. QED  BY <2>1 DEF CountInv, PlaceKnown, Unpublished, Holding, CallPlaces
<1>3. CASE obj' = [obj EXCEPT ![s].life = "unwire"] /\ UNCHANGED <<kept, bufSize, pixels>>
  <2>1. \A x \in Surfaces : /\ obj'[x].buf = obj[x].buf /\ obj'[x].size = obj[x].size
                            /\ obj'[x].id = obj[x].id
                            /\ obj'[x].life = "none" => obj[x].life = "none"
    BY <1>0, <1>3 DEF ObjType
  <2>2. QED  BY <1>1, <1>3, <2>1, MemQuiet DEF NoMemory
<1>4. ASSUME obj' = [obj EXCEPT ![s] = NoObj],
             \/ obj[s].buf \in Bufs /\ kept' = kept \cup {obj[s].buf} /\ UNCHANGED <<bufSize, pixels>>
             \/ /\ obj[s].buf \in Bufs /\ bufSize' = [bufSize EXCEPT ![obj[s].buf] = 0]
                /\ pixels' = [pixels EXCEPT ![obj[s].buf] = None] /\ UNCHANGED kept
             \/ obj[s].buf = None /\ UNCHANGED <<kept, bufSize, pixels>>
      PROVE  MemInv'
  <2>1. /\ \A x \in Surfaces \ {s} : obj'[x] = obj[x]
        /\ obj'[s].buf = None /\ obj'[s].id = 0
    BY <1>0, <1>4 DEF NoObj
  <2>2. obj[s].buf # None =>
           /\ obj[s].buf \notin kept /\ bufSize[obj[s].buf] > 0
           /\ \A x \in Surfaces \ {s} : obj[x].buf # obj[s].buf
           /\ \A u \in Threads : got[u] # obj[s].buf
    BY DEF MemInv, PoolIsFree, MemoryFits, MemoryApart
  <2>3. PoolIsFree'
    BY <1>0, <1>1, <1>4, <2>1, <2>2 DEF MemInv, PoolIsFree
  <2>4. \A b \in Bufs : b # obj[s].buf => bufSize'[b] = bufSize[b] /\ pixels'[b] = pixels[b]
    BY <1>0, <1>4
  <2>5. \A x \in Surfaces \ {s} : obj[x].buf # None =>
           /\ bufSize'[obj[x].buf] = bufSize[obj[x].buf]
           /\ pixels'[obj[x].buf] = pixels[obj[x].buf]
    BY <2>2, <2>4, ObjFields
  <2>6. MemoryFits'
    BY <1>1, <2>1, <2>5 DEF MemInv, MemoryFits
  <2>7. MemoryApart'
    BY <1>1, <2>1 DEF MemInv, MemoryApart
  <2>8. AllOwned'
    <3>1. ASSUME NEW b \in Bufs, bufSize'[b] > 0
          PROVE  \/ b \in kept'
                 \/ \E x \in Surfaces : obj'[x].buf = b
                 \/ \E u \in Threads : got'[u] = b
      <4>1. CASE b = obj[s].buf
        BY <1>0, <1>4, <3>1, <4>1
      <4>2. CASE b # obj[s].buf
        <5>1. \/ b \in kept
              \/ \E x \in Surfaces \ {s} : obj[x].buf = b
              \/ \E u \in Threads : got[u] = b
          BY <2>4, <3>1, <4>2 DEF MemInv, AllOwned
        <5>2. QED  BY <1>1, <1>4, <2>1, <5>1
      <4>3. QED  BY <4>1, <4>2
    <3>2. QED  BY <3>1 DEF AllOwned
  <2>9. ASSUME NEW u \in Threads
        PROVE  CreatorMemory(u)'
    <3>1. CreatorMemory(u) /\ (pc[u] \in Unpublished => obj'[sur[u]] = obj[sur[u]])
      BY <1>2, <2>1 DEF MemInv
    <3>2. pc[u] = "zero" => bufSize'[got[u]] = bufSize[got[u]]
      BY <1>0, <2>2, <2>4, <3>1 DEF CreatorMemory
    <3>3. pc[u] = "publish" => pixels'[obj[sur[u]].buf] = pixels[obj[sur[u]].buf]
      BY <1>2, <2>5, <3>1 DEF CreatorMemory, Unpublished
    <3>4. QED
      BY <1>1, <3>1, <3>2, <3>3 DEF CreatorMemory, NoMemory, Unpublished
  <2>10. ASSUME NEW x \in Surfaces
         PROVE  SurfaceMemory(x)'
    <3>1. CASE x = s
      BY <1>0, <2>1, <3>1 DEF SurfaceMemory
    <3>2. CASE x # s
      <4>1. SurfaceMemory(x)
        BY DEF MemInv
      <4>2. QED  BY <2>1, <2>5, <3>2, <4>1 DEF SurfaceMemory
    <3>3. QED  BY <3>1, <3>2
  <2>11. QED  BY <2>3, <2>6, <2>7, <2>8, <2>9, <2>10 DEF MemInv
<1>5. QED
  <2>1. CASE KeepBuffer(s)
    BY <1>0, <1>3, <1>4, <2>1 DEF KeepBuffer
  <2>2. CASE UnwireBuffer(s)
    BY <1>0, <1>4, <2>2 DEF UnwireBuffer
  <2>3. QED  BY <2>1, <2>2 DEF FreeSurface

(* A client draws only through a reference of its own.                      *)
LEMMA MemDraw ==
    ASSUME Types, CountInv, MemInv, NEW c \in Clients, NEW s \in Surfaces, DrawThrough(c, s)
    PROVE  MemInv'
<1> USE DEF tableVars, memVars, clientVars, local
<1>0. pixels \in [Bufs -> Surfaces \cup {None}] /\ None \notin Bufs
    BY SurfaceAssumption DEF Types
<1>1. /\ refs[c][s] > 0 /\ pixels' = [pixels EXCEPT ![obj[s].buf] = s]
      /\ UNCHANGED <<pc, sur, got, kept, bufSize, obj>>
    BY DEF DrawThrough
<1>2. obj[s].id \in Ids /\ 0 \notin Ids
    BY <1>1 DEF CountInv, NameKnown, Ids
<1>3. obj[s].buf \in Bufs
    BY <1>2, ObjFields DEF MemInv, SurfaceMemory
<1>4. \A x \in Surfaces \ {s} : obj[x].buf # None => pixels'[obj[x].buf] = pixels[obj[x].buf]
    BY <1>0, <1>1, <1>3, ObjFields DEF MemInv, MemoryApart
<1>5. PoolIsFree' /\ MemoryFits' /\ MemoryApart' /\ AllOwned'
    BY <1>1 DEF MemInv, PoolIsFree, MemoryFits, MemoryApart, AllOwned
<1>6. ASSUME NEW u \in Threads
      PROVE  CreatorMemory(u)'
  <2>1. CreatorMemory(u) /\ (pc[u] = "publish" => sur[u] \in Surfaces /\ obj[sur[u]].id = 0)
    BY DEF MemInv, CountInv, PlaceKnown, Unpublished, Holding, CallPlaces
  <2>2. pc[u] = "publish" => pixels'[obj[sur[u]].buf] = pixels[obj[sur[u]].buf]
    BY <1>2, <1>4, <2>1 DEF CreatorMemory
  <2>3. QED  BY <1>1, <2>1, <2>2 DEF CreatorMemory
<1>7. ASSUME NEW x \in Surfaces
      PROVE  SurfaceMemory(x)'
  <2>1. SurfaceMemory(x)
    BY DEF MemInv
  <2>2. CASE x = s
    <3>1. pixels'[obj[s].buf] = s
      BY <1>0, <1>1, <1>3
    <3>2. QED  BY <1>1, <2>1, <2>2, <3>1 DEF SurfaceMemory
  <2>3. CASE x # s
    BY <1>1, <1>4, <2>1, <2>3 DEF SurfaceMemory
  <2>4. QED  BY <2>2, <2>3
<1>8. QED  BY <1>5, <1>6, <1>7 DEF MemInv

LEMMA MemNext ==
    ASSUME Types, CountInv, MemInv, Next
    PROVE  MemInv'
<1>1. ASSUME NEW t \in Threads, Call(t) \/ Continue(t)
      PROVE  MemInv'
  <2>1. ASSUME NEW s \in Surfaces, NEW size \in Sizes, CreateBegin(t, s, size)
        PROVE  MemInv'
    BY <2>1, MemCreate
  <2>2. CASE PlainStep(t)
    BY <2>2, MemPlain
  <2>3. CASE TakeKept(t) \/ GetBuf(t) \/ ZeroBuf(t) \/ sweet_surface_publish(t)
    BY <2>3, MemGet, MemZero, MemPublish
  <2>4. QED  BY <1>1, <2>1, <2>2, <2>3 DEF Call, Continue, PlainStep
<1>2. ASSUME NEW s \in Surfaces, FreeSurface(s)
      PROVE  MemInv'
    BY <1>2, MemFree
<1>3. ASSUME NEW s \in Surfaces, PortGone(s)
      PROVE  MemInv'
  <2>1. /\ s \in ported /\ obj' = Released(s) /\ UNCHANGED <<kept, bufSize, pixels, got, pc, sur>>
    BY <1>3 DEF PortGone, memVars, local
  <2>2. obj[s].rc > 0
    BY <2>1, HeldIsLive
  <2>3. \A x \in Surfaces : /\ obj'[x].buf = obj[x].buf /\ obj'[x].size = obj[x].size
                            /\ obj'[x].id = obj[x].id
                            /\ obj'[x].life = "none" => obj[x].life = "none"
    BY <2>1, <2>2, KeepsMemory
  <2>4. QED  BY <2>1, <2>3, MemQuiet
<1>4. ASSUME NEW c \in Clients, NEW s \in Surfaces, DrawThrough(c, s)
      PROVE  MemInv'
    BY <1>4, MemDraw
<1>5. ASSUME NEW c \in Clients, Reopen(c)
      PROVE  MemInv'
  <2>1. UNCHANGED <<kept, bufSize, pixels, got, pc, sur, obj>>
    BY <1>5 DEF Reopen, memVars, local
  <2>2. QED  BY <2>1, MemQuiet
<1>6. QED  BY <1>1, <1>2, <1>3, <1>4, <1>5 DEF Next

LEMMA InitMem == Init => MemInv
<1> SUFFICES ASSUME Init PROVE MemInv
    OBVIOUS
<1>0. 0 \notin Ids
    BY DEF Ids
<1>1. \A s \in Surfaces : obj[s].buf = None /\ obj[s].id = 0
    BY DEF Init, NoObj
<1>2. \A t \in Threads : got[t] = None /\ pc[t] = "idle"
    BY DEF Init
<1>3. PoolIsFree /\ AllOwned
    BY DEF Init, PoolIsFree, AllOwned
<1>4. MemoryFits /\ MemoryApart
    BY <1>1, <1>2 DEF MemoryFits, MemoryApart
<1>5. \A t \in Threads : CreatorMemory(t)
    BY <1>2 DEF CreatorMemory, NoMemory, Unpublished
<1>6. \A s \in Surfaces : SurfaceMemory(s)
    BY <1>0, <1>1 DEF SurfaceMemory
<1>7. QED  BY <1>3, <1>4, <1>5, <1>6 DEF MemInv

-----------------------------------------------------------------------------
(***************************************************************************)
(* The wired account.                                                      *)
(***************************************************************************)
LEMMA BytesFinite ==
    ASSUME NEW S, IsFiniteSet(S), NEW f \in [S -> Nat]
    PROVE  IsFiniteSet(Bytes(S, f)) /\ Cardinality(Bytes(S, f)) \in Nat
<1> DEFINE row(x) == {x} \X (1 .. f[x])
           rows == {row(x) : x \in S}
           g == [x \in S |-> row(x)]
<1>1. IsFiniteSet(rows)
  <2>1. g \in Surjection(S, rows)
    BY DEF Surjection
  <2>2. QED  BY <2>1, FS_Surjection
<1>2. \A x \in S : IsFiniteSet(row(x))
  <2>1. ASSUME NEW x \in S
        PROVE  IsFiniteSet(row(x))
    <3>1. f[x] \in Int /\ 1 \in Int
      OBVIOUS
    <3>2. IsFiniteSet(1 .. f[x])
      BY <3>1, FS_Interval
    <3>3. QED  BY <3>2, FS_Singleton, FS_Product
  <2>2. QED  BY <2>1
<1>3. \A T \in rows : IsFiniteSet(T)
    BY <1>2
<1>4. IsFiniteSet(UNION rows)
  <2> HIDE DEF rows
  <2>1. QED  BY <1>1, <1>3, FS_UNION
<1>5. QED  BY <1>4, FS_CardinalityType DEF Bytes

(* One entry goes from 0 to n.                                              *)
LEMMA BytesGrow ==
    ASSUME NEW S, IsFiniteSet(S), NEW f \in [S -> Nat], NEW g \in [S -> Nat], NEW x \in S,
           \A y \in S \ {x} : f[y] = g[y], f[x] = 0
    PROVE  Cardinality(Bytes(S, g)) = Cardinality(Bytes(S, f)) + g[x]
<1> DEFINE R == {x} \X (1 .. g[x])
           F == Bytes(S, f)
           G == Bytes(S, g)
<1>1. IsFiniteSet(F) /\ Cardinality(F) \in Nat
    BY BytesFinite
<1>2. IsFiniteSet(R) /\ Cardinality(R) = g[x]
  <2>1. g[x] \in Int /\ 1 \in Int
    OBVIOUS
  <2>2. IsFiniteSet(1 .. g[x]) /\ Cardinality(1 .. g[x]) = IF 1 > g[x] THEN 0 ELSE g[x] - 1 + 1
    BY <2>1, FS_Interval
  <2>3. Cardinality(1 .. g[x]) = g[x]
    BY <2>2
  <2>4. IsFiniteSet({x}) /\ Cardinality({x}) = 1
    BY FS_Singleton
  <2>5. IsFiniteSet(R) /\ Cardinality(R) = 1 * Cardinality(1 .. g[x])
    BY <2>2, <2>4, FS_Product
  <2>6. QED  BY <2>3, <2>5
<1>3. G = F \cup R
  <2>1. \A e : e \in G <=> \E y \in S : e \in {y} \X (1 .. g[y])
    BY DEF Bytes
  <2>2. \A e : e \in F <=> \E y \in S : e \in {y} \X (1 .. f[y])
    BY DEF Bytes
  <2>3. {x} \X (1 .. f[x]) = {}
    OBVIOUS
  <2>4. \A y \in S \ {x} : {y} \X (1 .. g[y]) = {y} \X (1 .. f[y])
    OBVIOUS
  <2> HIDE DEF F, G
  <2>5. \A e : e \in G <=> e \in F \/ e \in R
    BY <2>1, <2>2, <2>3, <2>4
  <2>6. QED  BY <2>5
<1>4. F \cap R = {}
  <2>1. \A e \in F : e[1] # x
    <3>1. ASSUME NEW y \in S, NEW e \in {y} \X (1 .. f[y])
          PROVE  e[1] # x
      BY <3>1
    <3>2. QED  BY <3>1 DEF Bytes
  <2>2. \A e \in R : e[1] = x
    OBVIOUS
  <2>3. QED  BY <2>1, <2>2
<1>5. Cardinality(F \cap R) = 0
    BY <1>4, FS_EmptySet
<1>6. Cardinality(F \cup R) = Cardinality(F) + Cardinality(R) - Cardinality(F \cap R)
    BY <1>1, <1>2, FS_Union
<1> HIDE DEF F, G, R
<1>7. Cardinality(G) = Cardinality(F) + g[x]
    BY <1>1, <1>2, <1>3, <1>5, <1>6
<1>8. QED  BY <1>7 DEF F, G

LEMMA ReservedType ==
    ASSUME Types, CountInv
    PROVE  Reserved \in [Threads -> Nat]
<1>1. ASSUME NEW t \in Threads, pc[t] \in {"getBuf", "unreserve"}
      PROVE  obj[sur[t]].size \in Nat
  <2>1. sur[t] \in Surfaces
    BY <1>1 DEF CountInv, PlaceKnown, Holding, CallPlaces
  <2>2. QED  BY <2>1, ObjFields
<1>2. QED  BY <1>1 DEF Reserved

(* A step that changes neither buffers nor reservations.                    *)
LEMMA WiredQuiet ==
    ASSUME Types, CountInv, WiredIsExact,
           UNCHANGED <<wired, bufSize>>,
           \A u \in Threads :
               \/ /\ pc[u] \notin {"getBuf", "unreserve"}
                  /\ pc'[u] \notin {"getBuf", "unreserve"}
               \/ pc'[u] = pc[u] /\ sur'[u] = sur[u] /\ obj'[sur[u]].size = obj[sur[u]].size
               \/ /\ pc[u] \in {"getBuf", "unreserve"} /\ pc'[u] \in {"getBuf", "unreserve"}
                  /\ sur'[u] = sur[u] /\ obj'[sur[u]].size = obj[sur[u]].size
    PROVE  WiredIsExact'
<1>1. Reserved' = Reserved
  <2>1. ASSUME NEW u \in Threads
        PROVE  Reserved'[u] = Reserved[u]
    BY DEF Reserved
  <2>2. QED  BY <2>1 DEF Reserved
<1>2. Bytes(Bufs, bufSize)' = Bytes(Bufs, bufSize)
    BY DEF Bytes
<1>3. Bytes(Threads, Reserved)' = Bytes(Threads, Reserved)
    BY <1>1 DEF Bytes
<1>4. QED  BY <1>2, <1>3 DEF WiredIsExact

LEMMA WiredNow ==
    WiredIsExact' <=> wired' = Cardinality(Bytes(Bufs, bufSize'))
                                 + Cardinality(Bytes(Threads, Reserved'))
  BY DEF WiredIsExact, Bytes

(* A thread reserves its surface's bytes, or gives them back.               *)
LEMMA WiredReserve ==
    ASSUME Types, CountInv, WiredIsExact, NEW t \in Threads, Reserve(t) \/ Unreserve(t)
    PROVE  WiredIsExact'
<1> USE DEF tableVars, memVars, clientVars, local, Goto, With
<1> SUFFICES ASSUME NEW n, n = obj[sur[t]].size
             PROVE  WiredIsExact'
    OBVIOUS
<1>0. sur[t] \in Surfaces /\ n \in Nat
  <2>1. sur[t] \in Surfaces
    BY DEF CountInv, PlaceKnown, Holding, CallPlaces, Reserve, Unreserve
  <2>2. QED  BY <2>1, ObjFields
<1>1. /\ UNCHANGED <<bufSize, obj, sur>>
      /\ \A u \in Threads \ {t} : pc'[u] = pc[u]
    BY DEF Reserve, Unreserve, Types
<1>2. \A u \in Threads \ {t} : Reserved'[u] = Reserved[u]
    BY <1>1 DEF Reserved
<1>3. IF Reserve(t) THEN Reserved[t] = 0 /\ Reserved'[t] = n /\ wired' = wired + n
                    ELSE Reserved[t] = n /\ Reserved'[t] = 0 /\ wired' = wired - n
  <2>1. CASE Reserve(t)
    BY <1>1, <2>1 DEF Reserve, Reserved, Types
  <2>2. CASE Unreserve(t) /\ ~Reserve(t)
    BY <1>1, <2>2 DEF Unreserve, Reserved, Types
  <2>3. QED  BY <2>1, <2>2
<1>4. Reserved \in [Threads -> Nat] /\ Reserved' \in [Threads -> Nat]
  <2>1. Reserved \in [Threads -> Nat]
    BY ReservedType
  <2>2. \A u \in Threads : Reserved'[u] \in Nat
    BY <1>0, <1>2, <1>3, <2>1
  <2>3. Reserved' = [u \in Threads |-> Reserved'[u]]
    BY DEF Reserved
  <2>4. QED  BY <2>1, <2>2, <2>3
<1>5. /\ Cardinality(Bytes(Bufs, bufSize)) \in Nat
      /\ Cardinality(Bytes(Threads, Reserved)) \in Nat
      /\ Cardinality(Bytes(Threads, Reserved')) \in Nat
    BY <1>4, BytesFinite, SurfaceAssumption DEF Types
<1>6. IF Reserve(t)
      THEN Cardinality(Bytes(Threads, Reserved')) = Cardinality(Bytes(Threads, Reserved)) + n
      ELSE Cardinality(Bytes(Threads, Reserved)) = Cardinality(Bytes(Threads, Reserved')) + n
  <2>1. IsFiniteSet(Threads)
    BY SurfaceAssumption
  <2>2. CASE Reserve(t)
    BY <1>2, <1>3, <1>4, <2>1, <2>2, BytesGrow
  <2>3. CASE ~Reserve(t)
    BY <1>2, <1>3, <1>4, <2>1, <2>3, BytesGrow
  <2>4. QED  BY <2>2, <2>3
<1>7. wired = Cardinality(Bytes(Bufs, bufSize)) + Cardinality(Bytes(Threads, Reserved))
    BY DEF WiredIsExact
<1>8. wired' = Cardinality(Bytes(Bufs, bufSize')) + Cardinality(Bytes(Threads, Reserved'))
    BY <1>0, <1>1, <1>3, <1>5, <1>6, <1>7
<1>9. QED  BY <1>8, WiredNow

(* The buffer takes the place of the reservation.                           *)
LEMMA WiredGet ==
    ASSUME Types, CountInv, WiredIsExact, NEW t \in Threads, GetBuf(t)
    PROVE  WiredIsExact'
<1> USE DEF tableVars, memVars, clientVars, local, Goto, With
<1>0. pc \in [Threads -> Places] /\ bufSize \in [Bufs -> Nat] /\ sur[t] \in Surfaces
      /\ pc[t] = "getBuf"
    BY DEF Types, CountInv, PlaceKnown, Holding, CallPlaces, GetBuf
<1>1. UNCHANGED <<wired, sur, obj>>
    BY DEF GetBuf
<1>2. CASE pc' = [pc EXCEPT ![t] = "unreserve"] /\ UNCHANGED bufSize
    BY <1>0, <1>1, <1>2, WiredQuiet
<1>3. ASSUME NEW b \in Bufs, bufSize[b] = 0, bufSize' = [bufSize EXCEPT ![b] = obj[sur[t]].size],
             pc' = [pc EXCEPT ![t] = "zero"]
      PROVE  WiredIsExact'
  <2> SUFFICES ASSUME NEW n, n = obj[sur[t]].size
               PROVE  WiredIsExact'
    OBVIOUS
  <2>0. n \in Nat
    BY <1>0, ObjFields
  <2>1. /\ bufSize' \in [Bufs -> Nat] /\ bufSize[b] = 0 /\ bufSize'[b] = n
        /\ \A d \in Bufs \ {b} : bufSize[d] = bufSize'[d]
    BY <1>0, <1>3, <2>0
  <2>2. Reserved \in [Threads -> Nat]
    BY ReservedType
  <2>3. /\ Reserved[t] = n /\ Reserved'[t] = 0
        /\ \A u \in Threads \ {t} : Reserved'[u] = Reserved[u]
    BY <1>0, <1>1, <1>3 DEF Reserved
  <2>4. Reserved' \in [Threads -> Nat]
    <3>1. \A u \in Threads : Reserved'[u] \in Nat
      BY <2>2, <2>3
    <3>2. Reserved' = [u \in Threads |-> Reserved'[u]]
      BY DEF Reserved
    <3>3. QED  BY <3>1, <3>2
  <2>5. Cardinality(Bytes(Bufs, bufSize')) = Cardinality(Bytes(Bufs, bufSize)) + n
    BY <1>0, <2>1, SurfaceAssumption, BytesGrow
  <2>6. Cardinality(Bytes(Threads, Reserved)) = Cardinality(Bytes(Threads, Reserved')) + n
    BY <2>2, <2>3, <2>4, SurfaceAssumption, BytesGrow
  <2>7. /\ Cardinality(Bytes(Bufs, bufSize)) \in Nat
        /\ Cardinality(Bytes(Threads, Reserved')) \in Nat
    BY <1>0, <2>4, BytesFinite, SurfaceAssumption
  <2>8. wired' = Cardinality(Bytes(Bufs, bufSize)) + Cardinality(Bytes(Threads, Reserved))
    BY <1>1 DEF WiredIsExact
  <2>9. wired' = Cardinality(Bytes(Bufs, bufSize')) + Cardinality(Bytes(Threads, Reserved'))
    BY <2>0, <2>5, <2>6, <2>7, <2>8
  <2>10. QED  BY <2>9, WiredNow
<1>4. QED  BY <1>2, <1>3 DEF GetBuf

(* The memory of a freed surface is given back, once.                       *)
LEMMA WiredFree ==
    ASSUME Types, CountInv, MemInv, WiredIsExact, NEW s \in Surfaces, FreeSurface(s)
    PROVE  WiredIsExact'
<1> USE DEF tableVars, memVars, clientVars, local
<1>0. obj \in [Surfaces -> ObjType] /\ bufSize \in [Bufs -> Nat] /\ obj[s].life # "live"
    BY DEF Types, FreeSurface, KeepBuffer, UnwireBuffer
<1>1. /\ UNCHANGED <<pc, sur>>
      /\ \A x \in Surfaces \ {s} : obj'[x] = obj[x]
    BY <1>0 DEF FreeSurface, KeepBuffer, UnwireBuffer
<1>2. \A u \in Threads : \/ pc[u] \notin {"getBuf", "unreserve"}
                         \/ sur[u] \in Surfaces /\ sur[u] # s
    BY <1>0, DeadIsFree DEF CountInv, PlaceKnown, Holding, CallPlaces
<1>3. CASE UNCHANGED <<wired, bufSize>>
    BY <1>1, <1>2, <1>3, WiredQuiet
<1>4. CASE /\ obj[s].buf # None /\ wired' = wired - obj[s].size
           /\ bufSize' = [bufSize EXCEPT ![obj[s].buf] = 0]
  <2> SUFFICES ASSUME NEW b, b = obj[s].buf, NEW n, n = obj[s].size
               PROVE  WiredIsExact'
    OBVIOUS
  <2>1. b \in Bufs /\ n \in Nat /\ bufSize[b] = n
    BY <1>4, ObjFields DEF MemInv, MemoryFits
  <2>2. bufSize' \in [Bufs -> Nat] /\ bufSize'[b] = 0 /\ \A d \in Bufs \ {b} : bufSize'[d] = bufSize[d]
    BY <1>0, <1>4, <2>1
  <2>3. Cardinality(Bytes(Bufs, bufSize)) = Cardinality(Bytes(Bufs, bufSize')) + n
    BY <1>0, <2>1, <2>2, SurfaceAssumption, BytesGrow
  <2>4. Reserved' = Reserved
    <3>1. \A u \in Threads : Reserved'[u] = Reserved[u]
      BY <1>1, <1>2 DEF Reserved
    <3>2. QED  BY <3>1 DEF Reserved
  <2>5. /\ Cardinality(Bytes(Bufs, bufSize')) \in Nat
        /\ Cardinality(Bytes(Threads, Reserved)) \in Nat
    BY <2>2, ReservedType, BytesFinite, SurfaceAssumption
  <2>6. wired = Cardinality(Bytes(Bufs, bufSize)) + Cardinality(Bytes(Threads, Reserved))
    BY DEF WiredIsExact
  <2>7. wired' = Cardinality(Bytes(Bufs, bufSize')) + Cardinality(Bytes(Threads, Reserved'))
    BY <1>4, <2>1, <2>3, <2>4, <2>5, <2>6
  <2>8. QED  BY <2>7, WiredNow
<1>5. QED  BY <1>3, <1>4 DEF FreeSurface, KeepBuffer, UnwireBuffer

LEMMA WiredNext ==
    ASSUME Types, CountInv, MemInv, WiredIsExact, Next
    PROVE  WiredIsExact'
<1> USE DEF tableVars, memVars, clientVars, local
<1>0. /\ pc \in [Threads -> Places] /\ obj \in [Surfaces -> ObjType]
      /\ sur \in [Threads -> Surfaces \cup {None}]
    BY DEF Types
<1>1. \A u \in Threads : pc[u] \in {"getBuf", "unreserve"} => sur[u] \in Surfaces
    BY DEF CountInv, PlaceKnown, Holding, CallPlaces
<1>2. ASSUME NEW t \in Threads, Call(t) \/ Continue(t)
      PROVE  WiredIsExact'
  <2>1. ASSUME NEW s \in Surfaces, NEW size \in Sizes, CreateBegin(t, s, size)
        PROVE  WiredIsExact'
    <3>1. /\ pc[t] = "idle" /\ obj[s].life = "none" /\ UNCHANGED <<wired, bufSize>>
          /\ pc'[t] \in {"kept", "reserve", "release"}
          /\ \A u \in Threads \ {t} : pc'[u] = pc[u] /\ sur'[u] = sur[u]
          /\ \A x \in Surfaces \ {s} : obj'[x] = obj[x]
      BY <1>0, <2>1 DEF CreateBegin, Calls, Goto, With
    <3>2. \A u \in Threads : sur[u] = s => pc[u] \notin {"getBuf", "unreserve"}
      BY <3>1, DeadIsFree DEF Holding, CallPlaces
    <3>3. QED  BY <1>1, <3>1, <3>2, WiredQuiet
  <2>2. CASE Reserve(t) \/ Unreserve(t)
    BY <2>2, WiredReserve
  <2>3. CASE PlainStep(t) /\ ~Reserve(t) /\ ~Unreserve(t)
    <3>1. /\ UNCHANGED <<wired, bufSize>>
          /\ \A s \in Surfaces : obj'[s].size = obj[s].size
          /\ \A u \in Threads \ {t} : pc'[u] = pc[u] /\ sur'[u] = sur[u]
          /\ pc[t] \notin {"getBuf", "unreserve"} /\ pc'[t] \notin {"getBuf", "unreserve"}
      BY <2>3, PlainFrame
    <3>2. QED  BY <1>1, <3>1, WiredQuiet
  <2>4. CASE GetBuf(t)
    BY <2>4, WiredGet
  <2>5. CASE TakeKept(t)
    <3>1. /\ pc[t] = "kept" /\ UNCHANGED <<wired, bufSize, sur, obj>>
          /\ pc' = [pc EXCEPT ![t] = "zero"] \/ pc' = [pc EXCEPT ![t] = "reserve"]
      BY <2>5 DEF TakeKept, Goto
    <3>2. \A u \in Threads : \/ pc'[u] = pc[u]
                             \/ /\ pc[u] \notin {"getBuf", "unreserve"}
                                /\ pc'[u] \notin {"getBuf", "unreserve"}
      BY <1>0, <3>1
    <3>3. QED  BY <3>1, <3>2, WiredQuiet
  <2>6. CASE ZeroBuf(t) \/ sweet_surface_publish(t)
    <3>1. /\ pc[t] \in {"zero", "publish"} /\ UNCHANGED <<wired, bufSize, sur>>
          /\ \A u \in Threads \ {t} : pc'[u] = pc[u]
          /\ pc'[t] \in {"publish", "addRef", "release"}
      BY <1>0, <2>6 DEF ZeroBuf, sweet_surface_publish, Goto
    <3>2. \A x \in Surfaces : x # sur[t] => obj'[x] = obj[x]
      BY <1>0, <2>6 DEF ZeroBuf, sweet_surface_publish
    <3>3. ASSUME NEW u \in Threads, pc[u] \in {"getBuf", "unreserve"}
          PROVE  obj'[sur[u]] = obj[sur[u]]
      <4>1. pc[t] \in Unpublished /\ pc[u] \in Unpublished /\ u # t
        BY <3>1, <3>3 DEF Unpublished
      <4>2. sur[u] # sur[t]
        BY <4>1 DEF CountInv, CreatorsApart
      <4>3. QED  BY <1>1, <3>2, <3>3, <4>2
    <3>4. \A u \in Threads :
              \/ /\ pc[u] \notin {"getBuf", "unreserve"}
                 /\ pc'[u] \notin {"getBuf", "unreserve"}
              \/ pc'[u] = pc[u] /\ sur'[u] = sur[u] /\ obj'[sur[u]].size = obj[sur[u]].size
      BY <3>1, <3>3
    <3>5. QED  BY <3>1, <3>4, WiredQuiet
  <2>7. QED
      BY <1>2, <2>1, <2>2, <2>3, <2>4, <2>5, <2>6 DEF Call, Continue, PlainStep
<1>3. ASSUME NEW s \in Surfaces, FreeSurface(s)
      PROVE  WiredIsExact'
    BY <1>3, WiredFree
<1>4. ASSUME NEW s \in Surfaces, PortGone(s)
      PROVE  WiredIsExact'
  <2>1. s \in ported /\ obj' = Released(s) /\ UNCHANGED <<wired, bufSize, pc, sur>>
    BY <1>4 DEF PortGone
  <2>2. \A x \in Surfaces : obj'[x].size = obj[x].size
    BY <2>1, HeldIsLive, KeepsMemory
  <2>3. QED  BY <1>1, <2>1, <2>2, WiredQuiet
<1>5. ASSUME NEW c \in Clients, Reopen(c) \/ \E s \in Surfaces : DrawThrough(c, s)
      PROVE  WiredIsExact'
  <2>1. UNCHANGED <<wired, bufSize, pc, sur, obj>>
    BY <1>5 DEF Reopen, DrawThrough
  <2>2. QED  BY <2>1, WiredQuiet
<1>6. QED  BY <1>2, <1>3, <1>4, <1>5 DEF Next

LEMMA InitWired == Init => WiredIsExact
<1> SUFFICES ASSUME Init PROVE WiredIsExact
    OBVIOUS
<1>1. /\ \A b \in Bufs : {b} \X (1 .. bufSize[b]) = {}
      /\ \A t \in Threads : {t} \X (1 .. Reserved[t]) = {}
    BY DEF Init, Reserved
<1>2. Bytes(Bufs, bufSize) = {} /\ Bytes(Threads, Reserved) = {}
    BY <1>1 DEF Bytes
<1>3. /\ Cardinality(Bytes(Bufs, bufSize)) = 0 /\ Cardinality(Bytes(Threads, Reserved)) = 0
      /\ wired = 0
    BY <1>2, FS_EmptySet DEF Init
<1>4. QED  BY <1>3 DEF WiredIsExact

-----------------------------------------------------------------------------
(***************************************************************************)
(* The inductive invariant of the surface table, and what follows from it.  *)
(***************************************************************************)
SurfInv == owner \in Owners /\ Types /\ CountInv /\ MemInv /\ WiredIsExact

LEMMA OwnerFixed ==
    ASSUME Next
    PROVE  owner' = owner
<1> USE DEF local
<1>1. ASSUME NEW t \in Threads, Call(t)
      PROVE  owner' = owner
    BY <1>1 DEF Call, CreateBegin, sweet_surface_copy, LookupFromPort, trapRelease, CloseBegin
<1>2. ASSUME NEW t \in Threads, Continue(t)
      PROVE  owner' = owner
  <2>1. CASE TakeKept(t) \/ Reserve(t) \/ GetBuf(t) \/ Unreserve(t) \/ ZeroBuf(t)
             \/ sweet_surface_publish(t) \/ CreatePort(t) \/ sweet_surface_get(t)
             \/ ReleaseSurface(t) \/ FindExisting(t) \/ PutExisting(t)
    BY <2>1 DEF TakeKept, Reserve, GetBuf, Unreserve, ZeroBuf, sweet_surface_publish, CreatePort,
                sweet_surface_get, ReleaseSurface, FindExisting, PutExisting
  <2>2. CASE \/ AllocRef(t) \/ MapRef(t) \/ InsertRef(t) \/ FillResult(t) \/ UnmapRef(t)
             \/ PutRef(t) \/ ReleaseRef(t) \/ UndoRelease(t) \/ UnlockClient(t)
             \/ FlushEnd(t) \/ \E s \in Surfaces : FlushRef(t, s)
    BY <2>2 DEF AllocRef, MapRef, InsertRef, FillResult, UnmapRef, PutRef, ReleaseRef,
                UndoRelease, UnlockClient, FlushEnd, FlushRef
  <2>3. QED  BY <1>2, <2>1, <2>2 DEF Continue
<1>3. ASSUME NEW s \in Surfaces, FreeSurface(s) \/ PortGone(s)
      PROVE  owner' = owner
    BY <1>3 DEF FreeSurface, KeepBuffer, UnwireBuffer, PortGone
<1>4. ASSUME NEW c \in Clients, Reopen(c) \/ \E s \in Surfaces : DrawThrough(c, s)
      PROVE  owner' = owner
    BY <1>4 DEF Reopen, DrawThrough
<1>5. QED  BY <1>1, <1>2, <1>3, <1>4 DEF Next

(* SurfInv holds in every reachable state: the counts of the table, of the   *)
(* objects and of the memory together survive every step of every thread in  *)
(* create, lookup, addRef, trapRelease, clientClose and free.               *)
THEOREM SurfaceInvariant == Spec => []SurfInv
<1>1. Init => SurfInv
    BY InitCount, InitMem, InitWired DEF Init, SurfInv
<1>2. ASSUME SurfInv, [Next]_vars
      PROVE  SurfInv'
  <2>0. owner \in Owners /\ Types /\ CountInv /\ MemInv /\ WiredIsExact
    BY <1>2 DEF SurfInv
  <2>1. CASE Next
    <3>1. Types' /\ CountInv'
      BY <2>0, <2>1, TypesStep, CountNext
    <3>2. MemInv' /\ WiredIsExact'
      BY <2>0, <2>1, MemNext, WiredNext
    <3>3. owner' \in Owners
      BY <2>0, <2>1, OwnerFixed
    <3>4. QED  BY <3>1, <3>2, <3>3 DEF SurfInv
  <2>2. CASE UNCHANGED vars
    <3>0. /\ UNCHANGED <<owner, table, users, nextId, kept, wired, obj, bufSize, pixels>>
          /\ UNCHANGED <<refs, fLock, closed, ported, pc, sur, existing, then, got, outer>>
      BY <2>2 DEF vars, tableVars, memVars, clientVars, local
    <3>1. Types' /\ owner' \in Owners
      BY <2>0, <3>0 DEF Types
    <3>2. CountInv'
      BY <2>0, <3>0, CountStays
    <3>3. MemInv'
      BY <2>0, <3>0, MemQuiet
    <3>4. WiredIsExact'
      BY <2>0, <3>0, WiredQuiet
    <3>5. QED  BY <3>1, <3>2, <3>3, <3>4 DEF SurfInv
  <2>3. QED  BY <1>2, <2>1, <2>2
<1>3. QED  BY <1>1, <1>2, PTL DEF Spec

(* The type invariant: in particular no user count, no retain count and not  *)
(* the wired account ever goes below zero, whatever calls race.             *)
THEOREM SurfaceTypes == Spec => []TypeOK
<1>1. SurfInv => TypeOK
  <2> SUFFICES ASSUME SurfInv PROVE TypeOK
    OBVIOUS
  <2>1. /\ Cardinality(Bytes(Bufs, bufSize)) \in Nat
        /\ Cardinality(Bytes(Threads, Reserved)) \in Nat
    BY ReservedType, BytesFinite, SurfaceAssumption DEF SurfInv, Types
  <2>2. wired \in Nat
    BY <2>1 DEF SurfInv, WiredIsExact
  <2>3. QED  BY <2>2 DEF SurfInv, Types, TypeOK, ObjType
<1>2. QED  BY <1>1, SurfaceInvariant, PTL

(* A slot's user count is the number of references and calls that hold the   *)
(* surface, and the surface is in the table under its id exactly while there *)
(* is one: sweet_surface_get and sweet_surface_put never lose or invent one. *)
THEOREM UsersAreCounted == Spec => []UsersCounted
<1>1. SurfInv => UsersCounted
  <2> SUFFICES ASSUME SurfInv PROVE UsersCounted
    OBVIOUS
  <2>0. Types /\ SlotsNamed /\ UsersExact /\ UsersPositive /\ None \notin Surfaces
    BY SurfaceAssumption DEF SurfInv, CountInv
  <2>1. \A s \in Surfaces : UserCount(s) = Tabled(s)
    BY <2>0 DEF UserCount, UsersExact, CallUsers
  <2>2. ASSUME NEW i \in Ids, table[i] # None
        PROVE  /\ obj[table[i]].id = i /\ users[i] = UserCount(table[i]) /\ users[i] > 0
    <3>1. table[i] \in Surfaces /\ obj[table[i]].id = i
      BY <2>0, <2>2 DEF Types, SlotsNamed
    <3>2. Listed(table[i])
      BY <3>1 DEF Listed
    <3>3. QED  BY <2>0, <2>1, <3>1, <3>2 DEF Tabled, UsersPositive
  <2>3. ASSUME NEW s \in Surfaces, UserCount(s) > 0
        PROVE  table[obj[s].id] = s
    BY <2>1, <2>3 DEF Tabled, Listed
  <2>4. QED  BY <2>2, <2>3 DEF UsersCounted
<1>2. QED  BY <1>1, SurfaceInvariant, PTL

(* A surface's retain count is the number of its holders: the table, client  *)
(* references, the port and calls.  So no release frees a surface someone    *)
(* still holds, and none is leaked once the last holder has gone.           *)
THEOREM RetainsAreCounted == Spec => []RetainsCounted
<1>1. SurfInv => RetainsCounted
  <2> SUFFICES ASSUME SurfInv, NEW s \in Surfaces
               PROVE  obj[s].rc = Cardinality(InTable(s)) + Cardinality(RefHolders(s))
                                    + (IF s \in ported THEN 1 ELSE 0)
                                    + Cardinality(ThreadsAt(s, CallPlaces))
                                    + Cardinality(ThreadsAt(s, OwnRefPlaces))
                                    + Cardinality(InnerDrop(s)) + Cardinality(Undoing(s))
    BY DEF RetainsCounted
  <2>1. Cardinality(InTable(s)) = B(Listed(s))
    BY InTableCount DEF SurfInv, CountInv
  <2>2. obj[s].rc = B(Listed(s)) + Cardinality(RefHolders(s)) + B(s \in ported) + CallHolds(s)
    BY DEF SurfInv, CountInv, RetainsExact
  <2>3. /\ Cardinality(RefHolders(s)) \in Nat
        /\ Cardinality(ThreadsAt(s, CallPlaces)) \in Nat
        /\ Cardinality(ThreadsAt(s, OwnRefPlaces)) \in Nat
        /\ Cardinality(InnerDrop(s)) \in Nat /\ Cardinality(Undoing(s)) \in Nat
    BY Count, SurfaceAssumption DEF RefHolders, ThreadsAt, InnerDrop, Undoing
  <2>4. QED  BY <2>1, <2>2, <2>3 DEF CallHolds, B
<1>2. QED  BY <1>1, SurfaceInvariant, PTL

(* Every buffer that exists belongs to one: a surface, a create() under way,  *)
(* or the pool; a surface's buffer is of its size; and a surface some client *)
(* maps is alive, so a kept buffer is mapped by nobody.                     *)
THEOREM BuffersHaveOneOwner == Spec => []BuffersOwnedOnce
<1>1. SurfInv => BuffersOwnedOnce
  <2> SUFFICES ASSUME SurfInv PROVE BuffersOwnedOnce
    OBVIOUS
  <2>0. /\ Types /\ CountInv /\ None \notin Bufs
        /\ PoolIsFree /\ MemoryFits /\ MemoryApart /\ AllOwned
        /\ \A t \in Threads : CreatorMemory(t)
    BY SurfaceAssumption DEF SurfInv, MemInv
  <2>1. ASSUME NEW b \in Bufs
        PROVE  Cardinality(MemoryOf(b)) + (IF b \in kept THEN 1 ELSE 0)
                   = (IF bufSize[b] > 0 THEN 1 ELSE 0)
    <3>0. b # None /\ bufSize[b] \in Nat
      BY <2>0 DEF Types
    <3>1. CASE b \in kept
      <4>1. MemoryOf(b) = {} /\ bufSize[b] > 0
        BY <2>0, <3>1 DEF PoolIsFree, MemoryOf
      <4>2. Cardinality(MemoryOf(b)) = 0
        BY <4>1, FS_EmptySet
      <4>3. QED  BY <3>1, <4>1, <4>2
    <3>2. ASSUME NEW s \in Surfaces, obj[s].buf = b
          PROVE  b \notin kept /\ bufSize[b] > 0 /\ MemoryOf(b) = {s}
      <4>1. b \notin kept
        BY <2>0, <3>2 DEF PoolIsFree
      <4>2. bufSize[b] > 0 /\ \A t \in Threads : got[t] # b
        BY <2>0, <3>0, <3>2 DEF MemoryFits
      <4>3. \A x \in Surfaces : obj[x].buf = b => x = s
        BY <2>0, <3>0, <3>2 DEF MemoryApart
      <4>4. QED  BY <3>2, <4>1, <4>2, <4>3 DEF MemoryOf
    <3>3. ASSUME NEW t \in Threads, got[t] = b
          PROVE  b \notin kept /\ bufSize[b] > 0 /\ MemoryOf(b) = {t}
      <4>1. b \notin kept
        BY <2>0, <3>3 DEF PoolIsFree
      <4>2. pc[t] = "zero" /\ bufSize[b] = obj[sur[t]].size /\ obj[sur[t]].size > 0
        BY <2>0, <3>0, <3>3 DEF CreatorMemory, NoMemory, Unpublished
      <4>3. \A s \in Surfaces : obj[s].buf # b
        BY <2>0, <3>0, <3>3 DEF MemoryFits
      <4>4. \A u \in Threads : got[u] = b => u = t
        BY <2>0, <3>0, <3>3 DEF MemoryApart
      <4>5. QED  BY <3>3, <4>1, <4>2, <4>3, <4>4 DEF MemoryOf
    <3>4. CASE b \notin kept /\ ((\E s \in Surfaces : obj[s].buf = b) \/ \E t \in Threads : got[t] = b)
      <4>1. PICK x : b \notin kept /\ bufSize[b] > 0 /\ MemoryOf(b) = {x}
        BY <3>2, <3>3, <3>4
      <4>2. Cardinality(MemoryOf(b)) = 1
        BY <4>1, FS_Singleton
      <4>3. QED  BY <4>1, <4>2
    <3>5. CASE /\ b \notin kept
               /\ \A s \in Surfaces : obj[s].buf # b
               /\ \A t \in Threads : got[t] # b
      <4>1. MemoryOf(b) = {} /\ bufSize[b] = 0
        BY <2>0, <3>0, <3>5 DEF AllOwned, MemoryOf
      <4>2. Cardinality(MemoryOf(b)) = 0
        BY <4>1, FS_EmptySet
      <4>3. QED  BY <3>5, <4>1, <4>2
    <3>6. QED  BY <3>1, <3>4, <3>5
  <2>2. \A s \in Surfaces : obj[s].buf # None => bufSize[obj[s].buf] = obj[s].size
    BY <2>0 DEF MemoryFits
  <2>3. ASSUME NEW s \in Surfaces, RefHolders(s) # {}
        PROVE  obj[s].life = "live"
    <3>1. \E c \in Clients : refs[c][s] > 0
      BY <2>3 DEF RefHolders
    <3>2. QED  BY <2>0, <3>1, HeldIsLive
  <2>4. QED  BY <2>1, <2>2, <2>3 DEF BuffersOwnedOnce
<1>2. QED  BY <1>1, SurfaceInvariant, PTL

(* sweet_surface_wired is exactly the bytes of the buffers there are plus     *)
(* what create() calls have reserved: no failing path leaks wired bytes.     *)
THEOREM WiredExact == Spec => []WiredIsExact
<1>1. SurfInv => WiredIsExact
    BY DEF SurfInv
<1>2. QED  BY <1>1, SurfaceInvariant, PTL

(* A surface that can be looked up shows only what was drawn through it: a    *)
(* buffer from the pool is cleared before it is published.                  *)
THEOREM PixelsAreOwn == Spec => []NoOldPixels
<1>1. SurfInv => NoOldPixels
  <2> SUFFICES ASSUME SurfInv, NEW i \in Ids, table[i] # None
               PROVE  pixels[obj[table[i]].buf] \in {None, table[i]}
    BY DEF NoOldPixels
  <2>1. table[i] \in Surfaces /\ obj[table[i]].id = i
    BY DEF SurfInv, Types, CountInv, SlotsNamed
  <2>2. SurfaceMemory(table[i])
    BY <2>1 DEF SurfInv, MemInv
  <2>3. QED  BY <2>1, <2>2 DEF SurfaceMemory
<1>2. QED  BY <1>1, SurfaceInvariant, PTL
=============================================================================
