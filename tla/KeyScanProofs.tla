---------------------------- MODULE KeyScanProofs ----------------------------
(***************************************************************************)
(* Theorems about KeyScan, for any registers, clients and boots: types, and *)
(* that clients follow the keys without a repeated event.                   *)
(***************************************************************************)
EXTENDS KeyScan, SequenceTheorems, TLAPS

(***************************************************************************)
(* What the three operations on a client list leave on it.                  *)
(***************************************************************************)
LEMMA AppendOnce ==
    ASSUME NEW S, NEW s \in Seq(S), NEW e \in S, IsInjective(s), e \notin ToSet(s)
    PROVE  /\ Append(s, e) \in Seq(S) /\ IsInjective(Append(s, e))
           /\ ToSet(Append(s, e)) = ToSet(s) \cup {e}
<1>1. /\ Append(s, e) \in Seq(S) /\ Len(Append(s, e)) = Len(s) + 1
      /\ \A i \in 1 .. Len(s) : Append(s, e)[i] = s[i]
      /\ Append(s, e)[Len(s) + 1] = e
      /\ DOMAIN s = 1 .. Len(s) /\ DOMAIN Append(s, e) = 1 .. Len(s) + 1 /\ Len(s) \in Nat
    BY AppendProperties, LenProperties
<1>2. QED  BY <1>1 DEF IsInjective, ToSet

LEMMA TailOnce ==
    ASSUME NEW S, NEW s \in Seq(S), IsInjective(s), s # <<>>
    PROVE  /\ Tail(s) \in Seq(S) /\ IsInjective(Tail(s))
           /\ Head(s) \in S /\ ToSet(Tail(s)) = ToSet(s) \ {Head(s)} /\ Head(s) \in ToSet(s)
<1>1. /\ Tail(s) \in Seq(S) /\ Len(Tail(s)) = Len(s) - 1 /\ Head(s) \in S
      /\ \A i \in 1 .. Len(s) - 1 : Tail(s)[i] = s[i + 1]
      /\ DOMAIN s = 1 .. Len(s) /\ DOMAIN Tail(s) = 1 .. Len(s) - 1 /\ Len(s) \in Nat \ {0}
    BY HeadTailProperties, LenProperties, EmptySeq
<1>2. Head(s) = s[1]
    OBVIOUS
<1>3. IsInjective(Tail(s))
    BY <1>1 DEF IsInjective
<1>4. ASSUME NEW e \in ToSet(s) \ {Head(s)} PROVE e \in ToSet(Tail(s))
  <2>1. PICK i \in 1 .. Len(s) : e = s[i]
    BY <1>1 DEF ToSet
  <2>2. i - 1 \in 1 .. Len(s) - 1 /\ e = Tail(s)[i - 1]
    BY <1>1, <1>2, <2>1
  <2>3. QED  BY <1>1, <2>2 DEF ToSet
<1>5. ASSUME NEW e \in ToSet(Tail(s)) PROVE e \in ToSet(s) \ {Head(s)}
    BY <1>1, <1>2 DEF ToSet, IsInjective
<1>6. QED  BY <1>1, <1>2, <1>3, <1>4, <1>5 DEF ToSet

LEMMA RemoveOnce ==
    ASSUME NEW S, NEW s \in Seq(S), NEW i \in 1 .. Len(s), IsInjective(s)
    PROVE  /\ RemoveAt(s, i) \in Seq(S) /\ IsInjective(RemoveAt(s, i))
           /\ ToSet(RemoveAt(s, i)) = ToSet(s) \ {s[i]}
<1> DEFINE r == RemoveAt(s, i)
<1>1. /\ SubSeq(s, 1, i - 1) \in Seq(S) /\ Len(SubSeq(s, 1, i - 1)) = i - 1
      /\ \A j \in 1 .. i - 1 : SubSeq(s, 1, i - 1)[j] = s[j]
    BY SubSeqProperties
<1>2. /\ SubSeq(s, i + 1, Len(s)) \in Seq(S) /\ Len(SubSeq(s, i + 1, Len(s))) = Len(s) - i
      /\ \A j \in 1 .. Len(s) - i : SubSeq(s, i + 1, Len(s))[j] = s[i + j]
    BY SubSeqProperties
<1>3. /\ r \in Seq(S) /\ Len(r) = Len(s) - 1
      /\ \A j \in 1 .. Len(s) - 1 :
            r[j] = IF j <= i - 1 THEN SubSeq(s, 1, i - 1)[j]
                                 ELSE SubSeq(s, i + 1, Len(s))[j - (i - 1)]
  <2> DEFINE a == SubSeq(s, 1, i - 1)
             b == SubSeq(s, i + 1, Len(s))
  <2>0. Len(s) \in Nat
    BY LenProperties
  <2>1. a \in Seq(S) /\ b \in Seq(S) /\ Len(a) = i - 1 /\ Len(b) = Len(s) - i
    BY <1>1, <1>2
  <2>2. r = a \o b
    BY DEF RemoveAt
  <2> HIDE DEF a, b, r
  <2>3. /\ a \o b \in Seq(S) /\ Len(a \o b) = Len(a) + Len(b)
        /\ \A j \in 1 .. Len(a) + Len(b) :
              (a \o b)[j] = IF j <= Len(a) THEN a[j] ELSE b[j - Len(a)]
    BY <2>1, ConcatProperties
  <2>4. /\ r \in Seq(S) /\ Len(r) = Len(s) - 1
        /\ \A j \in 1 .. Len(s) - 1 :
              r[j] = IF j <= i - 1 THEN a[j] ELSE b[j - (i - 1)]
    BY <2>0, <2>1, <2>2, <2>3
  <2>5. QED  BY <2>4 DEF a, b
<1>4. ASSUME NEW j \in 1 .. Len(s) - 1 PROVE r[j] = IF j < i THEN s[j] ELSE s[j + 1]
  <2>1. CASE j <= i - 1
    BY <1>1, <1>3, <2>1
  <2>2. CASE ~(j <= i - 1)
    <3>1. j - (i - 1) \in 1 .. Len(s) - i /\ i + (j - (i - 1)) = j + 1
      BY <2>2
    <3>2. r[j] = s[j + 1]
      BY <1>2, <1>3, <2>2, <3>1
    <3>3. QED  BY <2>2, <3>2
  <2>3. QED  BY <2>1, <2>2
<1>5. DOMAIN r = 1 .. Len(s) - 1 /\ DOMAIN s = 1 .. Len(s) /\ Len(s) \in Nat
    BY <1>3, LenProperties
<1> HIDE DEF r
<1>6. IsInjective(r)
    BY <1>4, <1>5 DEF IsInjective
<1>7. ASSUME NEW e \in ToSet(r) PROVE e \in ToSet(s) \ {s[i]}
  <2>1. PICK j \in 1 .. Len(s) - 1 : e = r[j]
    BY <1>5 DEF ToSet
  <2>2. PICK k \in 1 .. Len(s) : k # i /\ e = s[k]
    BY <1>4, <1>5, <2>1
  <2>3. s[k] # s[i]
    BY <1>5, <2>2 DEF IsInjective
  <2>4. QED  BY <1>5, <2>2, <2>3 DEF ToSet
<1>8. ASSUME NEW e \in ToSet(s) \ {s[i]} PROVE e \in ToSet(r)
  <2>1. PICK j \in 1 .. Len(s) : e = s[j]
    BY <1>5 DEF ToSet
  <2>2. CASE j < i
    <3>1. j \in 1 .. Len(s) - 1 /\ e = r[j]
      BY <1>4, <1>5, <2>1, <2>2
    <3>2. QED  BY <1>5, <3>1 DEF ToSet
  <2>3. CASE j > i
    <3>1. j - 1 \in 1 .. Len(s) - 1 /\ e = r[j - 1]
      BY <1>4, <1>5, <2>1, <2>3
    <3>2. QED  BY <1>5, <3>1 DEF ToSet
  <2>4. QED  BY <2>1, <2>2, <2>3
<1>9. QED  BY <1>3, <1>6, <1>7, <1>8 DEF r

-----------------------------------------------------------------------------
LEMMA InitTypes == Init => TypeOK
<1> SUFFICES ASSUME Init PROVE TypeOK
    OBVIOUS
<1>1. 1 \in Regs /\ 0 \in 0 .. MaxPresses /\ Home \in Keys
    BY KeyAssumption DEF Regs, Keys
<1>2. <<>> \in Seq(Clients) /\ IsInjective(<<>>) /\ {} \subseteq ToSet(<<>>)
    BY DEF IsInjective
<1>3. event \in [key : Keys, down : BOOLEAN]
    BY <1>1 DEF Init
<1>4. told \in [Clients -> [Keys -> {<<>>, <<TRUE>>, <<FALSE>>}]]
    BY DEF Init
<1>5. pressed \in [Regs -> BOOLEAN]
    BY DEF Init
<1>6. QED  BY <1>1, <1>2, <1>3, <1>4, <1>5 DEF Init, TypeOK

LEMMA NextRegType == TypeOK /\ NextReg => at' \in Regs /\ pc' = "scan"
  BY KeyAssumption DEF TypeOK, NextReg, Regs

LEMMA TypesStep == TypeOK /\ [Next]_vars => TypeOK'
<1> SUFFICES ASSUME TypeOK, [Next]_vars PROVE TypeOK'
    OBVIOUS
<1> USE DEF hw, keys, sending
<1>1. ASSUME NEW k \in Regs, Press(k) PROVE TypeOK'
  <2>1. presses + 1 \in 0 .. MaxPresses
    BY <1>1, KeyAssumption DEF TypeOK, Press
  <2>2. QED  BY <1>1, <2>1 DEF TypeOK, Press
<1>2. CASE CaptureBase
  <2>1. at' \in Regs
    BY <1>2, KeyAssumption DEF TypeOK, CaptureBase, Regs
  <2>2. base' \in [Regs -> BOOLEAN] /\ valid' \subseteq Regs
    BY <1>2 DEF TypeOK, CaptureBase
  <2>3. QED  BY <1>2, <2>1, <2>2 DEF TypeOK, CaptureBase
<1>3. CASE SkipKey \/ Delivered
    BY <1>3, NextRegType DEF TypeOK, SkipKey, Delivered
<1>4. CASE KeyChanged
  <2>1. IsDown(at) \in BOOLEAN /\ NextHome(at) \in BOOLEAN
    BY DEF IsDown, NextHome
  <2>2. state' \in [Regs -> BOOLEAN] /\ keyUsed' \in BOOLEAN
    BY <1>4, <2>1 DEF TypeOK, KeyChanged
  <2>3. Home \in Keys /\ (at \notin HomeRegs => at \in Keys)
    BY DEF Keys, TypeOK
  <2>4. event' \in [key : Keys, down : BOOLEAN] /\ home' \in BOOLEAN
    BY <1>4, <2>1, <2>3 DEF TypeOK, KeyChanged
  <2>5. at' \in Regs /\ pc' \in {"scan", "send"}
    BY <1>4, NextRegType DEF TypeOK, KeyChanged
  <2>6. QED  BY <1>4, <2>2, <2>4, <2>5 DEF TypeOK, KeyChanged
<1>5. CASE SendKey
    BY <1>5, NextRegType DEF TypeOK, SendKey
<1>6. CASE Deliver
  <2>1. /\ left' \in Seq(Clients) /\ IsInjective(left') /\ Head(left) \in Clients
    BY <1>6, TailOnce DEF Deliver, TypeOK
  <2>2. event.key \in Keys /\ <<event.down>> \in {<<>>, <<TRUE>>, <<FALSE>>}
    BY DEF TypeOK
  <2>3. told' \in [Clients -> [Keys -> {<<>>, <<TRUE>>, <<FALSE>>}]]
    BY <1>6, <2>1, <2>2 DEF Deliver, TypeOK
  <2>4. QED  BY <1>6, <2>1, <2>3 DEF Deliver, TypeOK
<1>7. ASSUME NEW c \in Clients, handleOpen(c) PROVE TypeOK'
  <2>1. /\ list' \in Seq(Clients) /\ IsInjective(list') /\ opened' \subseteq ToSet(list')
    BY <1>7, AppendOnce DEF handleOpen, TypeOK
  <2>2. told' \in [Clients -> [Keys -> {<<>>, <<TRUE>>, <<FALSE>>}]]
    BY <1>7 DEF handleOpen, TypeOK
  <2>3. QED  BY <1>7, <2>1, <2>2 DEF handleOpen, TypeOK
<1>8. ASSUME NEW c \in Clients, handleClose(c) PROVE TypeOK'
  <2>1. /\ list' \in Seq(Clients) /\ IsInjective(list') /\ opened' \subseteq ToSet(list')
    BY <1>8, RemoveOnce DEF handleClose, TypeOK
  <2>2. QED  BY <1>8, <2>1 DEF handleClose, TypeOK
<1>9. CASE UNCHANGED vars
    BY <1>9 DEF vars, TypeOK
<1>10. QED
    BY <1>1, <1>2, <1>3, <1>4, <1>5, <1>6, <1>7, <1>8, <1>9 DEF Next, Thread

(* Type correctness: no client is ever on the list twice, and the client    *)
(* list never misses one that is open.                                      *)
THEOREM KeyTypes == Spec => []TypeOK
  BY InitTypes, TypesStep, PTL DEF Spec

-----------------------------------------------------------------------------
(***************************************************************************)
(* The inductive invariant.  While an event is under way, the clients still *)
(* to be told last heard the opposite or nothing, and the others on the     *)
(* list the event itself or, opened since, nothing.                         *)
(***************************************************************************)
Heard(c, k, v) == told[c][k] \in {<<>>, <<v>>}

HomeSeen == home = \E j \in HomeRegs : state[j]

EventSeen == pc \in {"send", "deliver"} => event.down = Seen(event.key)

OthersFollow ==
    \A c \in ToSet(list) : \A k \in Keys :
        pc \in {"capture", "scan"} \/ k # event.key => Heard(c, k, Seen(k))

WaitOpposite ==
    /\ pc = "send" => \A c \in ToSet(list) : Heard(c, event.key, ~event.down)
    /\ pc = "deliver" => \A c \in ToSet(left) : Heard(c, event.key, ~event.down)

ToldOnes ==
    pc = "deliver" =>
        \A c \in ToSet(list) \ ToSet(left) : Heard(c, event.key, event.down)

KeyInv ==
    /\ TypeOK /\ HomeSeen /\ EventSeen
    /\ ~env.noMem => OthersFollow /\ WaitOpposite /\ ToldOnes

LEMMA InitKeys == Init => KeyInv
<1> SUFFICES ASSUME Init PROVE KeyInv
    OBVIOUS
<1>1. TypeOK
    BY InitTypes
<1>2. HomeSeen
    BY KeyAssumption DEF Init, HomeSeen
<1>3. ToSet(list) = {}
    BY DEF Init, ToSet
<1>4. OthersFollow
    BY <1>3 DEF OthersFollow
<1>5. EventSeen /\ WaitOpposite /\ ToldOnes
    BY DEF Init, EventSeen, WaitOpposite, ToldOnes
<1>6. QED  BY <1>1, <1>2, <1>4, <1>5 DEF KeyInv

(* Two values a client can have heard are told apart.                       *)
LEMMA HeardOpposite ==
    ASSUME TypeOK, NEW c \in Clients, NEW k \in Keys, NEW v \in BOOLEAN, Heard(c, k, ~v)
    PROVE  told[c][k] # <<v>>
<1>1. <<>> # <<v>>
    OBVIOUS
<1>2. <<~v>>[1] # <<v>>[1]
    OBVIOUS
<1>3. QED  BY <1>1, <1>2 DEF Heard

(* A key changes: the event carries the opposite of what was seen before.   *)
LEMMA KeyChangedStep ==
    ASSUME KeyInv, TypeOK', KeyChanged
    PROVE  KeyInv'
<1> USE DEF KeyInv, hw, keys, sending
<1>0. /\ at \in Regs /\ state'[at] = IsDown(at) /\ state[at] = ~IsDown(at)
      /\ \A j \in Regs : j # at => state'[j] = state[j]
      /\ UNCHANGED <<list, told, env>> /\ pc = "scan"
    BY DEF KeyChanged, TypeOK, IsDown
<1>a. HomeRegs \subseteq Regs /\ Home \notin Regs
    BY KeyAssumption
<1>1. HomeSeen'
  <2>1. CASE at \notin HomeRegs
    BY <1>0, <1>a, <2>1 DEF HomeSeen, KeyChanged
  <2>2. CASE at \in HomeRegs
    <3>1. home' = NextHome(at)
      BY <2>2 DEF KeyChanged, HomeChanges
    <3>2. NextHome(at) = \E j \in HomeRegs : state'[j]
      BY <1>0, <1>a, <2>2 DEF NextHome
    <3>3. QED  BY <3>1, <3>2 DEF HomeSeen
  <2>3. QED  BY <2>1, <2>2
<1>2. ASSUME NEW k \in Keys, k # (IF at \in HomeRegs THEN Home ELSE at)
      PROVE  Seen(k)' = Seen(k)
    BY <1>0, <1>a, <1>2 DEF Seen, Keys
<1>3. CASE at \in HomeRegs /\ ~HomeChanges(at)
  <2>1. pc' = "scan" /\ UNCHANGED home
    BY <1>3 DEF KeyChanged, NextReg
  <2>2. Seen(Home)' = Seen(Home)
    BY <1>1, <2>1 DEF Seen, HomeSeen
  <2>3. \A k \in Keys : Seen(k)' = Seen(k)
    BY <1>2, <1>3, <2>2
  <2>4. ~env.noMem => OthersFollow'
    BY <1>0, <2>1, <2>3 DEF OthersFollow, Heard
  <2>5. EventSeen' /\ WaitOpposite' /\ ToldOnes'
    BY <2>1 DEF EventSeen, WaitOpposite, ToldOnes
  <2>6. QED  BY <1>0, <1>1, <2>4, <2>5
<1>4. CASE ~(at \in HomeRegs /\ ~HomeChanges(at))
  <2>0. PICK ek \in Keys, ev \in BOOLEAN : ek = event'.key /\ ev = event'.down
    BY DEF TypeOK
  <2>1. pc' = "send" /\ ek = (IF at \in HomeRegs THEN Home ELSE at)
    BY <1>4, <2>0 DEF KeyChanged
  <2>2. Seen(ek)' = ev /\ Seen(ek) = ~ev
    <3>1. CASE at \notin HomeRegs
      <4>1. ek = at /\ ev = IsDown(at)
        BY <1>4, <2>0, <3>1 DEF KeyChanged
      <4>2. state'[ek] = ev /\ state[ek] = ~ev /\ ek # Home
        BY <1>0, <1>a, <4>1
      <4>3. QED  BY <4>2 DEF Seen
    <3>2. CASE at \in HomeRegs
      <4>1. ek = Home /\ ev = NextHome(at) /\ home' = NextHome(at) /\ NextHome(at) # home
        BY <1>4, <2>0, <3>2 DEF KeyChanged, HomeChanges
      <4>2. home \in BOOLEAN /\ home' = ev /\ home = ~ev
        BY <4>1 DEF TypeOK
      <4>3. Seen(ek) = home /\ Seen(ek)' = home'
        BY <1>1, <4>1 DEF Seen, HomeSeen
      <4>4. QED  BY <4>2, <4>3
    <3>3. QED  BY <3>1, <3>2
  <2>3. EventSeen'
    BY <2>0, <2>2 DEF EventSeen, Seen
  <2>4. ASSUME ~env.noMem PROVE OthersFollow'
    BY <1>0, <1>2, <2>0, <2>1, <2>4 DEF OthersFollow, Heard
  <2>5. ASSUME ~env.noMem PROVE WaitOpposite'
    <3>1. \A c \in ToSet(list) : Heard(c, ek, Seen(ek))
      BY <1>0, <2>5 DEF OthersFollow
    <3>2. \A c \in ToSet(list) : Heard(c, ek, ~ev)
      BY <2>2, <3>1
    <3>3. QED  BY <1>0, <2>0, <2>1, <3>2 DEF WaitOpposite, Heard
  <2>6. ToldOnes'
    BY <2>1 DEF ToldOnes
  <2>7. QED  BY <1>0, <1>1, <2>3, <2>4, <2>5, <2>6
<1>5. QED  BY <1>3, <1>4

(* Steps that concern neither a key's state nor a client.                   *)
LEMMA QuietStep ==
    ASSUME KeyInv, TypeOK', CaptureBase \/ SkipKey \/ \E k \in Regs : Press(k)
    PROVE  KeyInv'
<1> USE DEF KeyInv, hw, keys, sending
<1>1. /\ UNCHANGED <<env, state, home, event, left, told, list>>
      /\ pc' = pc \/ (pc \in {"capture", "scan"} /\ pc' \in {"capture", "scan"})
    BY DEF CaptureBase, SkipKey, Press, NextReg
<1>2. \A k \in Keys : Seen(k)' = Seen(k)
    BY <1>1 DEF Seen
<1>3. HomeSeen' /\ EventSeen'
    BY <1>1 DEF HomeSeen, EventSeen, Seen
<1>4. ASSUME ~env.noMem PROVE OthersFollow' /\ WaitOpposite' /\ ToldOnes'
  <2>1. OthersFollow'
    BY <1>1, <1>2, <1>4 DEF OthersFollow, Heard
  <2>2. WaitOpposite' /\ ToldOnes'
    BY <1>1, <1>4 DEF WaitOpposite, ToldOnes, Heard
  <2>3. QED  BY <2>1, <2>2
<1>5. QED  BY <1>1, <1>3, <1>4

(* The snapshot is taken, the next client told, the last one done.          *)
LEMMA SendingStep ==
    ASSUME KeyInv, TypeOK', SendKey \/ Deliver \/ Delivered
    PROVE  KeyInv'
<1> USE DEF KeyInv, hw, keys, sending
<1>1. /\ UNCHANGED <<env, state, home, event, list>>
      /\ pc \in {"send", "deliver"} /\ pc' \in {"scan", "deliver"}
    BY DEF SendKey, Deliver, Delivered, NextReg
<1>2. \A k \in Keys : Seen(k)' = Seen(k)
    BY <1>1 DEF Seen
<1>3. HomeSeen' /\ EventSeen'
    BY <1>1 DEF HomeSeen, EventSeen, Seen
<1>4. /\ event.key \in Keys /\ event.down \in BOOLEAN /\ ToSet(list) \subseteq Clients
      /\ ToSet(left) \subseteq Clients
    BY DEF TypeOK, ToSet
<1>5. ASSUME ~env.noMem, SendKey PROVE OthersFollow' /\ WaitOpposite' /\ ToldOnes'
  <2>1. pc = "send" /\ pc' = "deliver" /\ left' = list /\ told' = told
    BY <1>5 DEF SendKey
  <2>2. QED  BY <1>1, <1>2, <1>5, <2>1 DEF OthersFollow, WaitOpposite, ToldOnes, Heard
<1>6. ASSUME ~env.noMem, Deliver PROVE OthersFollow' /\ WaitOpposite' /\ ToldOnes'
  <2>1. /\ Head(left) \in Clients /\ ToSet(left') = ToSet(left) \ {Head(left)}
        /\ Head(left) \in ToSet(left)
    BY <1>6, TailOnce DEF Deliver, TypeOK
  <2>2. pc = "deliver" /\ pc' = "deliver"
    BY <1>6 DEF Deliver
  <2>3. /\ told'[Head(left)][event.key] = <<event.down>>
        /\ \A c \in Clients, k \in Keys :
              c # Head(left) \/ k # event.key => told'[c][k] = told[c][k]
    BY <1>4, <1>6, <2>1 DEF Deliver, TypeOK
  <2>4. OthersFollow'
    BY <1>1, <1>2, <1>4, <1>6, <2>2, <2>3 DEF OthersFollow, Heard
  <2>5. WaitOpposite'
    BY <1>1, <1>4, <1>6, <2>1, <2>2, <2>3 DEF WaitOpposite, Heard
  <2>6. ToldOnes'
    BY <1>1, <1>4, <1>6, <2>1, <2>2, <2>3 DEF ToldOnes, Heard
  <2>7. QED  BY <2>4, <2>5, <2>6
<1>7. ASSUME ~env.noMem, Delivered PROVE OthersFollow' /\ WaitOpposite' /\ ToldOnes'
  <2>1. pc = "deliver" /\ pc' = "scan" /\ told' = told /\ ToSet(left) = {}
    BY <1>7 DEF Delivered, NextReg, ToSet
  <2>2. \A c \in ToSet(list) : Heard(c, event.key, Seen(event.key))
    BY <1>7, <2>1 DEF ToldOnes, EventSeen
  <2>3. OthersFollow'
    BY <1>1, <1>2, <1>7, <2>1, <2>2 DEF OthersFollow, Heard
  <2>4. QED  BY <2>1, <2>3 DEF WaitOpposite, ToldOnes
<1>8. QED  BY <1>1, <1>3, <1>5, <1>6, <1>7

(* Opens and closes replace the list; a snapshot under way keeps its own.   *)
LEMMA ClientStep ==
    ASSUME KeyInv, TypeOK', NEW c \in Clients, handleOpen(c) \/ handleClose(c)
    PROVE  KeyInv'
<1> USE DEF KeyInv, hw, keys, sending
<1>1. UNCHANGED <<env, pc, state, home, event, left>>
    BY DEF handleOpen, handleClose
<1>2. \A k \in Keys : Seen(k)' = Seen(k)
    BY <1>1 DEF Seen
<1>3. HomeSeen' /\ EventSeen'
    BY <1>1 DEF HomeSeen, EventSeen, Seen
<1>4. event.key \in Keys /\ ToSet(left) \subseteq Clients /\ ToSet(list) \subseteq Clients
    BY DEF TypeOK, ToSet
<1>5. CASE handleClose(c)
  <2>1. ToSet(list') \subseteq ToSet(list) /\ told' = told
    BY <1>5, RemoveOnce DEF handleClose, TypeOK
  <2>2. ASSUME ~env.noMem PROVE OthersFollow' /\ WaitOpposite' /\ ToldOnes'
    <3>1. OthersFollow'
      BY <1>1, <1>2, <2>1, <2>2 DEF OthersFollow, Heard
    <3>2. WaitOpposite'
      BY <1>1, <2>1, <2>2 DEF WaitOpposite, Heard
    <3>3. ToldOnes'
      BY <1>1, <2>1, <2>2 DEF ToldOnes, Heard
    <3>4. QED  BY <3>1, <3>2, <3>3
  <2>3. QED  BY <1>1, <1>3, <2>2
<1>6. CASE handleOpen(c)
  <2>1. ToSet(list') = ToSet(list) \cup {c} /\ c \notin ToSet(left) /\ c \notin ToSet(list)
    BY <1>6, AppendOnce DEF handleOpen, TypeOK
  <2>2. /\ \A k \in Keys : told'[c][k] = <<>>
        /\ \A d \in Clients : d # c => told'[d] = told[d]
    BY <1>6 DEF handleOpen, TypeOK
  <2>3. ASSUME ~env.noMem PROVE OthersFollow' /\ WaitOpposite' /\ ToldOnes'
    <3>1. OthersFollow'
      BY <1>1, <1>2, <1>4, <2>1, <2>2, <2>3 DEF OthersFollow, Heard
    <3>2. WaitOpposite'
      BY <1>1, <1>4, <2>1, <2>2, <2>3 DEF WaitOpposite, Heard
    <3>3. ToldOnes'
      BY <1>1, <1>4, <2>1, <2>2, <2>3 DEF ToldOnes, Heard
    <3>4. QED  BY <3>1, <3>2, <3>3
  <2>4. QED  BY <1>1, <1>3, <2>3
<1>7. QED  BY <1>5, <1>6

LEMMA NextKeys == KeyInv /\ [Next]_vars => KeyInv'
<1> SUFFICES ASSUME KeyInv, [Next]_vars PROVE KeyInv'
    OBVIOUS
<1>1. TypeOK'
    BY TypesStep DEF KeyInv
<1>2. CASE Next
    BY <1>1, <1>2, QuietStep, KeyChangedStep, SendingStep, ClientStep DEF Next, Thread
<1>3. CASE UNCHANGED vars
  <2>1. UNCHANGED <<env, pc, state, home, event, left, told, list>>
    BY <1>3 DEF vars, hw, keys, sending
  <2>2. \A k : Seen(k)' = Seen(k)
    BY <2>1 DEF Seen
  <2>3. \A c, k, v : Heard(c, k, v)' <=> Heard(c, k, v)
    BY <2>1 DEF Heard
  <2>4. HomeSeen' /\ EventSeen'
    BY <2>1, <2>2 DEF KeyInv, HomeSeen, EventSeen
  <2>5. ~env.noMem => OthersFollow' /\ WaitOpposite' /\ ToldOnes'
    BY <2>1, <2>2, <2>3 DEF KeyInv, OthersFollow, WaitOpposite, ToldOnes
  <2>6. QED  BY <1>1, <2>1, <2>4, <2>5 DEF KeyInv
<1>4. QED  BY <1>2, <1>3

(* What the thread has seen, the event under way and what each client heard *)
(* last agree throughout.                                                   *)
THEOREM KeyInvariant == Spec => []KeyInv
  BY InitKeys, NextKeys, PTL DEF Spec

(* Between two events no client on the list is behind: no key hangs.        *)
THEOREM ClientsAreTold == Spec => []ClientsFollowKeys
<1>1. KeyInv => ClientsFollowKeys
    BY DEF KeyInv, OthersFollow, Heard, ClientsFollowKeys
<1>2. QED  BY <1>1, KeyInvariant, PTL

(* No client is told the same of a key twice in a row.                      *)
THEOREM EventsAlternate == Spec => []NoRepeatedEvent
<1>1. KeyInv => NoRepeatedEvent
  <2> SUFFICES ASSUME KeyInv, pc = "deliver", ~env.noMem, NEW c \in ToSet(left)
               PROVE  told[c][event.key] # <<event.down>>
    BY DEF NoRepeatedEvent
  <2>1. c \in Clients /\ event.key \in Keys /\ event.down \in BOOLEAN
    BY DEF KeyInv, TypeOK, ToSet
  <2>2. Heard(c, event.key, ~event.down)
    BY DEF KeyInv, WaitOpposite
  <2>3. QED  BY <2>1, <2>2, HeardOpposite DEF KeyInv
<1>2. QED  BY <1>1, KeyInvariant, PTL
=============================================================================
