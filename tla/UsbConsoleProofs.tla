-------------------------- MODULE UsbConsoleProofs --------------------------
(***************************************************************************)
(* Theorems about UsbConsole, for any threads, sizes, bounds and hosts:     *)
(* types, that a busy transmitter has a transfer, that console bytes stay   *)
(* in order and that both receiving endpoints listen.                       *)
(***************************************************************************)
EXTENDS UsbConsole, SequenceTheorems, TLAPS

(***************************************************************************)
(* The events that wait. An event is in the queue at most once, Once, or    *)
(* not at all, ~Contains.                                                   *)
(***************************************************************************)
Once(w, x) == \A i, j \in 1 .. Len(w) : w[i] = x /\ w[j] = x => i = j

LEMMA AppendEvent ==
    ASSUME NEW S, NEW w \in Seq(S), NEW e \in S, NEW x
    PROVE  /\ Append(w, e) \in Seq(S) /\ Len(Append(w, e)) = Len(w) + 1
           /\ Contains(Append(w, e), x) <=> Contains(w, x) \/ e = x
           /\ Once(w, x) /\ (e = x => ~Contains(w, x)) => Once(Append(w, e), x)
<1>1. /\ Append(w, e) \in Seq(S) /\ Len(Append(w, e)) = Len(w) + 1 /\ Len(w) \in Nat
      /\ \A i \in 1 .. Len(w) : Append(w, e)[i] = w[i]
      /\ Append(w, e)[Len(w) + 1] = e
    BY AppendProperties, LenProperties
<1>2. ASSUME Contains(Append(w, e), x) PROVE Contains(w, x) \/ e = x
  <2>1. PICK i \in 1 .. Len(w) + 1 : Append(w, e)[i] = x
    BY <1>1, <1>2 DEF Contains
  <2>2. i \in 1 .. Len(w) \/ i = Len(w) + 1
    BY <1>1
  <2>3. QED  BY <1>1, <2>1, <2>2 DEF Contains
<1>3. ASSUME Contains(w, x) \/ e = x PROVE Contains(Append(w, e), x)
  <2>1. CASE Contains(w, x)
    <3>1. PICK i \in 1 .. Len(w) : w[i] = x
      BY <2>1 DEF Contains
    <3>2. i \in 1 .. Len(w) + 1 /\ Append(w, e)[i] = x
      BY <1>1, <3>1
    <3>3. QED  BY <1>1, <3>2 DEF Contains
  <2>2. CASE e = x
    <3>1. Len(w) + 1 \in 1 .. Len(w) + 1
      BY <1>1
    <3>2. QED  BY <1>1, <2>2, <3>1 DEF Contains
  <2>3. QED  BY <1>3, <2>1, <2>2
<1>4. ASSUME Once(w, x), e = x => ~Contains(w, x),
             NEW i \in 1 .. Len(w) + 1, NEW j \in 1 .. Len(w) + 1,
             Append(w, e)[i] = x, Append(w, e)[j] = x
      PROVE  i = j
  <2>1. CASE i \in 1 .. Len(w) /\ j \in 1 .. Len(w)
    BY <1>1, <1>4, <2>1 DEF Once
  <2>2. CASE i \notin 1 .. Len(w) /\ j \notin 1 .. Len(w)
    BY <1>1, <2>2
  <2>3. CASE i \in 1 .. Len(w) /\ j = Len(w) + 1
    BY <1>1, <1>4, <2>3 DEF Contains
  <2>4. CASE j \in 1 .. Len(w) /\ i = Len(w) + 1
    BY <1>1, <1>4, <2>4 DEF Contains
  <2>5. QED  BY <1>1, <2>1, <2>2, <2>3, <2>4
<1>5. QED  BY <1>1, <1>2, <1>3, <1>4 DEF Once

LEMMA HeadOrTail ==
    ASSUME NEW S, NEW w \in Seq(S), w # <<>>, NEW x
    PROVE  /\ Head(w) \in S /\ Tail(w) \in Seq(S) /\ Len(Tail(w)) = Len(w) - 1
           /\ Contains(w, x) <=> Head(w) = x \/ Contains(Tail(w), x)
           /\ Once(w, x) => Once(Tail(w), x) /\ (Head(w) = x => ~Contains(Tail(w), x))
<1>1. /\ Head(w) \in S /\ Tail(w) \in Seq(S) /\ Len(Tail(w)) = Len(w) - 1
      /\ \A i \in 1 .. Len(w) - 1 : Tail(w)[i] = w[i + 1]
      /\ Len(w) \in Nat \ {0}
    BY HeadTailProperties, EmptySeq
<1>2. Head(w) = w[1]
    OBVIOUS
<1>3. ASSUME Contains(w, x) PROVE Head(w) = x \/ Contains(Tail(w), x)
  <2>1. PICK i \in 1 .. Len(w) : w[i] = x
    BY <1>3 DEF Contains
  <2>2. CASE i = 1
    BY <1>2, <2>1, <2>2
  <2>3. CASE i # 1
    <3>1. i - 1 \in 1 .. Len(w) - 1 /\ Tail(w)[i - 1] = x
      BY <1>1, <2>1, <2>3
    <3>2. QED  BY <1>1, <3>1 DEF Contains
  <2>4. QED  BY <2>2, <2>3
<1>4. ASSUME Contains(Tail(w), x) PROVE \E i \in 2 .. Len(w) : w[i] = x
  <2>1. PICK i \in 1 .. Len(w) - 1 : Tail(w)[i] = x
    BY <1>1, <1>4 DEF Contains
  <2>2. i + 1 \in 2 .. Len(w) /\ w[i + 1] = x
    BY <1>1, <2>1
  <2>3. QED  BY <2>2
<1>5. ASSUME Head(w) = x \/ Contains(Tail(w), x) PROVE Contains(w, x)
    BY <1>1, <1>2, <1>4, <1>5 DEF Contains
<1>6. ASSUME Once(w, x) PROVE Once(Tail(w), x)
  <2>1. SUFFICES ASSUME NEW i \in 1 .. Len(w) - 1, NEW j \in 1 .. Len(w) - 1,
                        Tail(w)[i] = x, Tail(w)[j] = x
                 PROVE  i = j
    BY <1>1 DEF Once
  <2>2. /\ i + 1 \in 1 .. Len(w) /\ w[i + 1] = x
        /\ j + 1 \in 1 .. Len(w) /\ w[j + 1] = x
    BY <1>1, <2>1
  <2>3. i + 1 = j + 1
    BY <1>6, <2>2 DEF Once
  <2>4. QED  BY <2>3
<1>7. ASSUME Once(w, x), Head(w) = x PROVE ~Contains(Tail(w), x)
    BY <1>1, <1>2, <1>4, <1>7 DEF Once
<1>8. QED  BY <1>1, <1>3, <1>5, <1>6, <1>7

(***************************************************************************)
(* The first n elements of a sequence, and the others.                      *)
(***************************************************************************)
LEMMA SplitSeq ==
    ASSUME NEW S, NEW w \in Seq(S), NEW n \in 0 .. Len(w)
    PROVE  LET a == SubSeq(w, 1, n)
               b == SubSeq(w, n + 1, Len(w))
           IN  /\ a \in Seq(S) /\ Len(a) = n /\ \A i \in 1 .. n : a[i] = w[i]
               /\ b \in Seq(S) /\ Len(b) = Len(w) - n
               /\ \A i \in 1 .. Len(w) - n : b[i] = w[i + n]
<1>1. Len(w) \in Nat /\ \A i \in 1 .. Len(w) : w[i] \in S
    BY LenProperties, ElementOfSeq
<1>2. /\ SubSeq(w, 1, n) \in Seq(S) /\ Len(SubSeq(w, 1, n)) = IF 1 <= n THEN n - 1 + 1 ELSE 0
      /\ \A i \in 1 .. n - 1 + 1 : SubSeq(w, 1, n)[i] = w[1 + i - 1]
    BY <1>1, SubSeqProperties
<1>3. /\ SubSeq(w, n + 1, Len(w)) \in Seq(S)
      /\ Len(SubSeq(w, n + 1, Len(w))) = IF n + 1 <= Len(w) THEN Len(w) - (n + 1) + 1 ELSE 0
      /\ \A i \in 1 .. Len(w) - (n + 1) + 1 :
            SubSeq(w, n + 1, Len(w))[i] = w[(n + 1) + i - 1]
  <2>1. n + 1 \in Int /\ Len(w) \in Int /\ \A i \in n + 1 .. Len(w) : w[i] \in S
    BY <1>1
  <2>2. QED  BY <2>1, SubSeqProperties
<1>4. \A i \in 1 .. n : SubSeq(w, 1, n)[i] = w[i]
    BY <1>2
<1>5. \A i \in 1 .. Len(w) - n : SubSeq(w, n + 1, Len(w))[i] = w[i + n]
    BY <1>1, <1>3
<1>6. QED  BY <1>1, <1>2, <1>3, <1>4, <1>5

LEMMA MoveEvents ==
    ASSUME NEW S, NEW r \in Seq(S), NEW h \in Seq(S), NEW n \in 0 .. Len(h)
    PROVE  /\ (r \o SubSeq(h, 1, n)) \o SubSeq(h, n + 1, Len(h)) = r \o h
           /\ r \o SubSeq(h, 1, n) \in Seq(S) /\ Len(r \o SubSeq(h, 1, n)) = Len(r) + n
<1> DEFINE a == SubSeq(h, 1, n)
           b == SubSeq(h, n + 1, Len(h))
<1>1. /\ a \in Seq(S) /\ Len(a) = n /\ \A i \in 1 .. n : a[i] = h[i]
      /\ b \in Seq(S) /\ Len(b) = Len(h) - n
      /\ \A i \in 1 .. Len(h) - n : b[i] = h[i + n]
    BY SplitSeq
<1>2. Len(h) \in Nat /\ Len(r) \in Nat
    BY LenProperties
<1> HIDE DEF a, b
<1>3. a \o b = h
  <2>1. /\ a \o b \in Seq(S) /\ Len(a \o b) = Len(a) + Len(b)
        /\ \A i \in 1 .. Len(a) + Len(b) :
              (a \o b)[i] = IF i <= Len(a) THEN a[i] ELSE b[i - Len(a)]
    BY <1>1, ConcatProperties
  <2>2. Len(a \o b) = Len(h)
    BY <1>1, <1>2, <2>1
  <2>3. ASSUME NEW i \in 1 .. Len(h) PROVE (a \o b)[i] = h[i]
    <3>1. CASE i <= n
      BY <1>1, <1>2, <2>1, <3>1
    <3>2. CASE i > n
      <4>1. i - n \in 1 .. Len(h) - n /\ (i - n) + n = i
        BY <1>2, <3>2
      <4>2. QED  BY <1>1, <1>2, <2>1, <3>2, <4>1
    <3>3. i <= n \/ i > n
      BY <1>2
    <3>4. QED  BY <3>1, <3>2, <3>3
  <2>4. QED  BY <2>1, <2>2, <2>3, SeqEqual
<1>4. (r \o a) \o b = r \o (a \o b)
  <2>1. a \in Seq(S) /\ b \in Seq(S)
    BY <1>1
  <2>2. QED  BY <2>1, ConcatAssociative
<1>5. r \o a \in Seq(S) /\ Len(r \o a) = Len(r) + Len(a)
  <2>1. a \in Seq(S)
    BY <1>1
  <2>2. QED  BY <2>1, ConcatProperties
<1>6. QED  BY <1>1, <1>3, <1>4, <1>5 DEF a, b

LEMMA TakeEvent ==
    ASSUME NEW S, NEW r \in Seq(S), NEW h \in Seq(S), r # <<>>
    PROVE  /\ r \o h \in Seq(S) /\ r \o h # <<>>
           /\ Head(r \o h) = Head(r) /\ Tail(r \o h) = Tail(r) \o h
<1>1. /\ Len(r) \in Nat \ {0} /\ Len(h) \in Nat
      /\ Tail(r) \in Seq(S) /\ Len(Tail(r)) = Len(r) - 1
      /\ \A i \in 1 .. Len(r) - 1 : Tail(r)[i] = r[i + 1]
    BY HeadTailProperties, EmptySeq, LenProperties
<1>2. /\ r \o h \in Seq(S) /\ Len(r \o h) = Len(r) + Len(h)
      /\ \A i \in 1 .. Len(r) + Len(h) :
            (r \o h)[i] = IF i <= Len(r) THEN r[i] ELSE h[i - Len(r)]
    BY ConcatProperties
<1>3. r \o h # <<>> /\ Head(r \o h) = (r \o h)[1] /\ Head(r) = r[1]
    BY <1>1, <1>2, EmptySeq
<1>4. /\ Tail(r) \o h \in Seq(S) /\ Len(Tail(r) \o h) = Len(r) - 1 + Len(h)
      /\ \A i \in 1 .. Len(r) - 1 + Len(h) :
            (Tail(r) \o h)[i] = IF i <= Len(r) - 1 THEN Tail(r)[i] ELSE h[i - (Len(r) - 1)]
    BY <1>1, ConcatProperties
<1>5. /\ Tail(r \o h) \in Seq(S) /\ Len(Tail(r \o h)) = Len(r) + Len(h) - 1
      /\ \A i \in 1 .. Len(r) + Len(h) - 1 : Tail(r \o h)[i] = (r \o h)[i + 1]
    BY <1>2, <1>3, HeadTailProperties
<1>6. ASSUME NEW i \in 1 .. Len(r) + Len(h) - 1 PROVE Tail(r \o h)[i] = (Tail(r) \o h)[i]
  <2>1. i \in 1 .. Len(r) - 1 + Len(h) /\ i + 1 \in 1 .. Len(r) + Len(h)
    BY <1>1
  <2>2. CASE i <= Len(r) - 1
    BY <1>1, <1>2, <1>4, <1>5, <2>1, <2>2
  <2>3. CASE i > Len(r) - 1
    <3>1. i - (Len(r) - 1) = (i + 1) - Len(r)
      BY <1>1
    <3>2. QED  BY <1>1, <1>2, <1>4, <1>5, <2>1, <2>3, <3>1
  <2>4. QED  BY <1>1, <2>2, <2>3
<1>7. Tail(r \o h) = Tail(r) \o h
  <2>1. Len(Tail(r \o h)) = Len(Tail(r) \o h)
    BY <1>1, <1>4, <1>5
  <2>2. QED  BY <1>4, <1>5, <1>6, <2>1, SeqEqual
<1>8. (r \o h)[1] = r[1]
    BY <1>1, <1>2
<1>9. QED  BY <1>2, <1>3, <1>7, <1>8

LEMMA PostedLast ==
    ASSUME NEW S, NEW r \in Seq(S), NEW h \in Seq(S), NEW e \in S
    PROVE  r \o Append(h, e) = Append(r \o h, e)
<1>1. <<e>> \in Seq(S)
    OBVIOUS
<1>2. Append(h, e) = h \o <<e>> /\ r \o h \in Seq(S)
    BY AppendIsConcat, ConcatProperties
<1>3. Append(r \o h, e) = (r \o h) \o <<e>>
    BY <1>2, AppendIsConcat
<1>4. (r \o h) \o <<e>> = r \o (h \o <<e>>)
    BY <1>1, ConcatAssociative
<1>5. QED  BY <1>2, <1>3, <1>4

LEMMA MinOfTwo ==
    ASSUME NEW a \in Nat, NEW b \in Nat
    PROVE  Min({a, b}) = IF a <= b THEN a ELSE b
<1> DEFINE m == IF a <= b THEN a ELSE b
<1>1. m \in {a, b} /\ \A y \in {a, b} : m =< y
    OBVIOUS
<1>2. ASSUME NEW x \in {a, b}, \A y \in {a, b} : x =< y PROVE x = m
    BY <1>2
<1>3. QED  BY <1>1, <1>2 DEF Min

(***************************************************************************)
(* The types of the records.                                               *)
(***************************************************************************)
BusSet(n) ==
    [trb : {"none", "setup", "data", "status"},
     stage : {"none", "data", "status", "asked"},
     out : BOOLEAN, in : Seq(0 .. n), outs : 0 .. MaxOuts,
     host : {"default", "configured", "gone"},
     want : {"default", "configured", "gone"}]

Ep0Set ==
    [state : {"setup", "data", "wait", "status"}, armed : BOOLEAN,
     config : BOOLEAN, pending : 0 .. 1, value : 0 .. 1, configured : BOOLEAN]

SessionSet ==
    [entered : BOOLEAN, failed : BOOLEAN, eps : BOOLEAN,
     phase : {"idle", "out1", "in1", "out2", "in2", "done"},
     bridge : BOOLEAN, ready : BOOLEAN]

(* What the controller, the queue of events and the event worker write.     *)
BusTypes == bus \in BusSet(accepted) /\ Len(bus.in) <= PacketSize

QueueTypes ==
    /\ hw \in Seq(Events) /\ Len(hw) <= HwEvents
    /\ ring \in Seq(Events) /\ Len(ring) < EventRingSize

DriverTypes == ep0 \in Ep0Set /\ t1z \in SessionSet /\ fails \in 0 .. env.fails

(* The rest: the host's moves, the calls, the locks and the transmitter.    *)
RestTypes ==
    /\ env \in Envs /\ moves \in 0 .. Len(env.moves)
    /\ evPend \in BOOLEAN /\ txPend \in BOOLEAN
    /\ owner \in Threads \cup {None} /\ round \in 0 .. Rounds - 1
    /\ tx \in Seq(1 .. accepted) /\ Len(tx) < TxRingSize
    /\ accepted \in 0 .. env.bytes /\ last \in 0 .. accepted
    /\ busy \in BOOLEAN /\ orphaned \in BOOLEAN
    /\ tmp \in [Threads -> Seq(1 .. accepted)]
    /\ \A t \in Threads : Len(tmp[t]) <= PacketSize
    /\ writer \in {"idle", "early", "ready", "retry"}
    /\ pc \in [Threads -> {"idle", "drain", "unlock", "pumpTx", "tx", "txArm"}]

LEMMA TypeParts == TypeOK <=> BusTypes /\ QueueTypes /\ DriverTypes /\ RestTypes
BY DEF TypeOK, BusTypes, QueueTypes, DriverTypes, RestTypes, BusSet, Ep0Set, SessionSet

LEMMA TypePartsNext == TypeOK' <=> BusTypes' /\ QueueTypes' /\ DriverTypes' /\ RestTypes'
BY DEF TypeOK, BusTypes, QueueTypes, DriverTypes, RestTypes, BusSet, Ep0Set, SessionSet

(* The bounds of the environment.                                           *)
LEMMA EnvTypes ==
    ASSUME RestTypes
    PROVE  /\ env.bytes \in Nat /\ env.fails \in Nat /\ Len(env.moves) \in Nat
           /\ accepted \in Nat /\ PacketSize \in Nat \ {0} /\ HwEvents \in Nat \ {0}
           /\ EventRingSize \in Nat \ {0, 1} /\ TxRingSize \in Nat \ {0, 1}
           /\ Rounds \in Nat \ {0} /\ MaxOuts \in Nat
<1>1. env \in Envs
    BY DEF RestTypes
<1>2. env.moves \in Seq(SUBSET Moves) /\ env.bytes \in Nat /\ env.fails \in Nat
    BY <1>1, UsbAssumption
<1>3. Len(env.moves) \in Nat
    BY <1>2, LenProperties
<1>4. accepted \in Nat
    BY <1>2 DEF RestTypes
<1>5. QED  BY <1>2, <1>3, <1>4, UsbAssumption

(***************************************************************************)
(* The queue of events. Waiting grows at one end, shrinks at the other and  *)
(* does not change when events are copied.                                  *)
(***************************************************************************)
LEMMA WaitingTypes == ASSUME QueueTypes PROVE Waiting \in Seq(Events)
BY ConcatProperties DEF QueueTypes, Waiting

LEMMA PostWaiting ==
    ASSUME QueueTypes, NEW e \in Events, Len(hw) < HwEvents, HwEvents \in Nat,
           hw' = Append(hw, e), ring' = ring
    PROVE  QueueTypes' /\ Waiting' = Append(Waiting, e)
<1>1. Append(hw, e) \in Seq(Events) /\ Len(Append(hw, e)) = Len(hw) + 1 /\ Len(hw) \in Nat
    BY AppendProperties, LenProperties DEF QueueTypes
<1>2. ring \o Append(hw, e) = Append(ring \o hw, e)
    BY PostedLast DEF QueueTypes
<1>3. QueueTypes'
    BY <1>1 DEF QueueTypes
<1>4. QED  BY <1>2, <1>3 DEF Waiting

LEMMA DrainWaiting ==
    ASSUME QueueTypes, EventRingSize \in Nat, HwEvents \in Nat, Drain
    PROVE  QueueTypes' /\ Waiting' = Waiting /\ (evPend \in BOOLEAN => evPend' \in BOOLEAN)
<1> DEFINE room == EventRingSize - 1 - Len(ring)
           n == Min({Len(hw), room})
<1>1. Len(hw) \in Nat /\ Len(ring) \in Nat /\ room \in Nat
    BY LenProperties DEF QueueTypes
<1>2. n = IF Len(hw) <= room THEN Len(hw) ELSE room
    BY <1>1, MinOfTwo
<1>3. n \in 0 .. Len(hw) /\ n <= room
    BY <1>1, <1>2
<1>4. /\ ring' = ring \o SubSeq(hw, 1, n) /\ hw' = SubSeq(hw, n + 1, Len(hw))
      /\ evPend' = (evPend \/ n > 0)
    BY DEF Drain, NotCopied
<1> HIDE DEF n
<1>5. /\ (ring \o SubSeq(hw, 1, n)) \o SubSeq(hw, n + 1, Len(hw)) = ring \o hw
      /\ ring \o SubSeq(hw, 1, n) \in Seq(Events)
      /\ Len(ring \o SubSeq(hw, 1, n)) = Len(ring) + n
    BY <1>3, MoveEvents DEF QueueTypes
<1>6. SubSeq(hw, n + 1, Len(hw)) \in Seq(Events) /\ Len(SubSeq(hw, n + 1, Len(hw))) = Len(hw) - n
    BY <1>3, SplitSeq DEF QueueTypes
<1>7. QueueTypes'
    BY <1>1, <1>3, <1>4, <1>5, <1>6 DEF QueueTypes
<1>8. QED  BY <1>4, <1>5, <1>7 DEF Waiting

LEMMA TakeWaiting ==
    ASSUME QueueTypes, ring # <<>>, ring' = Tail(ring), hw' = hw
    PROVE  /\ QueueTypes' /\ Waiting # <<>> /\ Head(ring) \in Events
           /\ Head(Waiting) = Head(ring) /\ Waiting' = Tail(Waiting)
<1>1. Tail(ring) \in Seq(Events) /\ Len(Tail(ring)) = Len(ring) - 1 /\ Head(ring) \in Events
      /\ Len(ring) \in Nat
    BY HeadTailProperties, LenProperties DEF QueueTypes
<1>2. /\ ring \o hw # <<>> /\ Head(ring \o hw) = Head(ring)
      /\ Tail(ring \o hw) = Tail(ring) \o hw
    BY TakeEvent DEF QueueTypes
<1>3. QueueTypes'
  <2>1. Len(Tail(ring)) < EventRingSize
    BY <1>1, UsbAssumption DEF QueueTypes
  <2>2. QED  BY <1>1, <2>1 DEF QueueTypes
<1>4. QED  BY <1>1, <1>2, <1>3 DEF Waiting

(***************************************************************************)
(* What the helpers of endpoint zero leave of the bus: a setup stage armed   *)
(* again unless a command fails, and the bulk transfers as they were.       *)
(***************************************************************************)
LEMMA RearmEffect ==
    ASSUME NEW m, NEW e \in Ep0Set, NEW b \in BusSet(m), NEW n \in Nat, NEW tries \in {1, 2},
           fails \in Nat, env.fails \in Nat, Rearm(e, b, n, tries)
    PROVE  /\ ep0' \in Ep0Set /\ bus' \in BusSet(m)
           /\ bus'.in = b.in /\ bus'.out = b.out
           /\ fails' \in fails + n .. env.fails
           /\ fails' = 0 => ep0'.state = "setup" /\ ep0'.armed /\ bus'.trb = "setup"
<1>1. PICK k \in 0 .. tries :
        /\ fails + (n + k) <= env.fails /\ fails' = fails + (n + k)
        /\ LET idle == [e EXCEPT !.config = FALSE, !.armed = FALSE]
               clear == [b EXCEPT !.trb = "none", !.stage = "none"]
           IN  IF k < tries
               THEN ep0' = SetupArmed(idle) /\ bus' = [clear EXCEPT !.trb = "setup"]
               ELSE ep0' = idle /\ bus' = clear
    BY DEF Rearm, Failing
<1>2. k \in Nat /\ tries \in Nat \ {0} /\ fails' \in fails + n .. env.fails
    BY <1>1
<1>3. CASE k < tries
  <2>1. ep0' = [e EXCEPT !.config = FALSE, !.armed = TRUE, !.state = "setup"]
    BY <1>1, <1>3 DEF SetupArmed, Ep0Set
  <2>2. bus' = [b EXCEPT !.trb = "setup", !.stage = "none"]
    BY <1>1, <1>3 DEF BusSet
  <2>3. QED  BY <1>2, <2>1, <2>2 DEF Ep0Set, BusSet
<1>4. CASE k = tries
  <2>1. /\ ep0' = [e EXCEPT !.config = FALSE, !.armed = FALSE]
        /\ bus' = [b EXCEPT !.trb = "none", !.stage = "none"] /\ fails' # 0
    BY <1>1, <1>2, <1>4
  <2>2. QED  BY <1>2, <2>1 DEF Ep0Set, BusSet
<1>5. QED  BY <1>2, <1>3, <1>4

LEMMA QueueStatusEffect ==
    ASSUME NEW m, NEW e \in Ep0Set, bus \in BusSet(m), NEW n \in Nat,
           fails \in Nat, env.fails \in Nat, QueueStatus(e, n)
    PROVE  /\ ep0' \in Ep0Set /\ bus' \in BusSet(m)
           /\ bus'.in = bus.in /\ bus'.out = bus.out
           /\ fails' \in fails + n .. env.fails
           /\ ep0'.state \in {"status", "wait"}
<1>1. CASE /\ Failing(n)
           /\ ep0' = [e EXCEPT !.state = "status"]
           /\ bus' = [bus EXCEPT !.trb = "status"]
  <2>1. fails' \in fails + n .. env.fails
    BY <1>1 DEF Failing
  <2>2. ep0' \in Ep0Set /\ ep0'.state = "status"
    BY <1>1 DEF Ep0Set
  <2>3. bus' \in BusSet(m) /\ bus'.in = bus.in /\ bus'.out = bus.out
    BY <1>1 DEF BusSet
  <2>4. QED  BY <2>1, <2>2, <2>3
<1>2. CASE /\ Failing(n + 1)
           /\ ep0' = [e EXCEPT !.state = "wait"]
           /\ UNCHANGED bus
  <2>1. fails' \in fails + n .. env.fails
    BY <1>2 DEF Failing
  <2>2. ep0' \in Ep0Set /\ ep0'.state = "wait"
    BY <1>2 DEF Ep0Set
  <2>3. bus' \in BusSet(m) /\ bus'.in = bus.in /\ bus'.out = bus.out
    BY <1>2
  <2>4. QED  BY <2>1, <2>2, <2>3
<1>3. QED  BY <1>1, <1>2 DEF QueueStatus

(* What a request does to the bulk session.                                 *)
SessionStep(e) ==
    \/ t1z' = t1z
    \/ t1z' = [t1z EXCEPT !.ready = FALSE]
    \/ e = "cfg0" /\ ep0.state = "setup" /\ t1z' = [t1z EXCEPT !.ready = FALSE, !.eps = FALSE]
    \/ ~t1z.entered /\ \E w \in WorkerOutcomes : t1z' = xzs_t1z_worker(w)

(* What an event of endpoint zero leaves.                                   *)
Ep0Effect(e) ==
    /\ ep0' \in Ep0Set /\ t1z' \in SessionSet /\ bus' \in BusSet(accepted)
    /\ bus'.in = bus.in /\ (bus.out => bus'.out)
    /\ fails' \in fails .. env.fails
    /\ fails' = 0 /\ ep0'.state = "setup" =>
        \/ ep0'.armed /\ bus'.trb = "setup"
        \/ ep0' = ep0 /\ bus' = bus /\ e \notin Requests
    /\ SessionStep(e)

LEMMA WorkerTypes ==
    ASSUME t1z \in SessionSet, NEW w \in WorkerOutcomes
    PROVE  /\ xzs_t1z_worker(w) \in SessionSet /\ w[4] \in BOOLEAN /\ w[1] \in BOOLEAN
           /\ xzs_t1z_worker(w).entered /\ ~xzs_t1z_worker(w).ready
           /\ xzs_t1z_worker(w).bridge = t1z.bridge
           /\ xzs_t1z_worker(w).phase = t1z.phase \/ xzs_t1z_worker(w).phase = "out1"
<1>1. /\ w[1] \in BOOLEAN /\ w[2] \in BOOLEAN /\ w[3] \in {"out1", "idle"} /\ w[4] \in BOOLEAN
  <2>1. CASE w = <<FALSE, TRUE, "out1", TRUE>>
    BY <2>1
  <2>2. CASE w = <<TRUE, FALSE, "idle", FALSE>>
    BY <2>2
  <2>3. CASE w = <<TRUE, TRUE, "idle", FALSE>>
    BY <2>3
  <2>4. CASE w = <<TRUE, TRUE, "out1", FALSE>>
    BY <2>4
  <2>5. QED  BY <2>1, <2>2, <2>3, <2>4 DEF WorkerOutcomes
<1>2. QED  BY <1>1 DEF xzs_t1z_worker, SessionSet

LEMMA SetConfigurationEffect ==
    ASSUME NEW v \in 0 .. 1, NEW s \in SessionSet, NEW m, NEW b \in BusSet(m), NEW n \in Nat,
           ep0 \in Ep0Set, fails \in Nat, env.fails \in Nat, SetConfiguration(v, s, b, n)
    PROVE  /\ ep0' \in Ep0Set /\ t1z' = s /\ bus' \in BusSet(m)
           /\ bus'.in = b.in /\ bus'.out = b.out
           /\ fails' \in fails + n .. env.fails
           /\ fails' = 0 /\ ep0'.state = "setup" => ep0'.armed /\ bus'.trb = "setup"
<1> DEFINE e == [ep0 EXCEPT !.armed = FALSE, !.pending = v]
<1>1. e \in Ep0Set
    BY DEF Ep0Set
<1>2. t1z' = s
    BY DEF SetConfiguration
<1>3. CASE v = 1 /\ (s.failed \/ ~s.eps)
  <2>1. Rearm(e, b, n, 1)
    BY <1>3 DEF SetConfiguration, xzs_t1y_stall_and_restart
  <2>2. QED  BY <1>1, <1>2, <2>1, RearmEffect
<1>4. CASE ~(v = 1 /\ (s.failed \/ ~s.eps))
  <2>1. Failing(n) /\ ep0' = [e EXCEPT !.state = "wait", !.config = TRUE] /\ bus' = b
    BY <1>4 DEF SetConfiguration
  <2>2. fails' \in fails + n .. env.fails
    BY <2>1 DEF Failing
  <2>3. ep0' \in Ep0Set /\ ep0'.state = "wait"
    BY <1>1, <2>1 DEF Ep0Set
  <2>4. QED  BY <1>2, <2>1, <2>2, <2>3
<1>5. QED  BY <1>3, <1>4
LEMMA HandleSetupEffect ==
    ASSUME BusTypes, DriverTypes, env.fails \in Nat, NEW r \in Requests,
           ep0.state = "setup", xzs_t1y_handle_setup(r)
    PROVE  Ep0Effect(r)
<1> DEFINE e == [ep0 EXCEPT !.armed = FALSE]
           data == [e EXCEPT !.state = "data", !.config = FALSE]
<1>1. /\ bus \in BusSet(accepted) /\ ep0 \in Ep0Set /\ t1z \in SessionSet /\ fails \in Nat
      /\ fails <= env.fails /\ 0 \in Nat /\ 1 \in Nat /\ 1 \in {1, 2}
    BY DEF BusTypes, DriverTypes
<1>2. e \in Ep0Set /\ data \in Ep0Set
    BY <1>1 DEF Ep0Set
<1>3. CASE /\ r = "desc" /\ UNCHANGED t1z
           /\ Failing(0) /\ ep0' = data /\ bus' = [bus EXCEPT !.trb = "data"]
  <2>1. ep0' \in Ep0Set /\ ep0'.state = "data"
    BY <1>1, <1>2, <1>3 DEF Ep0Set
  <2>2. bus' \in BusSet(accepted) /\ bus'.in = bus.in /\ bus'.out = bus.out
    BY <1>1, <1>3 DEF BusSet
  <2>3. fails' \in fails .. env.fails
    BY <1>1, <1>3 DEF Failing
  <2>4. QED  BY <1>1, <1>3, <2>1, <2>2, <2>3 DEF Ep0Effect, SessionStep
<1>4. CASE UNCHANGED t1z /\ Rearm(data, bus, 1, 1)
  <2>1. /\ ep0' \in Ep0Set /\ bus' \in BusSet(accepted)
        /\ bus'.in = bus.in /\ bus'.out = bus.out /\ fails' \in fails + 1 .. env.fails
        /\ fails' = 0 => ep0'.state = "setup" /\ ep0'.armed /\ bus'.trb = "setup"
    BY <1>1, <1>2, <1>4, RearmEffect
  <2>2. fails' \in fails .. env.fails
    BY <1>1, <2>1
  <2>3. QED  BY <1>1, <1>4, <2>1, <2>2 DEF Ep0Effect, SessionStep
<1>5. CASE UNCHANGED <<t1z, bus, fails>> /\ ep0' = [e EXCEPT !.state = "wait", !.config = FALSE]
  <2>1. ep0' \in Ep0Set /\ ep0'.state = "wait"
    BY <1>2, <1>5 DEF Ep0Set
  <2>2. fails' \in fails .. env.fails
    BY <1>1, <1>5
  <2>3. QED  BY <1>1, <1>5, <2>1, <2>2 DEF Ep0Effect, SessionStep
<1>6. CASE UNCHANGED t1z /\ Rearm(e, bus, 0, 1)
  <2>1. /\ ep0' \in Ep0Set /\ bus' \in BusSet(accepted)
        /\ bus'.in = bus.in /\ bus'.out = bus.out /\ fails' \in fails + 0 .. env.fails
        /\ fails' = 0 => ep0'.state = "setup" /\ ep0'.armed /\ bus'.trb = "setup"
    BY <1>1, <1>2, <1>6, RearmEffect
  <2>2. fails' \in fails .. env.fails
    BY <1>1, <2>1
  <2>3. QED  BY <1>1, <1>6, <2>1, <2>2 DEF Ep0Effect, SessionStep
<1>7. CASE /\ r = "cfg0"
           /\ SetConfiguration(0, [t1z EXCEPT !.ready = FALSE, !.eps = FALSE], bus, 0)
  <2> DEFINE s == [t1z EXCEPT !.ready = FALSE, !.eps = FALSE]
  <2>0. t1z \in SessionSet /\ 0 \in 0 .. 1
    BY <1>1
  <2>1. s \in SessionSet
    BY <2>0 DEF SessionSet
  <2>2. /\ ep0' \in Ep0Set /\ t1z' = s /\ bus' \in BusSet(accepted)
        /\ bus'.in = bus.in /\ bus'.out = bus.out /\ fails' \in fails + 0 .. env.fails
        /\ fails' = 0 /\ ep0'.state = "setup" => ep0'.armed /\ bus'.trb = "setup"
    BY <1>1, <1>7, <2>0, <2>1, SetConfigurationEffect
  <2>3. fails' \in fails .. env.fails
    BY <1>1, <2>2
  <2>4. QED  BY <1>1, <1>7, <2>1, <2>2, <2>3 DEF Ep0Effect, SessionStep
<1>8. CASE r = "cfg1" /\ SetConfiguration(1, [t1z EXCEPT !.ready = FALSE], bus, 0)
  <2> DEFINE s == [t1z EXCEPT !.ready = FALSE]
  <2>0. t1z \in SessionSet /\ 1 \in 0 .. 1
    BY <1>1
  <2>1. s \in SessionSet
    BY <2>0 DEF SessionSet
  <2>2. /\ ep0' \in Ep0Set /\ t1z' = s /\ bus' \in BusSet(accepted)
        /\ bus'.in = bus.in /\ bus'.out = bus.out /\ fails' \in fails + 0 .. env.fails
        /\ fails' = 0 /\ ep0'.state = "setup" => ep0'.armed /\ bus'.trb = "setup"
    BY <1>1, <1>8, <2>0, <2>1, SetConfigurationEffect
  <2>3. fails' \in fails .. env.fails
    BY <1>1, <2>2
  <2>4. QED  BY <1>1, <1>8, <2>1, <2>2, <2>3 DEF Ep0Effect, SessionStep
<1>9. ASSUME ~t1z.entered, NEW w \in WorkerOutcomes,
             SetConfiguration(1, xzs_t1z_worker(w), [bus EXCEPT !.out = @ \/ w[4]],
                              IF w[1] THEN 1 ELSE 0)
      PROVE  Ep0Effect(r)
  <2> DEFINE b == [bus EXCEPT !.out = @ \/ w[4]]
             n == IF w[1] THEN 1 ELSE 0
  <2>1. xzs_t1z_worker(w) \in SessionSet /\ w[4] \in BOOLEAN /\ 1 \in 0 .. 1 /\ n \in Nat
    BY <1>1, WorkerTypes
  <2>2. b \in BusSet(accepted) /\ b.in = bus.in /\ (bus.out => b.out)
    BY <1>1, <2>1 DEF BusSet
  <2>0. SetConfiguration(1, xzs_t1z_worker(w), b, n)
    BY <1>9
  <2> HIDE DEF b, n
  <2>3. /\ ep0' \in Ep0Set /\ t1z' = xzs_t1z_worker(w) /\ bus' \in BusSet(accepted)
        /\ bus'.in = b.in /\ bus'.out = b.out /\ fails' \in fails + n .. env.fails
        /\ fails' = 0 /\ ep0'.state = "setup" => ep0'.armed /\ bus'.trb = "setup"
    BY <1>1, <2>0, <2>1, <2>2, SetConfigurationEffect
  <2>4. fails' \in fails .. env.fails
    BY <1>1, <2>1, <2>3
  <2>5. QED  BY <1>9, <2>1, <2>2, <2>3, <2>4 DEF Ep0Effect, SessionStep
<1>10. CASE ~t1z.entered /\ SetConfiguration(1, xzs_t1z_worker(Refused), bus, 0)
  <2>1. Refused \in WorkerOutcomes
    BY DEF Refused, WorkerOutcomes
  <2> DEFINE s == xzs_t1z_worker(Refused)
  <2>2. s \in SessionSet /\ 1 \in 0 .. 1
    BY <1>1, <2>1, WorkerTypes
  <2> HIDE DEF s
  <2>3. /\ ep0' \in Ep0Set /\ t1z' = s /\ bus' \in BusSet(accepted)
        /\ bus'.in = bus.in /\ bus'.out = bus.out /\ fails' \in fails + 0 .. env.fails
        /\ fails' = 0 /\ ep0'.state = "setup" => ep0'.armed /\ bus'.trb = "setup"
    BY <1>1, <1>10, <2>2, SetConfigurationEffect DEF s
  <2>4. fails' \in fails .. env.fails
    BY <1>1, <2>3
  <2>5. SessionStep(r)
    BY <1>10, <2>1, <2>3 DEF SessionStep, s
  <2>6. QED  BY <2>2, <2>3, <2>4, <2>5 DEF Ep0Effect
<1>11. QED
    BY <1>3, <1>4, <1>5, <1>6, <1>7, <1>8, <1>9, <1>10 DEF xzs_t1y_handle_setup,
       xzs_t1y_stall_and_restart

LEMMA Ep0EventEffect ==
    ASSUME BusTypes, DriverTypes, env.fails \in Nat, NEW e, Ep0Event(e)
    PROVE  /\ Ep0Effect(e) /\ busy' = busy /\ txPend' = txPend
           /\ orphaned' = (orphaned \/ (e = "cfg0" /\ ep0.state = "setup" /\ busy))
           /\ e \in Requests \cup {"dataDone", "statusDone", "notReady"}
<1>1. /\ bus \in BusSet(accepted) /\ ep0 \in Ep0Set /\ t1z \in SessionSet /\ fails \in Nat
      /\ fails <= env.fails /\ 0 \in Nat /\ 1 \in Nat /\ 1 \in {1, 2} /\ 2 \in {1, 2}
    BY DEF BusTypes, DriverTypes
<1>2. /\ busy' = busy /\ txPend' = txPend
      /\ orphaned' = (orphaned \/ (e = "cfg0" /\ ep0.state = "setup" /\ busy))
    BY DEF Ep0Event
<1>3. CASE e \in Requests /\ ep0.state = "setup" /\ xzs_t1y_handle_setup(e)
    BY <1>2, <1>3, HandleSetupEffect
<1>4. CASE e = "dataDone" /\ ep0.state = "data" /\ UNCHANGED t1z /\ QueueStatus(ep0, 0)
  <2>1. /\ ep0' \in Ep0Set /\ bus' \in BusSet(accepted)
        /\ bus'.in = bus.in /\ bus'.out = bus.out /\ fails' \in fails + 0 .. env.fails
        /\ ep0'.state \in {"status", "wait"}
    BY <1>1, <1>4, QueueStatusEffect
  <2>2. fails' \in fails .. env.fails
    BY <1>1, <2>1
  <2>3. QED  BY <1>1, <1>2, <1>4, <2>1, <2>2 DEF Ep0Effect, SessionStep
<1>5. CASE /\ e \in Requests \cup {"dataDone", "statusDone"}
           /\ xzs_t1y_finish_control_transfer /\ UNCHANGED t1z
  <2> DEFINE f == IF ep0.config
                  THEN [ep0 EXCEPT !.value = ep0.pending,
                                   !.configured = (ep0.pending = 1 /\ t1z.eps)]
                  ELSE ep0
  <2>1. f \in Ep0Set
    BY <1>1 DEF Ep0Set, SessionSet
  <2> HIDE DEF f
  <2>2. /\ ep0' \in Ep0Set /\ bus' \in BusSet(accepted)
        /\ bus'.in = bus.in /\ bus'.out = bus.out /\ fails' \in fails + 0 .. env.fails
        /\ fails' = 0 => ep0'.state = "setup" /\ ep0'.armed /\ bus'.trb = "setup"
    BY <1>1, <1>5, <2>1, RearmEffect DEF f, xzs_t1y_finish_control_transfer
  <2>3. fails' \in fails .. env.fails
    BY <1>1, <2>2
  <2>4. QED  BY <1>1, <1>2, <1>5, <2>2, <2>3 DEF Ep0Effect, SessionStep
<1>6. CASE /\ e = "notReady" /\ UNCHANGED t1z
           /\ Failing(0) /\ ep0' = [ep0 EXCEPT !.state = "status"]
           /\ bus' = [bus EXCEPT !.trb = "status"]
  <2>1. ep0' \in Ep0Set /\ ep0'.state = "status"
    BY <1>1, <1>6 DEF Ep0Set
  <2>2. bus' \in BusSet(accepted) /\ bus'.in = bus.in /\ bus'.out = bus.out
    BY <1>1, <1>6 DEF BusSet
  <2>3. fails' \in fails .. env.fails
    BY <1>1, <1>6 DEF Failing
  <2>4. QED  BY <1>1, <1>2, <1>6, <2>1, <2>2, <2>3 DEF Ep0Effect, SessionStep
<1>7. CASE /\ e = "notReady" /\ UNCHANGED t1z
           /\ Rearm([ep0 EXCEPT !.state = "wait"], bus, 1, 1)
  <2>1. [ep0 EXCEPT !.state = "wait"] \in Ep0Set
    BY <1>1 DEF Ep0Set
  <2>2. /\ ep0' \in Ep0Set /\ bus' \in BusSet(accepted)
        /\ bus'.in = bus.in /\ bus'.out = bus.out /\ fails' \in fails + 1 .. env.fails
        /\ fails' = 0 => ep0'.state = "setup" /\ ep0'.armed /\ bus'.trb = "setup"
    BY <1>1, <1>7, <2>1, RearmEffect
  <2>3. fails' \in fails .. env.fails
    BY <1>1, <2>2
  <2>4. QED  BY <1>1, <1>2, <1>7, <2>2, <2>3 DEF Ep0Effect, SessionStep
<1>8. CASE /\ \/ e \in Requests /\ ep0.state \in {"data", "wait"}
              \/ e = "dataDone" /\ ep0.state \in {"setup", "wait"}
              \/ e = "statusDone" /\ ep0.state # "status"
              \/ e = "notReady" /\ ep0.state \in {"setup", "status"}
           /\ UNCHANGED <<ep0, t1z, bus, fails>>
  <2>1. ep0' = ep0 /\ t1z' = t1z /\ bus' = bus /\ fails' \in fails .. env.fails
    BY <1>1, <1>8
  <2>2. /\ e \in Requests \cup {"dataDone", "statusDone", "notReady"}
        /\ ep0'.state = "setup" => e \notin Requests
    BY <1>1, <1>8, <2>1 DEF Requests
  <2>3. QED  BY <1>1, <1>2, <2>1, <2>2 DEF Ep0Effect, SessionStep
<1>9. QED
    BY <1>3, <1>4, <1>5, <1>6, <1>7, <1>8 DEF Ep0Event, xzs_t1y_stall_and_restart
(***************************************************************************)
(* The bulk endpoints: a transfer is added, nothing else of the bus changes. *)
(***************************************************************************)
LEMMA ArmOutEffect ==
    ASSUME NEW m, bus \in BusSet(m), fails \in Nat, env.fails \in Nat, NEW ok \in BOOLEAN,
           ArmOut(ok)
    PROVE  /\ bus' \in BusSet(m) /\ bus'.in = bus.in /\ bus'.trb = bus.trb
           /\ bus'.out = (bus.out \/ ok)
           /\ fails' \in fails .. env.fails /\ (fails' = 0 => ok)
<1>1. bus' = [bus EXCEPT !.out = @ \/ ok] /\ Failing(IF ok THEN 0 ELSE 1)
    BY DEF ArmOut
<1>2. bus' \in BusSet(m) /\ bus'.in = bus.in /\ bus'.trb = bus.trb /\ bus'.out = (bus.out \/ ok)
    BY <1>1 DEF BusSet
<1>3. CASE ok
  <2>1. fails' \in fails .. env.fails
    BY <1>1, <1>3 DEF Failing
  <2>2. QED  BY <1>2, <1>3, <2>1
<1>4. CASE ~ok
  <2>1. fails' \in fails .. env.fails /\ fails' # 0
    BY <1>1, <1>4 DEF Failing
  <2>2. QED  BY <1>2, <2>1
<1>5. QED  BY <1>3, <1>4

LEMMA ArmInEffect ==
    ASSUME NEW m, bus \in BusSet(m), fails \in Nat, env.fails \in Nat, fails <= env.fails,
           NEW ok \in BOOLEAN, NEW data \in Seq(0 .. m), ArmIn(data, ok)
    PROVE  /\ bus' \in BusSet(m) /\ bus'.trb = bus.trb /\ bus'.out = bus.out
           /\ ok => bus.in = <<>>
           /\ bus'.in = IF data # <<>> /\ (ok \/ bus.in # <<>>) THEN data ELSE bus.in
           /\ fails' \in fails .. env.fails
<1>1. /\ bus' = [bus EXCEPT !.in = IF data # <<>> /\ (ok \/ @ # <<>>) THEN data ELSE @]
      /\ Failing(IF ok \/ data = <<>> \/ bus.in # <<>> THEN 0 ELSE 1)
      /\ ok => bus.in = <<>>
    BY DEF ArmIn
<1>2. /\ bus' \in BusSet(m) /\ bus'.trb = bus.trb /\ bus'.out = bus.out
      /\ bus'.in = IF data # <<>> /\ (ok \/ bus.in # <<>>) THEN data ELSE bus.in
    BY <1>1 DEF BusSet
<1>3. fails' \in fails .. env.fails
    BY <1>1 DEF Failing
<1>4. QED  BY <1>1, <1>2, <1>3

(***************************************************************************)
(* The steps of a bulk completion, each with its whole effect.               *)
(***************************************************************************)
OutTaken(e) ==
    /\ e \in {"outDone", "sample", "empty"} /\ t1z.eps /\ UNCHANGED <<t1z, busy, txPend>>
    /\ bus'.in = bus.in /\ bus.trb = bus'.trb /\ (bus.out \/ fails' = 0 => bus'.out)

OutAnswered(e) ==
    /\ e \in {"outDone", "empty"} /\ t1z.eps
    /\ t1z.phase \in {"out1", "out2"} /\ UNCHANGED <<busy, txPend>>
    /\ t1z'.phase = IF t1z.phase = "out1" THEN "in1" ELSE "in2"
    /\ t1z'.entered = t1z.entered /\ t1z'.bridge = t1z.bridge /\ t1z'.eps = t1z.eps
    /\ bus'.trb = bus.trb /\ bus'.out = bus.out /\ bus'.in \in {bus.in, <<Payload>>}

SessionFails(e) ==
    /\ e \in {"outDone", "empty", "inDone"} /\ t1z.eps
    /\ UNCHANGED <<bus, fails, busy, txPend>>
    /\ e # "inDone" => t1z.phase # "done" \/ ~t1z.bridge
    /\ e = "inDone" /\ busy => t1z.phase # "done"
    /\ t1z.phase = t1z'.phase /\ t1z'.entered = t1z.entered
    /\ t1z'.bridge = t1z.bridge /\ t1z'.eps = t1z.eps

BulkIgnored(e) ==
    /\ e \in {"outDone", "sample", "empty", "inDone"} /\ ~t1z.eps
    /\ UNCHANGED <<t1z, bus, fails, busy, txPend>>

InSent(e) ==
    /\ e = "inDone" /\ t1z.eps /\ t1z.phase = "done" /\ busy
    /\ busy' = FALSE /\ txPend' = TRUE /\ UNCHANGED <<t1z, bus, fails>>

InAnswered(e) ==
    /\ e = "inDone" /\ t1z.eps /\ t1z.phase \in {"in1", "in2"} /\ busy' = busy
    /\ txPend' \in {txPend, TRUE}
    /\ t1z'.phase = IF t1z.phase = "in1" THEN "out2" ELSE "done"
    /\ t1z'.entered = t1z.entered /\ t1z'.eps = t1z.eps
    /\ \/ t1z'.bridge = t1z.bridge
       \/ t1z.phase = "in2" /\ (fails' = 0 => bus'.out)
    /\ bus'.trb = bus.trb /\ bus'.in = bus.in

BulkStep(e) ==
    \/ OutTaken(e) \/ OutAnswered(e) \/ SessionFails(e) \/ BulkIgnored(e)
    \/ InSent(e) \/ InAnswered(e)

LEMMA OutEffect ==
    ASSUME BusTypes, DriverTypes, RestTypes, UNCHANGED accepted, NEW e, t1z.eps,
           e \in {"outDone", "sample", "empty"},
           xzs_t1z_on_out_complete(e), UNCHANGED <<busy, txPend>>
    PROVE  BulkStep(e) /\ BusTypes' /\ t1z' \in SessionSet /\ fails' \in fails .. env.fails
<1>1. /\ bus \in BusSet(accepted) /\ t1z \in SessionSet /\ fails \in Nat
      /\ fails <= env.fails /\ env.fails \in Nat /\ accepted \in Nat /\ PacketSize \in Nat \ {0}
    BY EnvTypes DEF BusTypes, DriverTypes
<1>2. PICK ok \in BOOLEAN :
        \/ TakeInput(ok) /\ UNCHANGED t1z
        \/ /\ e # "sample" /\ t1z.phase \in {"out1", "out2"}
           /\ ArmIn(Answer(e), ok)
           /\ t1z' = [t1z EXCEPT !.phase = IF @ = "out1" THEN "in1" ELSE "in2",
                                 !.failed = @ \/ ~ok]
        \/ /\ e # "sample" /\ (t1z.phase # "done" \/ ~t1z.bridge)
           /\ t1z' = [t1z EXCEPT !.failed = TRUE] /\ UNCHANGED <<bus, fails>>
    BY <1>1 DEF xzs_t1z_on_out_complete
<1>3. BusTypes' = (bus' \in BusSet(accepted) /\ Len(bus'.in) <= PacketSize)
    BY DEF BusTypes, BusSet
<1>4. CASE TakeInput(ok) /\ UNCHANGED t1z
  <2>1. /\ bus' \in BusSet(accepted) /\ bus'.in = bus.in /\ bus'.trb = bus.trb
        /\ bus'.out = (bus.out \/ ok)
        /\ fails' \in fails .. env.fails /\ (fails' = 0 => ok)
    BY <1>1, <1>4, ArmOutEffect DEF TakeInput
  <2>2. OutTaken(e)
    BY <1>4, <2>1 DEF OutTaken
  <2>3. QED  BY <1>1, <1>3, <1>4, <2>1, <2>2 DEF BulkStep, BusTypes
<1>5. CASE /\ e # "sample" /\ t1z.phase \in {"out1", "out2"}
           /\ ArmIn(Answer(e), ok)
           /\ t1z' = [t1z EXCEPT !.phase = IF @ = "out1" THEN "in1" ELSE "in2",
                                 !.failed = @ \/ ~ok]
  <2>0. /\ <<Payload>> \in Seq(0 .. accepted) /\ Len(<<Payload>>) = 1
        /\ <<>> \in Seq(0 .. accepted)
    BY <1>1, EmptySeq DEF Payload
  <2>1. Answer(e) \in Seq(0 .. accepted) /\ Answer(e) \in {<<>>, <<Payload>>}
    BY <2>0 DEF Answer
  <2>2. /\ bus' \in BusSet(accepted) /\ bus'.trb = bus.trb /\ bus'.out = bus.out
        /\ bus'.in \in {bus.in, <<Payload>>}
        /\ fails' \in fails .. env.fails
    <3>1. /\ bus' \in BusSet(accepted) /\ bus'.trb = bus.trb /\ bus'.out = bus.out
          /\ bus'.in = IF Answer(e) # <<>> /\ (ok \/ bus.in # <<>>)
                       THEN Answer(e) ELSE bus.in
          /\ fails' \in fails .. env.fails
      BY <1>1, <1>5, <2>1, ArmInEffect
    <3>2. QED  BY <2>1, <3>1
  <2>3. /\ t1z' \in SessionSet /\ t1z'.phase = IF t1z.phase = "out1" THEN "in1" ELSE "in2"
        /\ t1z'.entered = t1z.entered /\ t1z'.bridge = t1z.bridge /\ t1z'.eps = t1z.eps
    BY <1>1, <1>5 DEF SessionSet
  <2>4. Len(bus'.in) <= PacketSize
    <3>1. Len(bus.in) <= PacketSize /\ Len(<<Payload>>) <= PacketSize
      BY <1>1, <2>0 DEF BusTypes
    <3>2. bus'.in = bus.in \/ bus'.in = <<Payload>>
      BY <2>2
    <3>3. QED  BY <3>1, <3>2
  <2>5. OutAnswered(e)
    BY <1>5, <2>2, <2>3 DEF OutAnswered
  <2>6. QED  BY <1>3, <2>2, <2>3, <2>4, <2>5 DEF BulkStep
<1>6. CASE /\ e # "sample" /\ (t1z.phase # "done" \/ ~t1z.bridge)
           /\ t1z' = [t1z EXCEPT !.failed = TRUE] /\ UNCHANGED <<bus, fails>>
  <2>1. /\ t1z' \in SessionSet /\ t1z'.phase = t1z.phase
        /\ t1z'.entered = t1z.entered /\ t1z'.bridge = t1z.bridge /\ t1z'.eps = t1z.eps
    BY <1>1, <1>6 DEF SessionSet
  <2>2. fails' \in fails .. env.fails
    BY <1>1, <1>6
  <2>3. SessionFails(e)
    BY <1>6, <2>1 DEF SessionFails
  <2>4. QED  BY <1>3, <1>6, <2>1, <2>2, <2>3 DEF BulkStep, BusTypes
<1>7. QED  BY <1>2, <1>4, <1>5, <1>6

LEMMA InEffect ==
    ASSUME BusTypes, DriverTypes, RestTypes, UNCHANGED accepted, NEW e, t1z.eps, e = "inDone",
           xzs_t1z_on_in_complete
    PROVE  BulkStep(e) /\ BusTypes' /\ t1z' \in SessionSet /\ fails' \in fails .. env.fails
<1>1. /\ bus \in BusSet(accepted) /\ t1z \in SessionSet /\ fails \in Nat
      /\ fails <= env.fails /\ env.fails \in Nat
    BY EnvTypes DEF BusTypes, DriverTypes
<1>2. BusTypes' = (bus' \in BusSet(accepted) /\ Len(bus'.in) <= PacketSize)
    BY DEF BusTypes, BusSet
<1>3. CASE /\ t1z.phase = "done" /\ busy
           /\ busy' = FALSE /\ txPend' = TRUE
           /\ UNCHANGED <<t1z, bus, fails>>
  <2>1. InSent(e) /\ fails' \in fails .. env.fails
    BY <1>1, <1>3 DEF InSent
  <2>2. QED  BY <1>1, <1>2, <1>3, <2>1 DEF BulkStep, BusTypes
<1>4. CASE /\ t1z.phase = "in1"
           /\ \E ok \in BOOLEAN : FirstAnswerSent(ok)
           /\ UNCHANGED <<busy, txPend>>
  <2>1. PICK ok \in BOOLEAN :
          ArmOut(ok) /\ t1z' = [t1z EXCEPT !.phase = "out2", !.failed = @ \/ ~ok]
    BY <1>4 DEF FirstAnswerSent
  <2>2. /\ bus' \in BusSet(accepted) /\ bus'.in = bus.in /\ bus'.trb = bus.trb
        /\ bus'.out = (bus.out \/ ok)
        /\ fails' \in fails .. env.fails /\ (fails' = 0 => ok)
    BY <1>1, <2>1, ArmOutEffect
  <2>3. /\ t1z' \in SessionSet /\ t1z'.phase = "out2"
        /\ t1z'.entered = t1z.entered /\ t1z'.bridge = t1z.bridge /\ t1z'.eps = t1z.eps
    BY <1>1, <2>1 DEF SessionSet
  <2>5. InAnswered(e)
    BY <1>4, <2>2, <2>3 DEF InAnswered
  <2>6. QED  BY <1>2, <2>2, <2>3, <2>5 DEF BulkStep, BusTypes
<1>5. CASE /\ t1z.phase = "in2" /\ UNCHANGED busy
           /\ \E ok \in BOOLEAN : ArmOut(ok)
           /\ t1z' = [t1z EXCEPT !.phase = "done", !.bridge = TRUE, !.ready = TRUE]
           /\ txPend' = TRUE
  <2>1. PICK ok \in BOOLEAN : ArmOut(ok)
    BY <1>5
  <2>2. /\ bus' \in BusSet(accepted) /\ bus'.in = bus.in /\ bus'.trb = bus.trb
        /\ bus'.out = (bus.out \/ ok)
        /\ fails' \in fails .. env.fails /\ (fails' = 0 => ok)
    BY <1>1, <2>1, ArmOutEffect
  <2>3. /\ t1z' \in SessionSet /\ t1z'.phase = "done" /\ t1z'.bridge = TRUE
        /\ t1z'.entered = t1z.entered /\ t1z'.eps = t1z.eps /\ txPend' = TRUE
    BY <1>1, <1>5 DEF SessionSet
  <2>5. InAnswered(e)
    BY <1>5, <2>2, <2>3 DEF InAnswered
  <2>6. QED  BY <1>2, <2>2, <2>3, <2>5 DEF BulkStep, BusTypes
<1>6. CASE /\ t1z.phase \in {"idle", "out1", "out2"} \/ (t1z.phase = "done" /\ ~busy)
           /\ t1z' = [t1z EXCEPT !.failed = TRUE]
           /\ UNCHANGED <<bus, fails, busy, txPend>>
  <2>1. /\ t1z' \in SessionSet /\ t1z'.phase = t1z.phase
        /\ t1z'.entered = t1z.entered /\ t1z'.bridge = t1z.bridge /\ t1z'.eps = t1z.eps
    BY <1>1, <1>6 DEF SessionSet
  <2>2. fails' \in fails .. env.fails
    BY <1>1, <1>6
  <2>3. SessionFails(e)
    BY <1>6, <2>1 DEF SessionFails
  <2>4. QED  BY <1>2, <1>6, <2>1, <2>2, <2>3 DEF BulkStep, BusTypes
<1>7. CASE /\ t1z.phase = "in2" /\ UNCHANGED <<bus, fails, busy, txPend>>
           /\ t1z' = [t1z EXCEPT !.phase = "done"]
  <2>1. /\ t1z' \in SessionSet /\ t1z'.phase = "done"
        /\ t1z'.entered = t1z.entered /\ t1z'.bridge = t1z.bridge /\ t1z'.eps = t1z.eps
    BY <1>1, <1>7 DEF SessionSet
  <2>2. fails' \in fails .. env.fails
    BY <1>1, <1>7
  <2>3. InAnswered(e)
    BY <1>7, <2>1 DEF InAnswered
  <2>4. QED  BY <1>2, <1>7, <2>1, <2>2, <2>3 DEF BulkStep, BusTypes
<1>8. QED
    BY <1>3, <1>4, <1>5, <1>6, <1>7 DEF xzs_t1z_on_in_complete, xzs_t1z_enable_bridge

LEMMA BulkEventEffect ==
    ASSUME BusTypes, DriverTypes, RestTypes, UNCHANGED accepted, NEW e, BulkEvent(e)
    PROVE  /\ BulkStep(e) /\ BusTypes' /\ t1z' \in SessionSet /\ fails' \in fails .. env.fails
           /\ UNCHANGED <<ep0, orphaned>> /\ e \in {"outDone", "sample", "empty", "inDone"}
<1>1. CASE /\ ~t1z.eps /\ e \in {"outDone", "sample", "empty", "inDone"}
           /\ UNCHANGED <<t1z, bus, fails, busy, txPend>>
  <2>1. BulkIgnored(e)
    BY <1>1 DEF BulkIgnored
  <2>2. BusTypes' /\ t1z' \in SessionSet /\ fails' \in fails .. env.fails
    BY <1>1, EnvTypes DEF BusTypes, BusSet, DriverTypes
  <2>3. QED  BY <1>1, <2>1, <2>2 DEF BulkStep, BulkEvent
<1>2. CASE /\ t1z.eps /\ e \in {"outDone", "sample", "empty"} /\ xzs_t1z_on_out_complete(e)
           /\ UNCHANGED <<busy, txPend>>
    BY <1>2, OutEffect DEF BulkEvent
<1>3. CASE t1z.eps /\ e = "inDone" /\ xzs_t1z_on_in_complete
    BY <1>3, InEffect DEF BulkEvent
<1>4. QED  BY <1>1, <1>2, <1>3 DEF BulkEvent, OutEvents

(***************************************************************************)
(* A device event, with its whole effect.                                   *)
(***************************************************************************)
ResetStep(e) ==
    /\ e = "reset" /\ t1z' = IdleSession /\ bus'.in = bus.in
    /\ fails' = 0 => ep0'.armed /\ bus'.trb = "setup"
    /\ orphaned' = (orphaned \/ busy \/ InOutstanding)

DisconnectStep(e) ==
    /\ e = "disconnect" /\ UNCHANGED <<t1z, bus, fails, orphaned>>
    /\ ep0'.state = ep0.state /\ ep0'.armed = ep0.armed

LEMMA DeviceEventEffect ==
    ASSUME BusTypes, DriverTypes, RestTypes, UNCHANGED accepted, NEW e, DeviceEvent(e)
    PROVE  /\ ResetStep(e) \/ DisconnectStep(e)
           /\ ep0' \in Ep0Set /\ t1z' \in SessionSet /\ BusTypes'
           /\ fails' \in fails .. env.fails /\ UNCHANGED <<busy, txPend>>
           /\ orphaned' \in BOOLEAN
<1>1. /\ bus \in BusSet(accepted) /\ t1z \in SessionSet /\ ep0 \in Ep0Set /\ fails \in Nat
      /\ fails <= env.fails /\ env.fails \in Nat /\ 0 \in Nat /\ 1 \in {1, 2}
    BY EnvTypes DEF BusTypes, DriverTypes
<1>2. BusTypes' = (bus' \in BusSet(accepted) /\ Len(bus'.in) <= PacketSize)
    BY DEF BusTypes, BusSet
<1>3. CASE e = "reset" /\ xzs_t1y_ep0_only_reset
  <2> DEFINE f == [ep0 EXCEPT !.pending = 0, !.value = 0, !.configured = FALSE]
  <2>1. /\ Rearm(f, bus, 0, 1) /\ t1z' = IdleSession
        /\ orphaned' = (orphaned \/ busy \/ InOutstanding) /\ UNCHANGED <<busy, txPend>>
    BY <1>3 DEF xzs_t1y_ep0_only_reset
  <2>2. f \in Ep0Set
    <3>1. ep0 \in Ep0Set /\ 0 \in 0 .. 1
      BY <1>1
    <3>2. QED  BY <3>1 DEF Ep0Set
  <2> HIDE DEF f
  <2>3. /\ ep0' \in Ep0Set /\ bus' \in BusSet(accepted)
        /\ bus'.in = bus.in /\ bus'.out = bus.out /\ fails' \in fails + 0 .. env.fails
        /\ fails' = 0 => ep0'.state = "setup" /\ ep0'.armed /\ bus'.trb = "setup"
    BY <1>1, <2>1, <2>2, RearmEffect
  <2>4. fails' \in fails .. env.fails
    BY <1>1, <2>3
  <2>5. IdleSession \in SessionSet
    BY DEF IdleSession, SessionSet
  <2>6. ResetStep(e)
    BY <1>3, <2>1, <2>3 DEF ResetStep
  <2>7. (orphaned \/ busy \/ InOutstanding) \in BOOLEAN
    OBVIOUS
  <2>8. QED  BY <1>2, <2>1, <2>3, <2>4, <2>5, <2>6, <2>7 DEF BusTypes
<1>4. CASE /\ e = "disconnect"
           /\ ep0' = [ep0 EXCEPT !.value = 0, !.configured = FALSE]
           /\ UNCHANGED <<t1z, bus, fails, busy, txPend, orphaned>>
  <2>1. ep0' \in Ep0Set /\ ep0'.state = ep0.state /\ ep0'.armed = ep0.armed
    <3>1. ep0 \in Ep0Set /\ 0 \in 0 .. 1
      BY <1>1
    <3>2. QED  BY <1>4, <3>1 DEF Ep0Set
  <2>2. fails' \in fails .. env.fails
    BY <1>1, <1>4
  <2>3. orphaned' \in BOOLEAN
    BY <1>4 DEF RestTypes
  <2>4. DisconnectStep(e)
    BY <1>4, <2>1 DEF DisconnectStep
  <2>5. QED  BY <1>1, <1>2, <1>4, <2>1, <2>2, <2>3, <2>4 DEF BusTypes
<1>5. QED  BY <1>3, <1>4 DEF DeviceEvent

(***************************************************************************)
(* Every event the worker takes.                                            *)
(***************************************************************************)
LEMMA EventEffect ==
    ASSUME TypeOK, NEW t \in Threads, xzs_t1y_process_event(t)
    PROVE  LET e == Head(ring)
           IN  /\ TypeOK' /\ e \in Events /\ fails' \in fails .. env.fails
               /\ Waiting # <<>> /\ Head(Waiting) = e /\ Waiting' = Tail(Waiting)
               /\ \/ /\ Ep0Effect(e) /\ UNCHANGED busy
                     /\ orphaned' = (orphaned \/ (e = "cfg0" /\ ep0.state = "setup" /\ busy))
                     /\ e \in Requests \cup {"dataDone", "statusDone", "notReady"}
                  \/ BulkStep(e) /\ UNCHANGED <<ep0, orphaned>>
                  \/ (ResetStep(e) \/ DisconnectStep(e)) /\ UNCHANGED busy
<1> DEFINE e == Head(ring)
<1>0. BusTypes /\ QueueTypes /\ DriverTypes /\ RestTypes
    BY TypeParts
<1>1. /\ ring # <<>> /\ ring' = Tail(ring)
      /\ Ep0Event(e) \/ DeviceEvent(e) \/ BulkEvent(e)
      /\ UNCHANGED <<hw, host, evPend, worker, tx, accepted, tmp, writer, pc>>
    BY DEF xzs_t1y_process_event
<1>2. /\ QueueTypes' /\ Waiting # <<>> /\ e \in Events
      /\ Head(Waiting) = e /\ Waiting' = Tail(Waiting)
    BY <1>0, <1>1, TakeWaiting
<1>3. env.fails \in Nat /\ fails \in Nat /\ UNCHANGED <<accepted, env>>
    BY <1>0, <1>1, EnvTypes DEF DriverTypes, host
<1> HIDE DEF e
<1>4. CASE Ep0Event(e)
  <2>1. /\ Ep0Effect(e) /\ busy' = busy /\ txPend' = txPend
        /\ orphaned' = (orphaned \/ (e = "cfg0" /\ ep0.state = "setup" /\ busy))
        /\ e \in Requests \cup {"dataDone", "statusDone", "notReady"}
    BY <1>0, <1>3, <1>4, Ep0EventEffect
  <2>2. BusTypes'
    BY <1>0, <1>3, <2>1 DEF Ep0Effect, BusTypes, BusSet
  <2>3. DriverTypes'
    BY <1>3, <2>1 DEF Ep0Effect, DriverTypes
  <2>4. orphaned' \in BOOLEAN
    BY <2>1
  <2>5. RestTypes'
    BY <1>0, <1>1, <2>1, <2>4 DEF RestTypes, host, worker
  <2>6. QED  BY <1>2, <2>1, <2>2, <2>3, <2>5, TypePartsNext DEF e, Ep0Effect
<1>5. CASE DeviceEvent(e)
  <2>1. /\ ResetStep(e) \/ DisconnectStep(e)
        /\ ep0' \in Ep0Set /\ t1z' \in SessionSet /\ BusTypes'
        /\ fails' \in fails .. env.fails /\ UNCHANGED <<busy, txPend>>
        /\ orphaned' \in BOOLEAN
    BY <1>0, <1>3, <1>5, DeviceEventEffect
  <2>2. DriverTypes'
    BY <1>3, <2>1 DEF DriverTypes
  <2>3. RestTypes'
    BY <1>0, <1>1, <2>1 DEF RestTypes, host, worker
  <2>4. QED  BY <1>2, <2>1, <2>2, <2>3, TypePartsNext DEF e
<1>6. CASE BulkEvent(e)
  <2>1. /\ BulkStep(e) /\ BusTypes' /\ t1z' \in SessionSet /\ fails' \in fails .. env.fails
        /\ UNCHANGED <<ep0, orphaned>>
    BY <1>0, <1>3, <1>6, BulkEventEffect
  <2>2. DriverTypes'
    BY <1>0, <1>3, <2>1 DEF DriverTypes
  <2>3. busy' \in BOOLEAN /\ txPend' \in BOOLEAN
    <3>1. /\ busy \in BOOLEAN /\ txPend \in BOOLEAN
          /\ busy' = busy \/ busy' = FALSE
          /\ txPend' = txPend \/ txPend' = TRUE
      BY <1>0, <2>1 DEF RestTypes, BulkStep, OutTaken, OutAnswered, SessionFails,
         BulkIgnored, InSent, InAnswered
    <3>2. QED  BY <3>1
  <2>4. RestTypes'
    BY <1>0, <1>1, <2>1, <2>3 DEF RestTypes, host, worker
  <2>5. QED  BY <1>2, <2>1, <2>2, <2>4, TypePartsNext DEF e
<1>7. QED  BY <1>1, <1>4, <1>5, <1>6
(***************************************************************************)
(* The steps of host and controller, each with its effect.                  *)
(***************************************************************************)
QuietMove(e) ==
    /\ e \in Events \ {"inDone", "reset", "outDone", "sample", "empty"}
    /\ bus'.in = bus.in /\ bus'.out = bus.out /\ UNCHANGED <<last, orphaned>>
    /\ bus'.trb = bus.trb \/ bus.trb # "setup" \/ e \in Requests

OutMove(e) ==
    /\ e \in {"outDone", "sample", "empty"}
    /\ bus'.in = bus.in /\ bus'.trb = bus.trb /\ UNCHANGED <<last, orphaned>>

InMove(e) ==
    /\ e = "inDone" /\ bus.in # <<>> /\ bus'.in = <<>>
    /\ last' = (IF Last(bus.in) = Payload THEN last ELSE Last(bus.in))
    /\ bus'.out = bus.out /\ bus'.trb = bus.trb /\ UNCHANGED orphaned

ResetMove(e) ==
    /\ e = "reset" /\ bus'.in = <<>> /\ orphaned' = (orphaned \/ busy) /\ UNCHANGED last

HostMove(e) == QuietMove(e) \/ OutMove(e) \/ InMove(e) \/ ResetMove(e)

(* A move of the host posts its event, keeps the types and leaves what the  *)
(* driver writes alone.                                                     *)
HostKept(e) ==
    /\ e \in Events /\ HostMove(e) /\ Post(e) /\ UNCHANGED env
    /\ bus' \in BusSet(accepted) /\ Len(bus'.in) <= PacketSize
    /\ moves' \in 0 .. Len(env.moves) /\ last' \in 0 .. accepted /\ orphaned' \in BOOLEAN

LEMMA MoveTypes ==
    ASSUME RestTypes, NEW m, Move(m)
    PROVE  moves' \in 0 .. Len(env.moves)
<1>1. moves \in 0 .. Len(env.moves) /\ Len(env.moves) \in Nat
    BY EnvTypes DEF RestTypes
<1>2. moves < Len(env.moves) /\ moves' = moves + 1
    BY DEF Move
<1>3. QED  BY <1>1, <1>2

LEMMA LastOfTransfer ==
    ASSUME NEW n \in Nat, NEW s \in Seq(0 .. n), s # <<>>
    PROVE  Last(s) \in 0 .. n /\ Len(s) \in 1 .. Len(s) /\ Last(s) = s[Len(s)]
<1>1. Len(s) \in Nat \ {0}
    BY EmptySeq
<1>2. Len(s) \in 1 .. Len(s)
    BY <1>1
<1>3. s[Len(s)] \in 0 .. n
    BY <1>2, ElementOfSeq
<1>4. QED  BY <1>2, <1>3 DEF Last

LEMMA HostSteps == ASSUME TypeOK, Host PROVE \E e \in Events : HostKept(e)
<1>0. BusTypes /\ QueueTypes /\ DriverTypes /\ RestTypes
    BY TypeParts
<1>1. /\ bus \in BusSet(accepted) /\ Len(bus.in) <= PacketSize /\ accepted \in Nat
      /\ PacketSize \in Nat \ {0} /\ MaxOuts \in Nat
      /\ last \in 0 .. accepted /\ orphaned \in BOOLEAN /\ moves \in 0 .. Len(env.moves)
    BY <1>0, EnvTypes DEF BusTypes, RestTypes
<1>2. /\ <<>> \in Seq(0 .. accepted) /\ Len(<<>>) = 0
      /\ bus.in \in Seq(0 .. accepted) /\ bus.outs \in 0 .. MaxOuts
    BY <1>1, EmptySeq DEF BusSet
<1>3. ASSUME NEW r \in Requests, HostSetup(r) PROVE HostKept(r)
  <2>1. r \in Events \ {"inDone", "reset", "outDone", "sample", "empty"}
    BY DEF Requests, Moves, Events
  <2>2. bus' = [bus EXCEPT !.trb = "none",
                          !.stage = IF r = "desc" THEN "data" ELSE "status",
                          !.host = IF r \in {"cfg0", "cfg1"} THEN "default" ELSE @,
                          !.want = IF r = "cfg1" THEN "configured"
                                   ELSE IF r = "cfg0" THEN "default" ELSE bus.host]
    BY <1>3 DEF HostSetup
  <2>3. bus' \in BusSet(accepted) /\ bus'.in = bus.in /\ bus'.out = bus.out
    BY <1>1, <2>2 DEF BusSet
  <2>4. moves' \in 0 .. Len(env.moves) /\ Post(r) /\ UNCHANGED <<env, last, orphaned>>
    BY <1>0, <1>3, MoveTypes DEF HostSetup
  <2>5. QED  BY <1>1, <2>1, <2>3, <2>4 DEF HostKept, HostMove, QuietMove
<1>4. ASSUME HostData PROVE HostKept("dataDone")
  <2>1. "dataDone" \in Events \ {"inDone", "reset", "outDone", "sample", "empty"}
    BY DEF Events
  <2>2. bus.trb = "data" /\ bus' = [bus EXCEPT !.trb = "none", !.stage = "status"]
        /\ Post("dataDone") /\ UNCHANGED <<env, moves, last, orphaned>>
    BY <1>4 DEF HostData, host
  <2>3. bus' \in BusSet(accepted) /\ bus'.in = bus.in /\ bus'.out = bus.out
    BY <1>1, <2>2 DEF BusSet
  <2>4. QED  BY <1>1, <2>1, <2>2, <2>3 DEF HostKept, HostMove, QuietMove
<1>5. ASSUME HostNotReady PROVE HostKept("notReady")
  <2>1. "notReady" \in Events \ {"inDone", "reset", "outDone", "sample", "empty"}
    BY DEF Events
  <2>2. bus.trb = "none" /\ bus' = [bus EXCEPT !.stage = "asked"]
        /\ Post("notReady") /\ UNCHANGED <<env, moves, last, orphaned>>
    BY <1>5 DEF HostNotReady, host
  <2>3. bus' \in BusSet(accepted) /\ bus'.in = bus.in /\ bus'.out = bus.out
    BY <1>1, <2>2 DEF BusSet
  <2>4. QED  BY <1>1, <2>1, <2>2, <2>3 DEF HostKept, HostMove, QuietMove
<1>6. ASSUME HostStatus PROVE HostKept("statusDone")
  <2>1. "statusDone" \in Events \ {"inDone", "reset", "outDone", "sample", "empty"}
    BY DEF Events
  <2>2. /\ bus.trb = "status"
        /\ bus' = [bus EXCEPT !.trb = "none", !.stage = "none", !.host = bus.want,
                              !.outs = IF bus.host # bus.want THEN 0 ELSE @]
        /\ Post("statusDone") /\ UNCHANGED <<env, moves, last, orphaned>>
    BY <1>6 DEF HostStatus, host
  <2>3. 0 \in 0 .. MaxOuts
    BY <1>1
  <2>4. bus' \in BusSet(accepted) /\ bus'.in = bus.in /\ bus'.out = bus.out
    BY <1>1, <2>2, <2>3 DEF BusSet
  <2>5. QED  BY <1>1, <2>1, <2>2, <2>4 DEF HostKept, HostMove, QuietMove
<1>7. ASSUME HostOut PROVE HostKept("outDone")
  <2>1. "outDone" \in Events
    BY DEF Events
  <2>2. /\ bus.outs < MaxOuts /\ bus' = [bus EXCEPT !.out = FALSE, !.outs = @ + 1]
        /\ Post("outDone") /\ UNCHANGED <<env, moves, last, orphaned>>
    BY <1>7 DEF HostOut, host
  <2>3. bus.outs + 1 \in 0 .. MaxOuts
    BY <1>1, <1>2, <2>2
  <2>4. bus' \in BusSet(accepted) /\ bus'.in = bus.in /\ bus'.trb = bus.trb
    BY <1>1, <2>2, <2>3 DEF BusSet
  <2>5. QED  BY <1>1, <2>1, <2>2, <2>4 DEF HostKept, HostMove, OutMove
<1>8. ASSUME NEW m \in {"sample", "empty"}, HostSample(m) PROVE HostKept(m)
  <2>1. m \in Events
    BY DEF Events, Moves
  <2>2. /\ bus' = [bus EXCEPT !.out = FALSE]
        /\ Post(m) /\ UNCHANGED <<env, last, orphaned>>
    BY <1>8 DEF HostSample
  <2>3. bus' \in BusSet(accepted) /\ bus'.in = bus.in /\ bus'.trb = bus.trb
    BY <1>1, <2>2 DEF BusSet
  <2>4. moves' \in 0 .. Len(env.moves)
    BY <1>0, <1>8, MoveTypes DEF HostSample
  <2>5. QED  BY <1>1, <2>1, <2>2, <2>3, <2>4 DEF HostKept, HostMove, OutMove
<1>9. ASSUME HostIn PROVE HostKept("inDone")
  <2>1. "inDone" \in Events
    BY DEF Events
  <2>2. /\ bus.in # <<>> /\ bus' = [bus EXCEPT !.in = <<>>]
        /\ last' = (IF Last(bus.in) = Payload THEN last ELSE Last(bus.in))
        /\ Post("inDone") /\ UNCHANGED <<env, moves, orphaned>>
    BY <1>9 DEF HostIn
  <2>3. /\ bus' \in BusSet(accepted) /\ bus'.in = <<>> /\ bus'.out = bus.out
        /\ bus'.trb = bus.trb
    BY <1>1, <1>2, <2>2 DEF BusSet
  <2>4. last' \in 0 .. accepted
    <3>1. Last(bus.in) \in 0 .. accepted
      BY <1>1, <1>2, <2>2, LastOfTransfer
    <3>2. QED  BY <1>1, <2>2, <3>1
  <2>5. Len(bus'.in) <= PacketSize
    BY <1>1, <1>2, <2>3
  <2>6. QED  BY <1>1, <2>1, <2>2, <2>3, <2>4, <2>5 DEF HostKept, HostMove, InMove
<1>10. ASSUME BusReset PROVE HostKept("reset")
  <2>1. "reset" \in Events
    BY DEF Events, Moves
  <2>2. /\ bus' = [bus EXCEPT !.trb = "none", !.stage = "none", !.out = FALSE,
                              !.in = <<>>, !.host = "default"]
        /\ orphaned' = (orphaned \/ busy) /\ Post("reset") /\ UNCHANGED <<env, last>>
    BY <1>10 DEF BusReset
  <2>3. bus' \in BusSet(accepted) /\ bus'.in = <<>>
    BY <1>1, <1>2, <2>2 DEF BusSet
  <2>4. moves' \in 0 .. Len(env.moves)
    BY <1>0, <1>10, MoveTypes DEF BusReset
  <2>5. Len(bus'.in) <= PacketSize /\ orphaned' \in BOOLEAN
    BY <1>1, <1>2, <2>2, <2>3
  <2>6. QED  BY <1>1, <2>1, <2>2, <2>3, <2>4, <2>5 DEF HostKept, HostMove, ResetMove
<1>11. ASSUME Unplug PROVE HostKept("disconnect")
  <2>1. "disconnect" \in Events \ {"inDone", "reset", "outDone", "sample", "empty"}
    BY DEF Events, Moves
  <2>2. /\ bus' = [bus EXCEPT !.host = "gone", !.stage = "none"]
        /\ Post("disconnect") /\ UNCHANGED <<env, last, orphaned>>
    BY <1>11 DEF Unplug
  <2>3. /\ bus' \in BusSet(accepted) /\ bus'.in = bus.in /\ bus'.out = bus.out
        /\ bus'.trb = bus.trb
    BY <1>1, <2>2 DEF BusSet
  <2>4. moves' \in 0 .. Len(env.moves)
    BY <1>0, <1>11, MoveTypes DEF Unplug
  <2>5. QED  BY <1>1, <2>1, <2>2, <2>3, <2>4 DEF HostKept, HostMove, QuietMove
<1>12. QED
  <2>1. Requests \subseteq Events
    BY DEF Events, Moves
  <2>2. {"dataDone", "notReady", "statusDone", "outDone", "sample", "empty", "inDone", "reset",
         "disconnect"} \subseteq Events
    BY DEF Events, Moves
  <2>3. QED
    BY <1>3, <1>4, <1>5, <1>6, <1>7, <1>8, <1>9, <1>10, <1>11, <2>1, <2>2 DEF Host

LEMMA HostKeepsTypes ==
    ASSUME TypeOK, NEW e \in Events, HostKept(e)
    PROVE  /\ TypeOK' /\ Waiting' = Append(Waiting, e)
           /\ UNCHANGED <<ep0, t1z, tx, accepted, busy, tmp, pc, fails>>
<1>0. BusTypes /\ QueueTypes /\ DriverTypes /\ RestTypes
    BY TypeParts
<1>1. /\ Len(hw) < HwEvents /\ hw' = Append(hw, e) /\ UNCHANGED env
      /\ UNCHANGED <<ring, evPend, txPend, owner, round, ep0, t1z, tx, accepted, busy, tmp,
                     writer, pc, fails>>
    BY DEF HostKept, Post, calls, worker, out
<1>2. QueueTypes' /\ Waiting' = Append(Waiting, e)
    BY <1>0, <1>1, EnvTypes, PostWaiting
<1>3. BusTypes'
    BY <1>1 DEF HostKept, BusTypes, BusSet
<1>4. DriverTypes'
    BY <1>0, <1>1 DEF DriverTypes
<1>5. RestTypes'
    BY <1>0, <1>1 DEF HostKept, RestTypes
<1>6. QED  BY <1>1, <1>2, <1>3, <1>4, <1>5, TypePartsNext
(***************************************************************************)
(* The steps that only copy events, take or drop the worker's lock, arm the  *)
(* status stage or decide what to do next.                                  *)
(***************************************************************************)
Aside ==
    /\ TypeOK' /\ Waiting' = Waiting
    /\ UNCHANGED <<last, t1z, tx, accepted, busy, tmp, orphaned>>
    /\ bus'.in = bus.in /\ bus'.out = bus.out /\ fails' \in fails .. env.fails
    /\ (ep0' = ep0 /\ bus' = bus) \/ ep0'.state # "setup"
    /\ \A u \in Threads : pc'[u] = "txArm" <=> pc[u] = "txArm"

(* The labels of a thread that does not arm a packet.                       *)
LEMMA GotoAside ==
    ASSUME RestTypes, NEW t \in Threads, pc[t] # "txArm",
           NEW l \in {"idle", "drain", "unlock", "pumpTx", "tx"}, Goto(t, l)
    PROVE  /\ pc' \in [Threads -> {"idle", "drain", "unlock", "pumpTx", "tx", "txArm"}]
           /\ \A u \in Threads : pc'[u] = "txArm" <=> pc[u] = "txArm"
<1>1. pc' = [pc EXCEPT ![t] = l] /\ l # "txArm"
    BY DEF Goto
<1>2. pc' \in [Threads -> {"idle", "drain", "unlock", "pumpTx", "tx", "txArm"}]
    BY <1>1 DEF RestTypes
<1>3. ASSUME NEW u \in Threads PROVE pc'[u] = "txArm" <=> pc[u] = "txArm"
    BY <1>1 DEF RestTypes
<1>4. QED  BY <1>2, <1>3

LEMMA DrainUnlessWaiting ==
    ASSUME QueueTypes, RestTypes, NEW n, DrainUnless(n)
    PROVE  QueueTypes' /\ Waiting' = Waiting /\ evPend' \in BOOLEAN
<1>1. EventRingSize \in Nat /\ HwEvents \in Nat /\ evPend \in BOOLEAN
    BY EnvTypes DEF RestTypes
<1>2. CASE Drain
    BY <1>1, <1>2, DrainWaiting
<1>3. CASE UNCHANGED <<ring, hw, evPend>>
    BY <1>1, <1>3 DEF QueueTypes, Waiting
<1>4. QED  BY <1>2, <1>3 DEF DrainUnless

LEMMA StillTypes ==
    ASSUME TypeOK, UNCHANGED <<bus, ep0, t1z, fails, env, accepted>>
    PROVE  /\ BusTypes' /\ DriverTypes' /\ fails' \in fails .. env.fails
           /\ bus'.in = bus.in /\ bus'.out = bus.out /\ ep0' = ep0 /\ bus' = bus
<1>1. BusTypes /\ DriverTypes /\ RestTypes
    BY TypeParts
<1>2. BusTypes' /\ DriverTypes'
    BY <1>1 DEF BusTypes, BusSet, DriverTypes
<1>3. fails' \in fails .. env.fails
    BY <1>1, EnvTypes DEF DriverTypes
<1>4. QED  BY <1>2, <1>3

LEMMA IrqAside == ASSUME TypeOK, xzs_usb_irq_handler PROVE Aside
<1>0. BusTypes /\ QueueTypes /\ DriverTypes /\ RestTypes
    BY TypeParts
<1>1. /\ Drain
      /\ UNCHANGED <<bus, env, moves, last, txPend, owner, round, ep0, t1z, tx, accepted, busy,
                     tmp, writer, pc, fails, orphaned>>
    BY DEF xzs_usb_irq_handler, host, worker, out
<1>2. QueueTypes' /\ Waiting' = Waiting /\ evPend' \in BOOLEAN
    BY <1>0, <1>1, EnvTypes, DrainWaiting DEF RestTypes
<1>3. BusTypes' /\ DriverTypes' /\ fails' \in fails .. env.fails
    BY <1>1, StillTypes
<1>4. RestTypes'
    BY <1>0, <1>1, <1>2 DEF RestTypes
<1>5. QED  BY <1>1, <1>2, <1>3, <1>4, TypePartsNext DEF Aside

LEMMA EventCallAside == ASSUME TypeOK, NEW t \in Threads, EventCall(t) PROVE Aside
<1>0. BusTypes /\ QueueTypes /\ DriverTypes /\ RestTypes
    BY TypeParts
<1>1. /\ pc[t] = "idle" /\ evPend' = FALSE
      /\ (owner' = t /\ round' = 0 /\ Goto(t, "drain")) \/ UNCHANGED <<owner, round, pc>>
      /\ UNCHANGED <<bus, hw, env, moves, last, ring, txPend, ep0, t1z, tx, accepted, busy,
                     tmp, writer, fails, orphaned>>
    BY DEF EventCall, TakeWorkerLock, host, worker, out
<1>2. QueueTypes' /\ Waiting' = Waiting
    BY <1>0, <1>1 DEF QueueTypes, Waiting
<1>3. BusTypes' /\ DriverTypes' /\ fails' \in fails .. env.fails
    BY <1>1, StillTypes
<1>4. /\ pc' \in [Threads -> {"idle", "drain", "unlock", "pumpTx", "tx", "txArm"}]
      /\ \A u \in Threads : pc'[u] = "txArm" <=> pc[u] = "txArm"
  <2>1. CASE Goto(t, "drain")
    BY <1>0, <1>1, <2>1, GotoAside
  <2>2. CASE UNCHANGED pc
    BY <1>0, <2>2 DEF RestTypes
  <2>3. QED  BY <1>1, <2>1, <2>2
<1>5. owner' \in Threads \cup {None} /\ round' \in 0 .. Rounds - 1
  <2>1. owner \in Threads \cup {None} /\ round \in 0 .. Rounds - 1
    BY <1>0 DEF RestTypes
  <2>2. 0 \in 0 .. Rounds - 1
    BY <1>0, EnvTypes
  <2>3. QED  BY <1>1, <2>1, <2>2
<1>6. RestTypes'
    BY <1>0, <1>1, <1>4, <1>5 DEF RestTypes
<1>7. QED  BY <1>1, <1>2, <1>3, <1>4, <1>6, TypePartsNext DEF Aside

LEMMA RoundEndAside == ASSUME TypeOK, NEW t \in Threads, RoundEnd(t) PROVE Aside
<1>0. BusTypes /\ QueueTypes /\ DriverTypes /\ RestTypes
    BY TypeParts
<1>1. /\ pc[t] = "drain"
      /\ (Goto(t, "unlock") /\ UNCHANGED round) \/
         (round + 1 # Rounds /\ round' = round + 1 /\ UNCHANGED pc)
      /\ UNCHANGED <<env, moves, last, txPend, owner, t1z, tx, accepted, busy,
                     tmp, writer, orphaned>>
    BY DEF RoundEnd, host, out
<1>2. PICK n \in {0, 1} :
        /\ DrainUnless(n)
        /\ \/ ep0.state = "wait" /\ QueueStatus(ep0, n)
           \/ ep0.state # "wait" /\ Failing(n) /\ UNCHANGED <<ep0, bus>>
    BY DEF RoundEnd
<1>3. QueueTypes' /\ Waiting' = Waiting /\ evPend' \in BOOLEAN
    BY <1>0, <1>2, DrainUnlessWaiting
<1>4. /\ bus \in BusSet(accepted) /\ ep0 \in Ep0Set /\ t1z \in SessionSet /\ fails \in Nat
      /\ env.fails \in Nat /\ n \in Nat
    BY <1>0, EnvTypes DEF BusTypes, DriverTypes
<1>5. /\ ep0' \in Ep0Set /\ bus' \in BusSet(accepted)
      /\ bus'.in = bus.in /\ bus'.out = bus.out /\ fails' \in fails + n .. env.fails
      /\ (ep0' = ep0 /\ bus' = bus) \/ ep0'.state # "setup"
  <2>1. CASE QueueStatus(ep0, n)
    BY <1>4, <2>1, QueueStatusEffect
  <2>2. CASE Failing(n) /\ UNCHANGED <<ep0, bus>>
    <3>1. fails' \in fails + n .. env.fails
      BY <1>4, <2>2 DEF Failing
    <3>2. QED  BY <1>4, <2>2, <3>1
  <2>3. QED  BY <1>2, <2>1, <2>2
<1>6. fails' \in fails .. env.fails
    BY <1>4, <1>5
<1>7. BusTypes'
    BY <1>0, <1>1, <1>5 DEF BusTypes, BusSet
<1>8. DriverTypes'
    BY <1>1, <1>4, <1>5, <1>6 DEF DriverTypes
<1>9. /\ pc' \in [Threads -> {"idle", "drain", "unlock", "pumpTx", "tx", "txArm"}]
      /\ \A u \in Threads : pc'[u] = "txArm" <=> pc[u] = "txArm"
  <2>1. CASE Goto(t, "unlock")
    BY <1>0, <1>1, <2>1, GotoAside
  <2>2. CASE UNCHANGED pc
    BY <1>0, <2>2 DEF RestTypes
  <2>3. QED  BY <1>1, <2>1, <2>2
<1>10. round' \in 0 .. Rounds - 1
  <2>1. round \in 0 .. Rounds - 1 /\ Rounds \in Nat
    BY <1>0, EnvTypes DEF RestTypes
  <2>2. round' = round \/ (round + 1 # Rounds /\ round' = round + 1)
    BY <1>1
  <2>3. QED  BY <2>1, <2>2
<1>11. RestTypes'
    BY <1>0, <1>1, <1>3, <1>9, <1>10 DEF RestTypes
<1>12. QED  BY <1>1, <1>3, <1>5, <1>6, <1>7, <1>8, <1>9, <1>11, TypePartsNext DEF Aside

LEMMA DropAside == ASSUME TypeOK, NEW t \in Threads, DropWorkerLock(t) PROVE Aside
<1>0. BusTypes /\ QueueTypes /\ DriverTypes /\ RestTypes
    BY TypeParts
<1>1. /\ pc[t] = "unlock" /\ owner' = None /\ round' = 0
      /\ Goto(t, IF t \in Pumps THEN "pumpTx" ELSE "idle")
      /\ UNCHANGED <<bus, hw, env, moves, last, ring, evPend, txPend, ep0, t1z, tx, accepted,
                     busy, tmp, writer, fails, orphaned>>
    BY DEF DropWorkerLock, host, calls, out
<1>2. QueueTypes' /\ Waiting' = Waiting
    BY <1>0, <1>1 DEF QueueTypes, Waiting
<1>3. BusTypes' /\ DriverTypes' /\ fails' \in fails .. env.fails
    BY <1>1, StillTypes
<1>4. /\ pc' \in [Threads -> {"idle", "drain", "unlock", "pumpTx", "tx", "txArm"}]
      /\ \A u \in Threads : pc'[u] = "txArm" <=> pc[u] = "txArm"
    BY <1>0, <1>1, GotoAside
<1>5. round' \in 0 .. Rounds - 1
    BY <1>0, <1>1, EnvTypes
<1>6. RestTypes'
    BY <1>0, <1>1, <1>4, <1>5 DEF RestTypes
<1>7. QED  BY <1>1, <1>2, <1>3, <1>4, <1>6, TypePartsNext DEF Aside

LEMMA PumpBeginAside == ASSUME TypeOK, NEW t \in Threads, PumpBegin(t) PROVE Aside
<1>0. BusTypes /\ QueueTypes /\ DriverTypes /\ RestTypes
    BY TypeParts
<1>1. /\ pc[t] = "idle"
      /\ (owner' = t /\ round' = 0 /\ Goto(t, "drain")) \/
         (Goto(t, "pumpTx") /\ UNCHANGED <<owner, round>>)
      /\ UNCHANGED <<bus, env, moves, last, txPend, ep0, t1z, tx, accepted, busy,
                     tmp, writer, orphaned>>
    BY DEF PumpBegin, TakeWorkerLock, host, worker, out
<1>2. PICK n \in {0, 1} : Failing(n) /\ DrainUnless(n)
    BY DEF PumpBegin
<1>3. QueueTypes' /\ Waiting' = Waiting /\ evPend' \in BOOLEAN
    BY <1>0, <1>2, DrainUnlessWaiting
<1>4. fails' \in fails .. env.fails /\ fails' \in 0 .. env.fails
    BY <1>0, <1>2, EnvTypes DEF DriverTypes, Failing
<1>5. BusTypes' /\ DriverTypes'
    BY <1>0, <1>1, <1>4 DEF BusTypes, BusSet, DriverTypes
<1>6. /\ pc' \in [Threads -> {"idle", "drain", "unlock", "pumpTx", "tx", "txArm"}]
      /\ \A u \in Threads : pc'[u] = "txArm" <=> pc[u] = "txArm"
  <2>1. CASE Goto(t, "drain")
    BY <1>0, <1>1, <2>1, GotoAside
  <2>2. CASE Goto(t, "pumpTx")
    BY <1>0, <1>1, <2>2, GotoAside
  <2>3. QED  BY <1>1, <2>1, <2>2
<1>7. owner' \in Threads \cup {None} /\ round' \in 0 .. Rounds - 1
  <2>1. owner \in Threads \cup {None} /\ round \in 0 .. Rounds - 1
    BY <1>0 DEF RestTypes
  <2>2. 0 \in 0 .. Rounds - 1
    BY <1>0, EnvTypes
  <2>3. QED  BY <1>1, <2>1, <2>2
<1>8. RestTypes'
    BY <1>0, <1>1, <1>3, <1>6, <1>7 DEF RestTypes
<1>9. QED  BY <1>1, <1>3, <1>4, <1>5, <1>6, <1>8, TypePartsNext DEF Aside

LEMMA LabelAside == ASSUME TypeOK, NEW t \in Threads, PumpTx(t) \/ TxCall(t) PROVE Aside
<1>0. BusTypes /\ QueueTypes /\ DriverTypes /\ RestTypes
    BY TypeParts
<1>1. /\ pc[t] \in {"pumpTx", "idle"} /\ txPend' \in {txPend, FALSE}
      /\ Goto(t, "tx") \/ Goto(t, "idle")
      /\ UNCHANGED <<bus, hw, env, moves, last, ring, evPend, owner, round, ep0, t1z, tx,
                     accepted, busy, tmp, writer, fails, orphaned>>
    BY DEF PumpTx, TxCall, host, calls, worker, out
<1>2. QueueTypes' /\ Waiting' = Waiting
    BY <1>0, <1>1 DEF QueueTypes, Waiting
<1>3. BusTypes' /\ DriverTypes' /\ fails' \in fails .. env.fails
    BY <1>1, StillTypes
<1>4. /\ pc' \in [Threads -> {"idle", "drain", "unlock", "pumpTx", "tx", "txArm"}]
      /\ \A u \in Threads : pc'[u] = "txArm" <=> pc[u] = "txArm"
  <2>1. CASE Goto(t, "tx")
    BY <1>0, <1>1, <2>1, GotoAside
  <2>2. CASE Goto(t, "idle")
    BY <1>0, <1>1, <2>2, GotoAside
  <2>3. QED  BY <1>1, <2>1, <2>2
<1>5. txPend' \in BOOLEAN
    BY <1>0, <1>1 DEF RestTypes
<1>6. RestTypes'
    BY <1>0, <1>1, <1>4, <1>5 DEF RestTypes
<1>7. QED  BY <1>1, <1>2, <1>3, <1>4, <1>6, TypePartsNext DEF Aside

LEMMA WriteBeginAside == ASSUME TypeOK, WriteBegin PROVE Aside
<1>0. BusTypes /\ QueueTypes /\ DriverTypes /\ RestTypes
    BY TypeParts
<1>1. /\ writer' \in {"ready", "early"}
      /\ UNCHANGED <<bus, hw, env, moves, last, ring, evPend, txPend, owner, round, ep0, t1z,
                     tx, accepted, busy, tmp, pc, fails, orphaned>>
    BY DEF WriteBegin, host, calls, worker
<1>2. QueueTypes' /\ Waiting' = Waiting
    BY <1>0, <1>1 DEF QueueTypes, Waiting
<1>3. BusTypes' /\ DriverTypes' /\ fails' \in fails .. env.fails
    BY <1>1, StillTypes
<1>4. RestTypes'
    BY <1>0, <1>1 DEF RestTypes
<1>5. QED  BY <1>1, <1>2, <1>3, <1>4, TypePartsNext DEF Aside
(***************************************************************************)
(* The transmit worker and the writer, each with its effect.                *)
(***************************************************************************)
(* The worker takes the first n bytes of the ring.                          *)
PacketTaken(t) ==
    /\ pc[t] = "tx" /\ ~busy /\ tx # <<>> /\ busy' = TRUE
    /\ \E n \in 1 .. Len(tx) :
        /\ tmp' = [tmp EXCEPT ![t] = SubSeq(tx, 1, n)]
        /\ tx' = SubSeq(tx, n + 1, Len(tx))
    /\ pc' = [pc EXCEPT ![t] = "txArm"]
    /\ orphaned' = (orphaned \/ ~t1z.bridge \/ ~t1z.eps)

LEMMA TxTakeTypes ==
    ASSUME TypeOK, NEW t \in Threads, TxTake(t)
    PROVE  /\ TypeOK' /\ Waiting' = Waiting /\ UNCHANGED <<bus, last, ep0, t1z, accepted>>
           /\ fails' \in fails .. env.fails /\ pc[t] = "tx"
           /\ \/ PacketTaken(t)
              \/ UNCHANGED <<tx, busy, tmp, orphaned>> /\ pc' = [pc EXCEPT ![t] = "idle"]
<1>0. BusTypes /\ QueueTypes /\ DriverTypes /\ RestTypes
    BY TypeParts
<1>1. /\ pc[t] = "tx"
      /\ UNCHANGED <<bus, hw, env, moves, last, ring, evPend, txPend, owner, round, ep0, t1z,
                     accepted, writer>>
    BY DEF TxTake, host, calls, worker
<1>2. QueueTypes' /\ Waiting' = Waiting
    BY <1>0, <1>1 DEF QueueTypes, Waiting
<1>3. BusTypes'
    BY <1>0, <1>1 DEF BusTypes, BusSet
<1>4. /\ fails \in Nat /\ env.fails \in Nat /\ fails <= env.fails /\ accepted \in Nat
      /\ PacketSize \in Nat \ {0} /\ tx \in Seq(1 .. accepted) /\ Len(tx) \in Nat
      /\ ep0 \in Ep0Set /\ t1z \in SessionSet
    BY <1>0, EnvTypes, LenProperties DEF DriverTypes, RestTypes
<1>5. CASE /\ fails' \in fails .. env.fails /\ Goto(t, "idle")
           /\ UNCHANGED <<tx, busy, tmp, orphaned>>
  <2>1. DriverTypes'
    BY <1>1, <1>4, <1>5 DEF DriverTypes
  <2>2. pc' = [pc EXCEPT ![t] = "idle"]
    BY <1>5 DEF Goto
  <2>3. pc' \in [Threads -> {"idle", "drain", "unlock", "pumpTx", "tx", "txArm"}]
    BY <1>0, <2>2 DEF RestTypes
  <2>4. RestTypes'
    BY <1>0, <1>1, <1>5, <2>3 DEF RestTypes
  <2>5. QED  BY <1>1, <1>2, <1>3, <1>5, <2>1, <2>2, <2>4, TypePartsNext
<1>6. CASE MayTake /\ Goto(t, "txArm") /\ UNCHANGED fails
           /\ LET n == Min({Len(tx), PacketSize})
              IN  /\ tmp' = [tmp EXCEPT ![t] = SubSeq(tx, 1, n)]
                  /\ tx' = SubSeq(tx, n + 1, Len(tx))
           /\ busy' = TRUE /\ orphaned' = (orphaned \/ ~t1z.bridge \/ ~t1z.eps)
  <2> DEFINE n == Min({Len(tx), PacketSize})
  <2>1. Len(tx) # 0
    BY <1>4, <1>6, EmptySeq DEF MayTake
  <2>2. n = IF Len(tx) <= PacketSize THEN Len(tx) ELSE PacketSize
    BY <1>4, MinOfTwo
  <2>3. n \in 1 .. Len(tx) /\ n \in 0 .. Len(tx) /\ n <= PacketSize
    BY <1>4, <2>1, <2>2
  <2>4. /\ tmp' = [tmp EXCEPT ![t] = SubSeq(tx, 1, n)]
        /\ tx' = SubSeq(tx, n + 1, Len(tx))
    BY <1>6
  <2> HIDE DEF n
  <2>5. /\ SubSeq(tx, 1, n) \in Seq(1 .. accepted) /\ Len(SubSeq(tx, 1, n)) = n
        /\ SubSeq(tx, n + 1, Len(tx)) \in Seq(1 .. accepted)
        /\ Len(SubSeq(tx, n + 1, Len(tx))) = Len(tx) - n
    <3>1. tx \in Seq(1 .. accepted) /\ n \in 0 .. Len(tx)
      BY <1>4, <2>3
    <3>2. QED  BY <3>1, SplitSeq
  <2>6. PacketTaken(t)
    BY <1>1, <1>6, <2>3, <2>4 DEF PacketTaken, MayTake, Goto
  <2>7. /\ tmp' \in [Threads -> Seq(1 .. accepted)]
        /\ \A u \in Threads : Len(tmp'[u]) <= PacketSize
    <3>1. /\ tmp \in [Threads -> Seq(1 .. accepted)]
          /\ \A u \in Threads : Len(tmp[u]) <= PacketSize
      BY <1>0 DEF RestTypes
    <3>2. QED  BY <2>3, <2>4, <2>5, <3>1
  <2>8. tx' \in Seq(1 .. accepted) /\ Len(tx') < TxRingSize
    <3>1. Len(tx) < TxRingSize /\ TxRingSize \in Nat
      BY <1>0, EnvTypes DEF RestTypes
    <3>2. Len(tx) - n < TxRingSize
      BY <1>4, <2>3, <3>1
    <3>3. QED  BY <2>4, <2>5, <3>2
  <2>9. pc' \in [Threads -> {"idle", "drain", "unlock", "pumpTx", "tx", "txArm"}]
    BY <1>0, <1>6 DEF RestTypes, Goto
  <2>10. orphaned' \in BOOLEAN /\ busy' \in BOOLEAN
    BY <1>6
  <2>11. RestTypes'
    BY <1>0, <1>1, <2>7, <2>8, <2>9, <2>10 DEF RestTypes
  <2>12. DriverTypes' /\ fails' \in fails .. env.fails
    BY <1>1, <1>4, <1>6 DEF DriverTypes
  <2>13. QED  BY <1>1, <1>2, <1>3, <2>6, <2>11, <2>12, TypePartsNext
<1>7. CASE Failing(1) /\ Goto(t, "idle") /\ UNCHANGED <<tx, busy, tmp, orphaned>>
  <2>1. fails' \in fails .. env.fails
    BY <1>4, <1>7 DEF Failing
  <2>2. QED  BY <1>5, <1>7, <2>1
<1>8. CASE ~MayTake /\ Goto(t, "idle") /\ UNCHANGED <<tx, busy, tmp, fails, orphaned>>
  <2>1. fails' \in fails .. env.fails
    BY <1>4, <1>8
  <2>2. QED  BY <1>5, <1>8, <2>1
<1>9. QED  BY <1>6, <1>7, <1>8 DEF TxTake

LEMMA TxArmTypes ==
    ASSUME TypeOK, NEW t \in Threads, TxArm(t)
    PROVE  /\ TypeOK' /\ Waiting' = Waiting
           /\ UNCHANGED <<last, ep0, t1z, tx, accepted, orphaned>>
           /\ fails' \in fails .. env.fails /\ pc[t] = "txArm"
           /\ bus'.trb = bus.trb /\ bus'.out = bus.out
           /\ \E ok \in BOOLEAN :
                /\ ok => bus.in = <<>>
                /\ bus'.in = IF tmp[t] # <<>> /\ (ok \/ bus.in # <<>>)
                             THEN tmp[t] ELSE bus.in
                /\ busy' = (busy /\ ok)
           /\ tmp' = [tmp EXCEPT ![t] = <<>>] /\ pc' = [pc EXCEPT ![t] = "idle"]
<1>0. BusTypes /\ QueueTypes /\ DriverTypes /\ RestTypes
    BY TypeParts
<1>1. /\ pc[t] = "txArm" /\ tmp' = [tmp EXCEPT ![t] = <<>>] /\ pc' = [pc EXCEPT ![t] = "idle"]
      /\ UNCHANGED <<hw, env, moves, last, ring, evPend, txPend, owner, round, ep0, t1z,
                     tx, accepted, writer, orphaned>>
    BY DEF TxArm, Goto, host, calls, worker
<1>2. PICK ok \in BOOLEAN : ArmIn(tmp[t], ok) /\ busy' = (busy /\ ok)
    BY DEF TxArm
<1>3. QueueTypes' /\ Waiting' = Waiting
    BY <1>0, <1>1 DEF QueueTypes, Waiting
<1>4. /\ bus \in BusSet(accepted) /\ fails \in Nat /\ env.fails \in Nat /\ fails <= env.fails
      /\ tmp[t] \in Seq(1 .. accepted) /\ Len(tmp[t]) <= PacketSize
      /\ Len(bus.in) <= PacketSize /\ accepted \in Nat /\ busy \in BOOLEAN
    BY <1>0, EnvTypes DEF BusTypes, DriverTypes, RestTypes
<1>5. tmp[t] \in Seq(0 .. accepted)
  <2>1. 1 .. accepted \subseteq 0 .. accepted
    BY <1>4
  <2>2. QED  BY <1>4, <2>1, SeqMonotonic
<1>6. /\ bus' \in BusSet(accepted) /\ bus'.trb = bus.trb /\ bus'.out = bus.out
      /\ ok => bus.in = <<>>
      /\ bus'.in = IF tmp[t] # <<>> /\ (ok \/ bus.in # <<>>) THEN tmp[t] ELSE bus.in
      /\ fails' \in fails .. env.fails
    BY <1>2, <1>4, <1>5, ArmInEffect
<1>7. BusTypes'
    BY <1>1, <1>4, <1>6 DEF BusTypes, BusSet
<1>8. DriverTypes'
    BY <1>0, <1>1, <1>4, <1>6 DEF DriverTypes
<1>9. pc' \in [Threads -> {"idle", "drain", "unlock", "pumpTx", "tx", "txArm"}]
    BY <1>0, <1>1 DEF RestTypes
<1>10. tmp' \in [Threads -> Seq(1 .. accepted)] /\ \A u \in Threads : Len(tmp'[u]) <= PacketSize
  <2>1. <<>> \in Seq(1 .. accepted) /\ Len(<<>>) <= PacketSize
    BY <1>0, EmptySeq, EnvTypes
  <2>2. QED  BY <1>0, <1>1, <2>1 DEF RestTypes
<1>11. busy' \in BOOLEAN
    BY <1>2, <1>4
<1>12. RestTypes'
    BY <1>0, <1>1, <1>9, <1>10, <1>11 DEF RestTypes
<1>13. QED  BY <1>1, <1>2, <1>3, <1>6, <1>7, <1>8, <1>12, TypePartsNext

(* The types grow with the number of accepted bytes.                        *)
LEMMA MoreBytes ==
    ASSUME NEW n \in Nat, NEW s
    PROVE  /\ s \in Seq(0 .. n) => s \in Seq(0 .. n + 1)
           /\ s \in Seq(1 .. n) => s \in Seq(1 .. n + 1)
<1>1. 0 .. n \subseteq 0 .. n + 1 /\ 1 .. n \subseteq 1 .. n + 1
    OBVIOUS
<1>2. QED  BY <1>1, SeqMonotonic

(* A write that has begun has a byte to write.                              *)
WriterHasByte == writer # "idle" => accepted < env.bytes

LEMMA WriteByteTypes ==
    ASSUME TypeOK, WriterHasByte, WriteByte
    PROVE  /\ TypeOK' /\ Waiting' = Waiting
           /\ UNCHANGED <<bus, last, ep0, t1z, busy, tmp, pc, orphaned>>
           /\ fails' \in fails .. env.fails
           /\ \/ UNCHANGED <<tx, accepted>>
              \/ tx' = Append(tx, accepted + 1) /\ accepted' = accepted + 1
<1>0. BusTypes /\ QueueTypes /\ DriverTypes /\ RestTypes
    BY TypeParts
<1>1. /\ txPend' = (txPend \/ writer # "early")
      /\ UNCHANGED <<bus, hw, env, moves, last, ring, evPend, owner, round, ep0, t1z, busy,
                     tmp, pc, orphaned>>
    BY DEF WriteByte, host, worker
<1>2. QueueTypes' /\ Waiting' = Waiting
    BY <1>0, <1>1 DEF QueueTypes, Waiting
<1>3. /\ bus \in BusSet(accepted) /\ fails \in Nat /\ env.fails \in Nat /\ fails <= env.fails
      /\ accepted \in Nat /\ tx \in Seq(1 .. accepted) /\ Len(tx) \in Nat
      /\ TxRingSize \in Nat /\ env.bytes \in Nat /\ txPend' \in BOOLEAN
    BY <1>0, <1>1, EnvTypes, LenProperties DEF BusTypes, DriverTypes, RestTypes
<1>4. CASE /\ UNCHANGED <<tx, accepted>> /\ fails' \in fails .. env.fails
           /\ writer' = IF writer = "ready" THEN "retry" ELSE "idle"
  <2>1. BusTypes' /\ DriverTypes'
    BY <1>0, <1>1, <1>3, <1>4 DEF BusTypes, BusSet, DriverTypes
  <2>2. writer' \in {"idle", "early", "ready", "retry"}
    BY <1>4
  <2>3. RestTypes'
    BY <1>0, <1>1, <1>3, <1>4, <2>2 DEF RestTypes
  <2>4. QED  BY <1>1, <1>2, <1>4, <2>1, <2>3, TypePartsNext
<1>5. CASE Room /\ tx' = Append(tx, accepted + 1) /\ accepted' = accepted + 1
           /\ writer' = "idle" /\ UNCHANGED fails
  <2>1. fails' \in fails .. env.fails /\ DriverTypes'
    BY <1>0, <1>1, <1>3, <1>5 DEF DriverTypes
  <2>2. bus \in BusSet(accepted + 1)
    <3>1. bus.in \in Seq(0 .. accepted + 1)
      BY <1>3, MoreBytes DEF BusSet
    <3>2. QED  BY <1>3, <3>1 DEF BusSet
  <2>3. BusTypes'
    BY <1>0, <1>1, <1>5, <2>2 DEF BusTypes, BusSet
  <2>4. tx' \in Seq(1 .. accepted') /\ Len(tx') = Len(tx) + 1
    <3>1. tx \in Seq(1 .. accepted + 1) /\ accepted + 1 \in 1 .. accepted + 1
      BY <1>3, MoreBytes
    <3>2. QED  BY <1>5, <3>1, AppendProperties
  <2>5. Len(tx') < TxRingSize
    BY <1>3, <1>5, <2>4 DEF Room
  <2>6. tmp' \in [Threads -> Seq(1 .. accepted')]
    <3>1. tmp \in [Threads -> Seq(1 .. accepted)]
      BY <1>0 DEF RestTypes
    <3>2. \A u \in Threads : tmp[u] \in Seq(1 .. accepted + 1)
      BY <1>3, <3>1, MoreBytes
    <3>3. QED  BY <1>1, <1>5, <3>1, <3>2
  <2>7. last' \in 0 .. accepted'
    BY <1>0, <1>1, <1>3, <1>5 DEF RestTypes
  <2>8. accepted' \in 0 .. env.bytes
    <3>1. accepted < env.bytes
      BY DEF WriterHasByte, WriteByte
    <3>2. QED  BY <1>3, <1>5, <3>1
  <2>9. RestTypes'
    BY <1>0, <1>1, <1>3, <1>5, <2>4, <2>5, <2>6, <2>7, <2>8 DEF RestTypes
  <2>10. QED  BY <1>1, <1>2, <1>5, <2>1, <2>3, <2>9, TypePartsNext
<1>6. CASE /\ ~Room /\ UNCHANGED fails /\ UNCHANGED <<tx, accepted>>
           /\ writer' = IF writer = "ready" THEN "retry" ELSE "idle"
  <2>1. fails' \in fails .. env.fails
    BY <1>3, <1>6
  <2>2. QED  BY <1>4, <1>6, <2>1
<1>7. CASE /\ Failing(1) /\ UNCHANGED <<tx, accepted>>
           /\ writer' = IF writer = "ready" THEN "retry" ELSE "idle"
  <2>1. fails' \in fails .. env.fails
    BY <1>3, <1>7 DEF Failing
  <2>2. QED  BY <1>4, <1>7, <2>1
<1>8. QED  BY <1>5, <1>6, <1>7 DEF WriteByte

(***************************************************************************)
(* The steps of the system, by effect.                                      *)
(***************************************************************************)
LEMMA StepKinds ==
    ASSUME TypeOK, Next
    PROVE  \/ \E e \in Events : HostKept(e)
           \/ \E t \in Threads : xzs_t1y_process_event(t) \/ TxTake(t) \/ TxArm(t)
           \/ WriteByte \/ Aside
<1>1. CASE Host
    BY <1>1, HostSteps
<1>2. CASE xzs_usb_irq_handler \/ WriteBegin
    BY <1>2, IrqAside, WriteBeginAside
<1>3. ASSUME NEW t \in Threads, EventWorker(t) \/ Transmit(t)
      PROVE  xzs_t1y_process_event(t) \/ TxTake(t) \/ TxArm(t) \/ Aside
    BY <1>3, RoundEndAside, DropAside DEF EventWorker, Transmit
<1>4. ASSUME NEW t \in CallThreads, CallThread(t)
      PROVE  xzs_t1y_process_event(t) \/ TxTake(t) \/ TxArm(t) \/ Aside
    BY <1>3, <1>4, EventCallAside, LabelAside DEF CallThread, Threads
<1>5. ASSUME NEW t \in Pumps, Pump(t)
      PROVE  xzs_t1y_process_event(t) \/ TxTake(t) \/ TxArm(t) \/ Aside
    BY <1>3, <1>5, PumpBeginAside, LabelAside DEF Pump, Threads
<1>6. QED  BY <1>1, <1>2, <1>4, <1>5 DEF Next, Threads

LEMMA WriterStep == ASSUME TypeOK, WriterHasByte, Next PROVE WriterHasByte'
<1>1. CASE UNCHANGED <<writer, accepted, env>>
    BY <1>1 DEF WriterHasByte
<1>2. CASE WriteBegin
    BY <1>2 DEF WriteBegin, WriterHasByte, host
<1>3. CASE WriteByte
    BY <1>3 DEF WriteByte, WriterHasByte, host
<1>4. ASSUME NEW t \in Threads,
             EventWorker(t) \/ Transmit(t) \/ EventCall(t) \/ TxCall(t) \/ PumpBegin(t)
             \/ PumpTx(t)
      PROVE  UNCHANGED <<writer, accepted, env>>
    BY <1>4 DEF EventWorker, Transmit, EventCall, TxCall, PumpBegin, PumpTx, TxTake, TxArm,
       xzs_t1y_process_event, RoundEnd, DropWorkerLock, host, out
<1>5. CASE Host
    BY <1>5, HostSteps, HostKeepsTypes DEF HostKept, Post, out, WriterHasByte
<1>6. CASE xzs_usb_irq_handler
    BY <1>6 DEF xzs_usb_irq_handler, host, out, WriterHasByte
<1>7. QED
    BY <1>1, <1>2, <1>3, <1>4, <1>5, <1>6 DEF Next, CallThread, Pump, Threads

LEMMA InitTypes == Init => TypeOK /\ WriterHasByte
<1> SUFFICES ASSUME Init PROVE TypeOK /\ WriterHasByte
    OBVIOUS
<1>1. /\ env \in Envs /\ moves = 0 /\ last = 0 /\ accepted = 0 /\ fails = 0 /\ round = 0
      /\ owner = None /\ evPend = FALSE /\ txPend = FALSE /\ busy = FALSE /\ orphaned = FALSE
      /\ hw = <<>> /\ ring = <<>> /\ tx = <<>> /\ writer = "idle" /\ t1z = IdleSession
      /\ tmp = [t \in Threads |-> <<>>] /\ pc = [t \in Threads |-> "idle"]
    BY DEF Init
<1>2. env.moves \in Seq(SUBSET Moves) /\ env.bytes \in Nat /\ env.fails \in Nat
    BY <1>1, UsbAssumption
<1>3. Len(env.moves) \in Nat
    BY <1>2, LenProperties
<1>4. \A S : <<>> \in Seq(S) /\ Len(<<>>) = 0
    BY EmptySeq
<1>5. /\ PacketSize \in Nat /\ HwEvents \in Nat /\ EventRingSize \in Nat \ {0}
      /\ TxRingSize \in Nat \ {0} /\ Rounds \in Nat \ {0} /\ MaxOuts \in Nat
    BY UsbAssumption
<1>6. BusTypes
  <2>1. bus = [trb |-> "setup", stage |-> "none", out |-> FALSE, in |-> <<>>,
               host |-> "default", want |-> "default", outs |-> 0]
    BY DEF Init
  <2>2. 0 \in 0 .. MaxOuts /\ bus.in = <<>>
    BY <1>5, <2>1
  <2>3. bus \in BusSet(accepted)
    BY <1>4, <2>1, <2>2 DEF BusSet
  <2>4. QED  BY <1>4, <1>5, <2>2, <2>3 DEF BusTypes
<1>7. QueueTypes
    BY <1>1, <1>4, <1>5 DEF QueueTypes
<1>8. DriverTypes
  <2>1. ep0 = [state |-> "setup", armed |-> TRUE, config |-> FALSE,
               pending |-> 0, value |-> 0, configured |-> FALSE]
    BY DEF Init
  <2>2. 0 \in 0 .. 1 /\ fails \in 0 .. env.fails
    BY <1>1, <1>2
  <2>3. ep0 \in Ep0Set
    BY <2>1, <2>2 DEF Ep0Set
  <2>4. t1z \in SessionSet
    BY <1>1 DEF IdleSession, SessionSet
  <2>5. QED  BY <2>2, <2>3, <2>4 DEF DriverTypes
<1>9. RestTypes
  <2>1. /\ moves \in 0 .. Len(env.moves) /\ round \in 0 .. Rounds - 1
        /\ accepted \in 0 .. env.bytes /\ last \in 0 .. accepted
    BY <1>1, <1>2, <1>3, <1>5
  <2>2. tx \in Seq(1 .. accepted) /\ Len(tx) < TxRingSize
    BY <1>1, <1>4, <1>5
  <2>3. /\ tmp \in [Threads -> Seq(1 .. accepted)]
        /\ \A t \in Threads : Len(tmp[t]) <= PacketSize
    BY <1>1, <1>4, <1>5
  <2>4. QED  BY <1>1, <2>1, <2>2, <2>3 DEF RestTypes
<1>10. QED  BY <1>1, <1>6, <1>7, <1>8, <1>9, TypeParts DEF WriterHasByte

LEMMA TypeStep ==
    ASSUME TypeOK /\ WriterHasByte, [Next]_vars
    PROVE  TypeOK' /\ WriterHasByte'
<1>1. CASE UNCHANGED vars
  <2>1. UNCHANGED <<bus, hw, env, moves, last, ring, evPend, txPend, owner, round, ep0, t1z,
                    tx, accepted, busy, tmp, writer, pc, fails, orphaned>>
    BY <1>1 DEF vars, host, calls, worker, out
  <2>2. QED  BY <2>1 DEF TypeOK, WriterHasByte
<1>2. CASE Next
  <2>1. WriterHasByte'
    BY <1>2, WriterStep
  <2>2. TypeOK'
    BY <1>2, StepKinds, HostKeepsTypes, EventEffect, TxTakeTypes, TxArmTypes, WriteByteTypes
       DEF Aside
  <2>3. QED  BY <2>1, <2>2
<1>3. QED  BY <1>1, <1>2

(***************************************************************************)
(* The variables have their types: no ring overflows, no packet is larger   *)
(* than a transfer, and nothing is sent that the ring did not accept.       *)
(***************************************************************************)
THEOREM ConsoleTypes == Spec => []TypeOK
<1>1. TypeOK /\ WriterHasByte /\ [Next]_vars => (TypeOK /\ WriterHasByte)'
    BY TypeStep
<1>2. QED  BY <1>1, InitTypes, PTL DEF Spec
(***************************************************************************)
(* The bulk session: nothing of it is set before its worker was entered, and *)
(* the bridge is up only when the handshake is done.                        *)
(***************************************************************************)
SessionShape ==
    /\ ~t1z.entered => t1z = IdleSession
    /\ t1z.bridge => t1z.phase = "done"

(* What the steps of the session do to its shape.                           *)
LEMMA SessionKept ==
    ASSUME t1z \in SessionSet, t1z' \in SessionSet, SessionShape, NEW e,
           SessionStep(e) \/ BulkStep(e) \/ t1z' = t1z \/ t1z' = IdleSession
    PROVE  SessionShape'
<1>1. IdleSession.bridge = FALSE /\ IdleSession.phase = "idle" /\ IdleSession.entered = FALSE
    BY DEF IdleSession
<1>2. CASE t1z' = t1z \/ t1z' = IdleSession
    BY <1>1, <1>2 DEF SessionShape
<1>3. CASE SessionStep(e)
  <2>1. CASE t1z' = [t1z EXCEPT !.ready = FALSE]
             \/ t1z' = [t1z EXCEPT !.ready = FALSE, !.eps = FALSE]
    <3>1. /\ t1z'.bridge = t1z.bridge /\ t1z'.phase = t1z.phase /\ t1z'.entered = t1z.entered
      BY <2>1 DEF SessionSet
    <3>2. ASSUME t1z = IdleSession PROVE t1z' = IdleSession
      <4>1. /\ t1z'.entered = FALSE /\ t1z'.failed = FALSE /\ t1z'.eps = FALSE
            /\ t1z'.phase = "idle" /\ t1z'.bridge = FALSE /\ t1z'.ready = FALSE
        BY <2>1, <3>2 DEF IdleSession
      <4>2. t1z' = [entered |-> t1z'.entered, failed |-> t1z'.failed, eps |-> t1z'.eps,
                    phase |-> t1z'.phase, bridge |-> t1z'.bridge, ready |-> t1z'.ready]
        BY DEF SessionSet
      <4>3. QED  BY <4>1, <4>2 DEF IdleSession
    <3>3. QED  BY <3>1, <3>2 DEF SessionShape
  <2>2. ASSUME ~t1z.entered, NEW w \in WorkerOutcomes, t1z' = xzs_t1z_worker(w)
        PROVE  SessionShape'
    <3>1. /\ t1z'.entered /\ t1z'.bridge = t1z.bridge
          /\ t1z'.phase = t1z.phase \/ t1z'.phase = "out1"
      BY <2>2, WorkerTypes
    <3>2. t1z.bridge = FALSE /\ t1z.phase = "idle"
      BY <1>1, <2>2 DEF SessionShape
    <3>3. QED  BY <3>1, <3>2 DEF SessionShape
  <2>3. QED  BY <1>2, <1>3, <2>1, <2>2 DEF SessionStep
<1>4. CASE BulkStep(e)
  <2>1. CASE OutTaken(e) \/ BulkIgnored(e) \/ InSent(e)
    BY <1>2, <2>1 DEF OutTaken, BulkIgnored, InSent
  <2>2. CASE t1z.eps /\ (OutAnswered(e) \/ SessionFails(e) \/ InAnswered(e))
    <3>1. t1z.entered
      BY <2>2 DEF SessionShape, IdleSession
    <3>2. t1z'.entered = t1z.entered
      BY <2>2 DEF OutAnswered, SessionFails, InAnswered
    <3>3. t1z'.bridge => t1z'.phase = "done"
      <4>1. CASE OutAnswered(e)
        BY <4>1 DEF OutAnswered, SessionShape
      <4>2. CASE SessionFails(e)
        BY <4>2 DEF SessionFails, SessionShape
      <4>3. CASE InAnswered(e)
        BY <4>3 DEF InAnswered, SessionShape
      <4>4. QED  BY <2>2, <4>1, <4>2, <4>3
    <3>4. QED  BY <3>1, <3>2, <3>3 DEF SessionShape
  <2>3. QED  BY <1>4, <2>1, <2>2 DEF BulkStep, OutAnswered, SessionFails, InAnswered
<1>5. QED  BY <1>2, <1>3, <1>4

LEMMA SessionStays ==
    ASSUME TypeOK, WriterHasByte, SessionShape, Next PROVE SessionShape'
<1>0. TypeOK' /\ t1z \in SessionSet /\ t1z' \in SessionSet
  <2>1. TypeOK'
    BY TypeStep
  <2>2. QED  BY <2>1, TypeParts, TypePartsNext DEF DriverTypes
<1>1. CASE UNCHANGED t1z
    BY <1>1 DEF SessionShape
<1>2. ASSUME NEW t \in Threads, xzs_t1y_process_event(t) PROVE SessionShape'
  <2>1. \/ SessionStep(Head(ring)) \/ BulkStep(Head(ring)) \/ t1z' = t1z \/ t1z' = IdleSession
    BY <1>2, EventEffect DEF Ep0Effect, ResetStep, DisconnectStep
  <2>2. QED  BY <1>0, <2>1, SessionKept
<1>3. QED
    BY <1>1, <1>2, StepKinds, HostKeepsTypes, TxTakeTypes, TxArmTypes, WriteByteTypes DEF Aside

(***************************************************************************)
(* Both endpoints listen.                                                   *)
(***************************************************************************)
SetupListens ==
    ep0.state = "setup" =>
        ep0.armed /\ (bus.trb = "setup" \/ \E r \in Requests : Contains(Waiting, r))

BulkListens ==
    t1z.bridge /\ t1z.eps =>
        bus.out \/ \E e \in {"outDone", "sample", "empty"} : Contains(Waiting, e)

LEMMA HostListens ==
    ASSUME TypeOK, EndpointsListen, NEW e \in Events, HostKept(e)
    PROVE  EndpointsListen'
<1>1. /\ Waiting' = Append(Waiting, e) /\ UNCHANGED <<ep0, t1z, fails>>
    BY HostKeepsTypes
<1>2. Waiting \in Seq(Events)
    BY TypeParts, WaitingTypes
<1>3. \A x : Contains(Waiting', x) <=> Contains(Waiting, x) \/ e = x
    BY <1>1, <1>2, AppendEvent
<1>4. SUFFICES ASSUME fails' = 0, ~Contains(Waiting', "reset")
               PROVE  SetupListens' /\ BulkListens'
    BY DEF EndpointsListen, SetupListens, BulkListens, OutEvents
<1>5. SetupListens /\ BulkListens /\ e # "reset"
    BY <1>1, <1>3, <1>4 DEF EndpointsListen, SetupListens, BulkListens, OutEvents
<1>6. SetupListens'
  <2>1. bus'.trb = bus.trb \/ bus.trb # "setup" \/ e \in Requests
    BY <1>5 DEF HostKept, HostMove, QuietMove, OutMove, InMove, ResetMove
  <2>2. QED  BY <1>1, <1>3, <1>5, <2>1 DEF SetupListens
<1>7. BulkListens'
  <2>1. bus'.out = bus.out \/ e \in {"outDone", "sample", "empty"}
    BY <1>5 DEF HostKept, HostMove, QuietMove, OutMove, InMove, ResetMove
  <2>2. QED  BY <1>1, <1>3, <1>5, <2>1 DEF BulkListens
<1>8. QED  BY <1>6, <1>7

LEMMA EventListens ==
    ASSUME TypeOK, SessionShape, EndpointsListen, NEW t \in Threads, xzs_t1y_process_event(t)
    PROVE  EndpointsListen'
<1> DEFINE e == Head(ring)
<1>1. /\ e \in Events /\ Waiting # <<>> /\ Head(Waiting) = e /\ Waiting' = Tail(Waiting)
      /\ \/ /\ Ep0Effect(e) /\ UNCHANGED busy
            /\ e \in Requests \cup {"dataDone", "statusDone", "notReady"}
         \/ BulkStep(e) /\ UNCHANGED <<ep0, orphaned>>
         \/ (ResetStep(e) \/ DisconnectStep(e)) /\ UNCHANGED busy
      /\ fails' \in fails .. env.fails
    BY EventEffect
<1> HIDE DEF e
<1>2. Waiting \in Seq(Events)
    BY TypeParts, WaitingTypes
<1>3. \A x : Contains(Waiting, x) <=> e = x \/ Contains(Waiting', x)
    BY <1>1, <1>2, HeadOrTail
<1>4. SUFFICES ASSUME fails' = 0, ~Contains(Waiting', "reset")
               PROVE  SetupListens' /\ BulkListens'
    BY DEF EndpointsListen, SetupListens, BulkListens, OutEvents
<1>5. /\ fails = 0 /\ t1z \in SessionSet /\ ep0 \in Ep0Set
      /\ IdleSession.bridge = FALSE
    BY <1>1, <1>4, TypeParts, EnvTypes DEF DriverTypes, IdleSession
<1>6. CASE /\ Ep0Effect(e)
           /\ e \in Requests \cup {"dataDone", "statusDone", "notReady"}
  <2>2. e \notin {"reset", "outDone", "sample", "empty"}
    BY <1>6 DEF Requests
  <2>3. SetupListens /\ BulkListens
    BY <1>3, <1>4, <1>5, <2>2 DEF EndpointsListen, SetupListens, BulkListens, OutEvents
  <2>4. SetupListens'
    BY <1>3, <1>4, <1>6, <2>3 DEF SetupListens, Ep0Effect
  <2>5. t1z'.bridge /\ t1z'.eps => t1z.bridge /\ t1z.eps
    <3>1. CASE t1z' = t1z \/ t1z' = [t1z EXCEPT !.ready = FALSE]
      BY <1>5, <3>1 DEF SessionSet
    <3>2. CASE t1z' = [t1z EXCEPT !.ready = FALSE, !.eps = FALSE]
      BY <1>5, <3>2 DEF SessionSet
    <3>3. ASSUME ~t1z.entered, NEW w \in WorkerOutcomes, t1z' = xzs_t1z_worker(w)
          PROVE  ~t1z'.bridge
      BY <1>5, <3>3, WorkerTypes DEF SessionShape
    <3>4. QED  BY <1>6, <3>1, <3>2, <3>3 DEF Ep0Effect, SessionStep
  <2>6. BulkListens'
    BY <1>3, <1>6, <2>2, <2>3, <2>5 DEF BulkListens, Ep0Effect
  <2>7. QED  BY <2>4, <2>6
<1>7. CASE BulkStep(e) /\ UNCHANGED ep0
  <2>1. bus'.trb = bus.trb /\ e \in {"outDone", "sample", "empty", "inDone"}
    BY <1>7 DEF BulkStep, OutTaken, OutAnswered, SessionFails, BulkIgnored, InSent, InAnswered
  <2>2. SetupListens /\ BulkListens /\ e \notin Requests
    BY <1>3, <1>4, <1>5, <2>1 DEF EndpointsListen, SetupListens, BulkListens, Requests,
       OutEvents
  <2>3. SetupListens'
    BY <1>3, <1>7, <2>1, <2>2 DEF SetupListens
  <2>4. BulkListens'
    <3>1. CASE OutTaken(e) \/ InAnswered(e)
      BY <1>4, <3>1 DEF OutTaken, InAnswered, BulkListens, SessionShape
    <3>2. CASE OutAnswered(e)
      BY <3>2 DEF OutAnswered, BulkListens, SessionShape
    <3>3. CASE SessionFails(e)
      BY <1>3, <2>2, <3>3 DEF SessionFails, BulkListens, SessionShape
    <3>4. CASE BulkIgnored(e)
      BY <3>4 DEF BulkIgnored, BulkListens
    <3>5. CASE InSent(e)
      BY <1>3, <2>2, <3>5 DEF InSent, BulkListens
    <3>6. QED  BY <1>7, <3>1, <3>2, <3>3, <3>4, <3>5 DEF BulkStep
  <2>5. QED  BY <2>3, <2>4
<1>8. CASE ResetStep(e)
    BY <1>4, <1>5, <1>8 DEF ResetStep, SetupListens, BulkListens
<1>9. CASE DisconnectStep(e)
  <2>1. SetupListens /\ BulkListens /\ e = "disconnect" /\ e \notin Requests
    BY <1>3, <1>4, <1>5, <1>9 DEF DisconnectStep, EndpointsListen, SetupListens, BulkListens,
       Requests, OutEvents
  <2>2. QED  BY <1>3, <1>9, <2>1 DEF DisconnectStep, SetupListens, BulkListens
<1>10. QED  BY <1>1, <1>6, <1>7, <1>8, <1>9

LEMMA StepListens ==
    ASSUME TypeOK, WriterHasByte, SessionShape, EndpointsListen, Next
    PROVE  EndpointsListen'
<1>1. ASSUME Waiting' = Waiting, t1z' = t1z, bus'.out = bus.out,
             fails' \in fails .. env.fails,
             (ep0' = ep0 /\ bus'.trb = bus.trb) \/ ep0'.state # "setup"
      PROVE  EndpointsListen'
  <2>1. fails' = 0 => fails = 0
    BY <1>1, TypeParts, EnvTypes DEF DriverTypes
  <2>2. QED  BY <1>1, <2>1 DEF EndpointsListen
<1>2. CASE Aside
    BY <1>1, <1>2 DEF Aside
<1>3. ASSUME NEW t \in Threads, TxTake(t) \/ TxArm(t) PROVE EndpointsListen'
    BY <1>1, <1>3, TxTakeTypes, TxArmTypes
<1>4. CASE WriteByte
    BY <1>1, <1>4, WriteByteTypes
<1>5. QED  BY <1>2, <1>3, <1>4, StepKinds, HostListens, EventListens

(***************************************************************************)
(* Whatever the host and the threads do, and however many events there are: *)
(* as long as no command failed, endpoint zero and, with the bridge up, the  *)
(* bulk OUT endpoint can be written to by the host, or what it wrote waits.  *)
(***************************************************************************)
THEOREM EndpointsAlwaysListen == Spec => []EndpointsListen
<1> DEFINE I == TypeOK /\ WriterHasByte /\ SessionShape /\ EndpointsListen
<1>1. Init => SessionShape /\ EndpointsListen
  <2>1. SUFFICES ASSUME Init PROVE SessionShape /\ EndpointsListen
    OBVIOUS
  <2>2. SessionShape
    BY <2>1 DEF Init, SessionShape, IdleSession
  <2>3. EndpointsListen
    BY <2>1 DEF Init, EndpointsListen, IdleSession
  <2>4. QED  BY <2>2, <2>3
<1>2. I /\ [Next]_vars => I'
  <2>1. CASE UNCHANGED vars
    BY <2>1, TypeStep DEF vars, host, calls, worker, out, SessionShape, EndpointsListen,
       Waiting
  <2>2. CASE Next
    BY <2>2, TypeStep, SessionStays, StepListens
  <2>3. QED  BY <2>1, <2>2
<1>3. QED  BY <1>1, <1>2, InitTypes, PTL DEF Spec
(***************************************************************************)
(* The transmitter. A worker holds a packet exactly while it is about to arm *)
(* it. Unless a transfer outlived its session, s_tx_busy is set only in a    *)
(* session that is up, and there is one IN transfer at a time: a packet held *)
(* by a worker, a transfer with the controller, or a completion that waits.  *)
(***************************************************************************)
PacketHeld == \A t \in Threads : tmp[t] # <<>> <=> pc[t] = "txArm"

BusyIsUp == busy /\ ~orphaned => t1z.eps /\ t1z.phase = "done"

HeldAlone ==
    /\ \A t \in Threads : pc[t] = "txArm" => busy /\ ~InOutstanding
    /\ \A t, u \in Threads : pc[t] = "txArm" /\ pc[u] = "txArm" => t = u

OneIn ==
    /\ bus.in # <<>> => ~Contains(Waiting, "inDone")
    /\ Once(Waiting, "inDone")

NoneYet ==
    t1z.phase \in {"idle", "out1", "out2"} \/ (t1z.phase = "done" /\ ~busy) => ~InOutstanding

OneTransfer == ~orphaned => HeldAlone /\ OneIn /\ NoneYet

TransferInv == PacketHeld /\ BusyIsUp /\ OneTransfer /\ BusyHasTransfer

(* A step that leaves the transmitter's state and takes nothing but maybe   *)
(* an outstanding transfer.                                                 *)
LEMMA TransferSame ==
    ASSUME TransferInv, ~orphaned' => ~orphaned, UNCHANGED <<tmp, busy>>,
           \A u \in Threads : pc'[u] = "txArm" <=> pc[u] = "txArm",
           ~orphaned' =>
               /\ t1z'.phase = t1z.phase
               /\ busy => t1z'.eps = t1z.eps
               /\ InOutstanding' => InOutstanding
               /\ busy => InOutstanding' = InOutstanding
               /\ OneIn'
    PROVE  TransferInv'
<1>1. PacketHeld'
    BY DEF TransferInv, PacketHeld
<1>2. BusyIsUp'
    BY DEF TransferInv, BusyIsUp
<1>3. OneTransfer'
    BY DEF TransferInv, OneTransfer, HeldAlone, NoneYet
<1>4. BusyHasTransfer'
    BY DEF TransferInv, BusyHasTransfer
<1>5. QED  BY <1>1, <1>2, <1>3, <1>4 DEF TransferInv

LEMMA HostTransfer ==
    ASSUME TypeOK, TransferInv, NEW e \in Events, HostKept(e)
    PROVE  TransferInv'
<1>1. Waiting' = Append(Waiting, e) /\ UNCHANGED <<t1z, busy, tmp, pc>>
    BY HostKeepsTypes
<1>2. Waiting \in Seq(Events)
    BY TypeParts, WaitingTypes
<1>3. /\ \A x : Contains(Waiting', x) <=> Contains(Waiting, x) \/ e = x
      /\ Once(Waiting, "inDone") /\ (e = "inDone" => ~Contains(Waiting, "inDone"))
            => Once(Waiting', "inDone")
    BY <1>1, <1>2, AppendEvent
<1>4. ~orphaned' => ~orphaned
    BY DEF HostKept, HostMove, QuietMove, OutMove, InMove, ResetMove
<1>5. ASSUME ~orphaned'
      PROVE  /\ InOutstanding' => InOutstanding
             /\ busy => InOutstanding' = InOutstanding
             /\ OneIn'
  <2>0. OneIn
    BY <1>4, <1>5 DEF TransferInv, OneTransfer
  <2>1. CASE bus'.in = bus.in /\ e # "inDone"
    BY <1>3, <2>0, <2>1 DEF OneIn, InOutstanding
  <2>2. CASE InMove(e)
    BY <1>3, <2>0, <2>2 DEF InMove, OneIn, InOutstanding
  <2>3. CASE ResetMove(e)
    <3>1. ~busy
      BY <1>5, <2>3 DEF ResetMove
    <3>2. QED  BY <1>3, <2>0, <2>3, <3>1 DEF ResetMove, OneIn, InOutstanding
  <2>4. QED  BY <2>1, <2>2, <2>3 DEF HostKept, HostMove, QuietMove, OutMove
<1>6. QED  BY <1>1, <1>4, <1>5, TransferSame

LEMMA EventTransfer ==
    ASSUME TypeOK, SessionShape, TransferInv, NEW t \in Threads, xzs_t1y_process_event(t)
    PROVE  TransferInv'
<1> DEFINE e == Head(ring)
<1>1. /\ e \in Events /\ Waiting # <<>> /\ Head(Waiting) = e /\ Waiting' = Tail(Waiting)
      /\ \/ /\ Ep0Effect(e) /\ UNCHANGED busy
            /\ orphaned' = (orphaned \/ (e = "cfg0" /\ ep0.state = "setup" /\ busy))
            /\ e \in Requests \cup {"dataDone", "statusDone", "notReady"}
         \/ BulkStep(e) /\ UNCHANGED <<ep0, orphaned>>
         \/ (ResetStep(e) \/ DisconnectStep(e)) /\ UNCHANGED busy
      /\ UNCHANGED <<tmp, pc>>
    BY EventEffect DEF xzs_t1y_process_event
<1> HIDE DEF e
<1>2. Waiting \in Seq(Events) /\ t1z \in SessionSet
    BY TypeParts, WaitingTypes DEF DriverTypes
<1>3. /\ \A x : Contains(Waiting, x) <=> e = x \/ Contains(Waiting', x)
      /\ Once(Waiting, "inDone") =>
            Once(Waiting', "inDone") /\ (e = "inDone" => ~Contains(Waiting', "inDone"))
    BY <1>1, <1>2, HeadOrTail
<1>4. ~orphaned' => ~orphaned
    BY <1>1 DEF ResetStep, DisconnectStep
<1>5. ASSUME ~orphaned', bus'.in = bus.in, e # "inDone"
      PROVE  OneIn' /\ InOutstanding' = InOutstanding
    BY <1>3, <1>4, <1>5 DEF TransferInv, OneTransfer, OneIn, InOutstanding
<1>6. CASE /\ Ep0Effect(e) /\ UNCHANGED busy
           /\ orphaned' = (orphaned \/ (e = "cfg0" /\ ep0.state = "setup" /\ busy))
           /\ e \in Requests \cup {"dataDone", "statusDone", "notReady"}
  <2>1. bus'.in = bus.in /\ e # "inDone"
    BY <1>6 DEF Ep0Effect, Requests
  <2>2. CASE t1z'.phase = t1z.phase /\ (~orphaned' /\ busy => t1z'.eps = t1z.eps)
    BY <1>1, <1>4, <1>5, <1>6, <2>1, <2>2, TransferSame
  <2>3. CASE t1z.phase = "idle" /\ t1z'.phase \in {"idle", "out1"}
    <3>1. ~orphaned' => ~busy /\ ~InOutstanding /\ OneIn' /\ ~InOutstanding'
      BY <1>4, <1>5, <2>1, <2>3 DEF TransferInv, BusyIsUp, OneTransfer, NoneYet
    <3>2. QED
      BY <1>1, <1>4, <1>6, <2>3, <3>1 DEF TransferInv, PacketHeld, BusyIsUp, OneTransfer,
         HeldAlone, NoneYet, BusyHasTransfer
  <2>4. QED
    <3>1. CASE t1z' = t1z \/ t1z' = [t1z EXCEPT !.ready = FALSE]
      <4>1. t1z'.phase = t1z.phase /\ t1z'.eps = t1z.eps
        BY <1>2, <3>1 DEF SessionSet
      <4>2. QED  BY <2>2, <4>1
    <3>2. CASE /\ e = "cfg0" /\ ep0.state = "setup"
               /\ t1z' = [t1z EXCEPT !.ready = FALSE, !.eps = FALSE]
      <4>1. t1z'.phase = t1z.phase
        BY <1>2, <3>2 DEF SessionSet
      <4>2. QED  BY <1>6, <2>2, <3>2, <4>1
    <3>3. ASSUME ~t1z.entered, NEW w \in WorkerOutcomes, t1z' = xzs_t1z_worker(w)
          PROVE  TransferInv'
      <4>1. t1z.phase = "idle"
        BY <3>3 DEF SessionShape, IdleSession
      <4>2. t1z'.phase = t1z.phase \/ t1z'.phase = "out1"
        BY <1>2, <3>3, WorkerTypes
      <4>3. QED  BY <2>3, <4>1, <4>2
    <3>4. QED  BY <1>6, <3>1, <3>2, <3>3 DEF Ep0Effect, SessionStep
<1>7. CASE BulkStep(e) /\ UNCHANGED orphaned
  <2>1. CASE e # "inDone" /\ bus'.in = bus.in /\ UNCHANGED busy
             /\ t1z'.phase = t1z.phase /\ t1z'.eps = t1z.eps
    BY <1>1, <1>4, <1>5, <2>1, TransferSame
  <2>2. CASE OutAnswered(e)
    <3>1. ~orphaned' => /\ ~busy /\ ~InOutstanding /\ ~Contains(Waiting', "inDone")
                        /\ Once(Waiting', "inDone")
      BY <1>3, <1>4, <2>2 DEF OutAnswered, TransferInv, BusyIsUp, OneTransfer, NoneYet,
         OneIn, InOutstanding
    <3>2. busy' = busy /\ t1z'.phase \in {"in1", "in2"}
      BY <2>2 DEF OutAnswered
    <3>3. QED
      BY <1>1, <1>4, <3>1, <3>2 DEF TransferInv, PacketHeld, BusyIsUp, OneTransfer,
         HeldAlone, NoneYet, OneIn, BusyHasTransfer
  <2>3. ASSUME ~orphaned, e = "inDone"
        PROVE  /\ ~Contains(Waiting', "inDone") /\ Once(Waiting', "inDone")
               /\ bus.in = <<>> /\ InOutstanding
               /\ \A u \in Threads : pc[u] # "txArm"
               /\ t1z.phase \in {"in1", "in2"} \/ (t1z.phase = "done" /\ busy)
    <3>1. Contains(Waiting, "inDone") /\ InOutstanding
      BY <1>3, <2>3 DEF InOutstanding
    <3>2. t1z.phase \in {"idle", "out1", "in1", "out2", "in2", "done"}
      BY <1>2 DEF SessionSet
    <3>3. QED
      BY <1>3, <2>3, <3>1, <3>2 DEF TransferInv, OneTransfer, HeldAlone, OneIn, NoneYet
  <2>4. ASSUME e = "inDone", bus'.in = bus.in, ~orphaned' => ~busy'
        PROVE  TransferInv'
    <3>1. ~orphaned' => ~InOutstanding' /\ Once(Waiting', "inDone") /\ bus'.in = <<>>
      BY <1>4, <2>3, <2>4 DEF InOutstanding
    <3>2. QED
      BY <1>1, <1>4, <2>3, <2>4, <3>1 DEF TransferInv, PacketHeld, BusyIsUp, OneTransfer,
         HeldAlone, NoneYet, OneIn, BusyHasTransfer
  <2>5. CASE SessionFails(e) /\ e = "inDone"
    <3>1. ~orphaned' => ~busy'
      BY <1>4, <2>3, <2>5 DEF SessionFails, TransferInv, BusyIsUp
    <3>2. QED  BY <2>4, <2>5, <3>1 DEF SessionFails
  <2>6. CASE BulkIgnored(e) /\ e = "inDone"
    <3>1. ~orphaned' => ~busy'
      BY <1>4, <2>6 DEF BulkIgnored, TransferInv, BusyIsUp
    <3>2. QED  BY <2>4, <2>6, <3>1 DEF BulkIgnored
  <2>7. CASE InSent(e)
    BY <2>4, <2>7 DEF InSent
  <2>8. CASE InAnswered(e)
    <3>1. ~orphaned' => ~busy'
      BY <1>4, <2>8 DEF InAnswered, TransferInv, BusyIsUp
    <3>2. QED  BY <2>4, <2>8, <3>1 DEF InAnswered
  <2>9. CASE OutTaken(e)
    BY <2>1, <2>9 DEF OutTaken
  <2>10. CASE SessionFails(e) /\ e # "inDone"
    BY <2>1, <2>10 DEF SessionFails
  <2>11. CASE BulkIgnored(e) /\ e # "inDone"
    BY <2>1, <2>11 DEF BulkIgnored
  <2>12. QED
    BY <1>7, <2>2, <2>5, <2>6, <2>7, <2>8, <2>9, <2>10, <2>11 DEF BulkStep
<1>8. CASE ResetStep(e) /\ UNCHANGED busy
  <2>1. bus'.in = bus.in /\ e # "inDone" /\ t1z'.phase = "idle"
    BY <1>8 DEF ResetStep, IdleSession
  <2>2. ~orphaned' => ~busy /\ ~InOutstanding /\ OneIn' /\ ~InOutstanding'
    BY <1>5, <1>8, <2>1 DEF ResetStep
  <2>3. QED
    BY <1>1, <1>4, <1>8, <2>1, <2>2 DEF TransferInv, PacketHeld, BusyIsUp, OneTransfer,
       HeldAlone, NoneYet, BusyHasTransfer
<1>9. CASE DisconnectStep(e) /\ UNCHANGED busy
  <2>1. bus'.in = bus.in /\ e # "inDone" /\ t1z' = t1z
    BY <1>9 DEF DisconnectStep
  <2>2. QED  BY <1>1, <1>4, <1>5, <1>9, <2>1, TransferSame
<1>10. QED  BY <1>1, <1>6, <1>7, <1>8, <1>9
LEMMA TakeTransfer ==
    ASSUME TypeOK, SessionShape, TransferInv, NEW t \in Threads, TxTake(t)
    PROVE  TransferInv'
<1>1. /\ pc[t] = "tx" /\ Waiting' = Waiting /\ UNCHANGED <<bus, t1z>>
      /\ \/ PacketTaken(t)
         \/ UNCHANGED <<tx, busy, tmp, orphaned>> /\ pc' = [pc EXCEPT ![t] = "idle"]
    BY TxTakeTypes
<1>2. InOutstanding' = InOutstanding /\ (OneIn => OneIn')
    BY <1>1 DEF InOutstanding, OneIn
<1>3. /\ pc \in [Threads -> {"idle", "drain", "unlock", "pumpTx", "tx", "txArm"}]
      /\ tmp \in [Threads -> Seq(1 .. accepted)] /\ tx \in Seq(1 .. accepted)
    BY TypeParts DEF RestTypes
<1>4. CASE UNCHANGED <<tx, busy, tmp, orphaned>> /\ pc' = [pc EXCEPT ![t] = "idle"]
  <2>1. \A u \in Threads : pc'[u] = "txArm" <=> pc[u] = "txArm"
    BY <1>1, <1>3, <1>4
  <2>2. ~orphaned' => OneIn'
    BY <1>2, <1>4 DEF TransferInv, OneTransfer
  <2>3. QED  BY <1>1, <1>2, <1>4, <2>1, <2>2, TransferSame
<1>5. CASE PacketTaken(t)
  <2>1. PICK n \in 1 .. Len(tx) :
            tmp' = [tmp EXCEPT ![t] = SubSeq(tx, 1, n)] /\ tx' = SubSeq(tx, n + 1, Len(tx))
    BY <1>5 DEF PacketTaken
  <2>2. SubSeq(tx, 1, n) # <<>>
    <3>1. n \in 0 .. Len(tx) /\ n # 0
      BY <1>3, <2>1, LenProperties
    <3>2. Len(SubSeq(tx, 1, n)) = n
      BY <1>3, <3>1, SplitSeq
    <3>3. QED  BY <3>1, <3>2, EmptySeq
  <2>3. ~busy /\ busy' = TRUE /\ pc' = [pc EXCEPT ![t] = "txArm"]
    BY <1>5 DEF PacketTaken
  <2>4. ~orphaned' => ~orphaned /\ t1z.eps /\ t1z.phase = "done"
    BY <1>5 DEF PacketTaken, SessionShape
  <2>5. ~orphaned' =>
            ~InOutstanding /\ OneIn' /\ \A u \in Threads : pc[u] # "txArm"
    BY <1>2, <2>3, <2>4 DEF TransferInv, OneTransfer, HeldAlone, NoneYet
  <2>6. PacketHeld'
    BY <1>1, <1>3, <2>1, <2>2, <2>3 DEF TransferInv, PacketHeld
  <2>7. BusyIsUp'
    BY <1>1, <2>4 DEF BusyIsUp
  <2>8. OneTransfer'
    <3>1. ASSUME ~orphaned' PROVE HeldAlone'
      BY <1>2, <1>3, <2>3, <2>5, <3>1 DEF HeldAlone
    <3>2. ASSUME ~orphaned' PROVE NoneYet'
      BY <1>2, <2>5, <3>2 DEF NoneYet
    <3>3. QED  BY <2>5, <3>1, <3>2 DEF OneTransfer
  <2>9. BusyHasTransfer'
    <3>1. pc'[t] = "txArm"
      BY <1>3, <2>3
    <3>2. QED  BY <3>1 DEF BusyHasTransfer
  <2>10. QED  BY <2>6, <2>7, <2>8, <2>9 DEF TransferInv
<1>6. QED  BY <1>1, <1>4, <1>5

LEMMA ArmTransfer ==
    ASSUME TypeOK, TransferInv, NEW t \in Threads, TxArm(t)
    PROVE  TransferInv'
<1>1. /\ pc[t] = "txArm" /\ Waiting' = Waiting /\ UNCHANGED <<t1z, orphaned>>
      /\ tmp' = [tmp EXCEPT ![t] = <<>>] /\ pc' = [pc EXCEPT ![t] = "idle"]
    BY TxArmTypes
<1>2. PICK ok \in BOOLEAN : /\ ok => bus.in = <<>>
                            /\ bus'.in = IF ok \/ bus.in # <<>> THEN tmp[t] ELSE bus.in
                            /\ busy' = (busy /\ ok)
  <2>1. tmp[t] # <<>>
    BY <1>1 DEF TransferInv, PacketHeld
  <2>2. QED  BY <2>1, TxArmTypes
<1>3. /\ pc \in [Threads -> {"idle", "drain", "unlock", "pumpTx", "tx", "txArm"}]
      /\ tmp \in [Threads -> Seq(1 .. accepted)]
    BY TypeParts DEF RestTypes
<1>4. PacketHeld'
    BY <1>1, <1>3 DEF TransferInv, PacketHeld
<1>5. BusyIsUp'
    BY <1>1, <1>2 DEF TransferInv, BusyIsUp
<1>6. ASSUME ~orphaned
      PROVE  /\ busy /\ ~Contains(Waiting, "inDone") /\ Once(Waiting, "inDone")
             /\ bus'.in = IF ok THEN tmp[t] ELSE <<>>
             /\ tmp[t] # <<>> /\ t1z.phase = "done"
             /\ \A u \in Threads : pc'[u] # "txArm"
  <2>1. busy /\ ~InOutstanding /\ Once(Waiting, "inDone")
    BY <1>1, <1>6 DEF TransferInv, OneTransfer, HeldAlone, OneIn
  <2>2. bus.in = <<>> /\ ~Contains(Waiting, "inDone")
    BY <2>1 DEF InOutstanding
  <2>3. tmp[t] # <<>>
    BY <1>1 DEF TransferInv, PacketHeld
  <2>4. \A u \in Threads : pc'[u] # "txArm"
    BY <1>1, <1>3, <1>6 DEF TransferInv, OneTransfer, HeldAlone
  <2>5. t1z.phase = "done"
    BY <1>6, <2>1 DEF TransferInv, BusyIsUp
  <2>6. QED  BY <1>2, <2>1, <2>2, <2>3, <2>4, <2>5
<1>7. InOutstanding' <=> bus'.in # <<>> \/ Contains(Waiting, "inDone")
    BY <1>1 DEF InOutstanding
<1>8. OneTransfer'
  <2>1. ASSUME ~orphaned' PROVE HeldAlone'
    BY <1>1, <1>6, <2>1 DEF HeldAlone
  <2>2. ASSUME ~orphaned' PROVE OneIn'
    BY <1>1, <1>6, <2>2 DEF OneIn
  <2>3. ASSUME ~orphaned' PROVE NoneYet'
    BY <1>1, <1>2, <1>6, <1>7, <2>3 DEF NoneYet
  <2>4. QED  BY <2>1, <2>2, <2>3 DEF OneTransfer
<1>9. BusyHasTransfer'
    BY <1>1, <1>2, <1>6, <1>7 DEF BusyHasTransfer
<1>10. QED  BY <1>4, <1>5, <1>8, <1>9 DEF TransferInv

LEMMA TransferStays ==
    ASSUME TypeOK, WriterHasByte, SessionShape, TransferInv, Next
    PROVE  TransferInv'
<1>1. ASSUME Waiting' = Waiting, bus'.in = bus.in, UNCHANGED <<t1z, busy, tmp, orphaned>>,
             \A u \in Threads : pc'[u] = "txArm" <=> pc[u] = "txArm"
      PROVE  TransferInv'
  <2>1. InOutstanding' = InOutstanding /\ (OneIn => OneIn')
    BY <1>1 DEF InOutstanding, OneIn
  <2>2. ~orphaned' => OneIn'
    BY <1>1, <2>1 DEF TransferInv, OneTransfer
  <2>3. QED  BY <1>1, <2>1, <2>2, TransferSame
<1>2. CASE Aside
    BY <1>1, <1>2 DEF Aside
<1>3. CASE WriteByte
    BY <1>1, <1>3, WriteByteTypes
<1>4. QED
    BY <1>2, <1>3, StepKinds, HostTransfer, EventTransfer, TakeTransfer, ArmTransfer

LEMMA InitTransfer == Init => SessionShape /\ TransferInv
<1>1. SUFFICES ASSUME Init PROVE SessionShape /\ TransferInv
    OBVIOUS
<1>2. SessionShape
    BY <1>1 DEF Init, SessionShape, IdleSession
<1>3. ~busy /\ \A t \in Threads : pc[t] = "idle" /\ tmp[t] = <<>>
    BY <1>1 DEF Init
<1>4. Waiting = <<>> /\ bus.in = <<>> /\ t1z.phase = "idle"
    BY <1>1 DEF Init, Waiting, IdleSession
<1>5. \A x : ~Contains(Waiting, x) /\ Once(Waiting, x)
    BY <1>4 DEF Contains, Once
<1>6. QED
    BY <1>2, <1>3, <1>4, <1>5 DEF TransferInv, PacketHeld, BusyIsUp, OneTransfer, HeldAlone,
       OneIn, NoneYet, InOutstanding, BusyHasTransfer

(***************************************************************************)
(* However many threads, bytes and events there are: in a session that no   *)
(* transfer outlived, s_tx_busy is set only while a packet is held, sent or  *)
(* its completion waits, so that somebody will clear it.                    *)
(***************************************************************************)
THEOREM BusyAlwaysHasTransfer == Spec => []BusyHasTransfer
<1> DEFINE I == TypeOK /\ WriterHasByte /\ SessionShape /\ TransferInv
<1>1. I /\ [Next]_vars => I'
  <2>1. CASE UNCHANGED vars
    <3>1. UNCHANGED <<bus, hw, ring, t1z, busy, tmp, pc, orphaned>>
      BY <2>1 DEF vars, out
    <3>2. QED
      BY <2>1, <3>1, TypeStep DEF SessionShape, TransferInv, PacketHeld, BusyIsUp,
         OneTransfer, HeldAlone, OneIn, NoneYet, InOutstanding, BusyHasTransfer, Waiting
  <2>2. CASE Next
    BY <2>2, TypeStep, SessionStays, TransferStays
  <2>3. QED  BY <2>1, <2>2
<1>2. I => BusyHasTransfer
    BY DEF TransferInv
<1>3. QED  BY <1>1, <1>2, InitTypes, InitTransfer, PTL DEF Spec
(***************************************************************************)
(* The order of the bytes. What has left the ring, to a worker, a transfer  *)
(* or the host, is below everything that is in it; and unless a transfer     *)
(* outlived its session, what is on its way is above what the host has read. *)
(***************************************************************************)
Sent(b) == \E i \in 1 .. Len(bus.in) : bus.in[i] = b

Taken(b) == \E t \in Threads : \E i \in 1 .. Len(tmp[t]) : tmp[t][i] = b

Left(b) == b = last \/ Sent(b) \/ Taken(b)

RingSorted == \A i, j \in 1 .. Len(tx) : i < j => tx[i] < tx[j]

LeftFirst == \A b : Left(b) => \A j \in 1 .. Len(tx) : b < tx[j]

ReadFirst == ~orphaned => \A b : Taken(b) \/ (Sent(b) /\ b # Payload) => last < b

OrderInv == RingSorted /\ LeftFirst /\ ReadFirst

LEMMA ByteTypes ==
    ASSUME TypeOK
    PROVE  /\ accepted \in Nat /\ last \in 0 .. accepted
           /\ Len(tx) \in Nat /\ \A j \in 1 .. Len(tx) : tx[j] \in 1 .. accepted
           /\ \A b : Left(b) => b \in 0 .. accepted
<1>1. /\ accepted \in Nat /\ last \in 0 .. accepted /\ tx \in Seq(1 .. accepted)
      /\ bus.in \in Seq(0 .. accepted) /\ tmp \in [Threads -> Seq(1 .. accepted)]
    BY TypeParts, EnvTypes DEF RestTypes, BusTypes, BusSet
<1>2. Len(tx) \in Nat /\ \A j \in 1 .. Len(tx) : tx[j] \in 1 .. accepted
    BY <1>1, LenProperties, ElementOfSeq
<1>3. \A i \in 1 .. Len(bus.in) : bus.in[i] \in 0 .. accepted
    BY <1>1, ElementOfSeq
<1>4. ASSUME NEW t \in Threads, NEW i \in 1 .. Len(tmp[t]) PROVE tmp[t][i] \in 0 .. accepted
  <2>1. tmp[t] \in Seq(1 .. accepted)
    BY <1>1
  <2>2. tmp[t][i] \in 1 .. accepted
    BY <1>4, <2>1, ElementOfSeq
  <2>3. QED  BY <1>1, <2>2
<1>5. QED  BY <1>1, <1>2, <1>3, <1>4 DEF Left, Sent, Taken

(* A step that leaves the ring alone and sends at most the handshake.        *)
LEMMA OrderSame ==
    ASSUME TypeOK, OrderInv, tx' = tx, ~orphaned' => ~orphaned,
           \A b : Left(b)' => Left(b) \/ b = Payload,
           ~orphaned' => \A b : Taken(b)' \/ (Sent(b)' /\ b # Payload) => last' < b
    PROVE  OrderInv'
<1>1. RingSorted'
    BY DEF OrderInv, RingSorted
<1>2. \A j \in 1 .. Len(tx) : Payload < tx[j]
    BY ByteTypes DEF Payload
<1>3. LeftFirst'
    BY <1>2 DEF OrderInv, LeftFirst
<1>4. ReadFirst'
    BY DEF ReadFirst
<1>5. QED  BY <1>1, <1>3, <1>4 DEF OrderInv

LEMMA HostOrder ==
    ASSUME TypeOK, TransferInv, OrderInv, NEW e \in Events, HostKept(e)
    PROVE  OrderInv'
<1>1. UNCHANGED <<tx, tmp>>
    BY DEF HostKept, Post, out
<1>2. ~orphaned' => ~orphaned
    BY DEF HostKept, HostMove, QuietMove, OutMove, InMove, ResetMove
<1>3. \A b : Taken(b)' <=> Taken(b)
    BY <1>1 DEF Taken
<1>4. CASE last' = last /\ bus'.in \in {bus.in, <<>>}
  <2>1. \A b : Sent(b)' => Sent(b)
    BY <1>4 DEF Sent
  <2>2. QED  BY <1>1, <1>2, <1>3, <1>4, <2>1, OrderSame DEF OrderInv, ReadFirst, Left
<1>5. CASE InMove(e)
  <2>1. bus.in # <<>> /\ bus'.in = <<>>
        /\ last' = (IF Last(bus.in) = Payload THEN last ELSE Last(bus.in))
    BY <1>5 DEF InMove
  <2>2. Sent(Last(bus.in))
    <3>1. bus.in \in Seq(0 .. accepted) /\ accepted \in Nat
      BY TypeParts, EnvTypes DEF BusTypes, BusSet
    <3>2. Len(bus.in) \in 1 .. Len(bus.in) /\ Last(bus.in) = bus.in[Len(bus.in)]
      BY <2>1, <3>1, LastOfTransfer
    <3>3. QED  BY <3>2 DEF Sent
  <2>3. \A b : ~Sent(b)'
    BY <2>1 DEF Sent
  <2>4. ~orphaned' => \A b : ~Taken(b)
    <3>1. ~orphaned' => \A u \in Threads : tmp[u] = <<>>
      BY <1>2, <2>1 DEF TransferInv, OneTransfer, HeldAlone, PacketHeld, InOutstanding
    <3>2. QED  BY <3>1 DEF Taken
  <2>5. \A b : Left(b)' => Left(b)
    BY <1>3, <2>1, <2>2, <2>3 DEF Left
  <2>6. QED  BY <1>1, <1>2, <1>3, <2>3, <2>4, <2>5, OrderSame
<1>6. QED
    BY <1>4, <1>5 DEF HostKept, HostMove, QuietMove, OutMove, ResetMove

LEMMA EventOrder ==
    ASSUME TypeOK, OrderInv, NEW t \in Threads, xzs_t1y_process_event(t)
    PROVE  OrderInv'
<1>1. UNCHANGED <<tx, tmp, last>>
    BY DEF xzs_t1y_process_event, host
<1>2. bus'.in \in {bus.in, <<Payload>>} /\ (~orphaned' => ~orphaned)
    BY EventEffect DEF Ep0Effect, BulkStep, OutTaken, OutAnswered, SessionFails, BulkIgnored,
       InSent, InAnswered, ResetStep, DisconnectStep
<1>3. \A b : Taken(b)' <=> Taken(b)
    BY <1>1 DEF Taken
<1>4. \A b : Sent(b)' => Sent(b) \/ b = Payload
    BY <1>2 DEF Sent
<1>5. QED  BY <1>1, <1>2, <1>3, <1>4, OrderSame DEF OrderInv, ReadFirst, Left

LEMMA TakeOrder ==
    ASSUME TypeOK, OrderInv, NEW t \in Threads, TxTake(t)
    PROVE  OrderInv'
<1>1. /\ UNCHANGED <<bus, last>>
      /\ PacketTaken(t) \/ UNCHANGED <<tx, tmp, orphaned>>
    BY TxTakeTypes
<1>2. \A b : Sent(b)' <=> Sent(b)
    BY <1>1 DEF Sent
<1>3. CASE UNCHANGED <<tx, tmp, orphaned>>
  <2>1. \A b : Taken(b)' <=> Taken(b)
    BY <1>3 DEF Taken
  <2>2. QED  BY <1>1, <1>2, <1>3, <2>1, OrderSame DEF OrderInv, ReadFirst, Left
<1>4. CASE PacketTaken(t)
  <2>1. PICK n \in 1 .. Len(tx) :
            tmp' = [tmp EXCEPT ![t] = SubSeq(tx, 1, n)] /\ tx' = SubSeq(tx, n + 1, Len(tx))
    BY <1>4 DEF PacketTaken
  <2>2. /\ tx \in Seq(1 .. accepted) /\ tmp \in [Threads -> Seq(1 .. accepted)]
        /\ Len(tx) \in Nat /\ last \in Int
        /\ \A j \in 1 .. Len(tx) : tx[j] \in Int
    <3>1. tx \in Seq(1 .. accepted) /\ tmp \in [Threads -> Seq(1 .. accepted)]
      BY TypeParts DEF RestTypes
    <3>2. QED  BY <3>1, ByteTypes
  <2>3. n \in 0 .. Len(tx)
    BY <2>1, <2>2
  <2>4. /\ Len(SubSeq(tx, 1, n)) = n /\ \A i \in 1 .. n : SubSeq(tx, 1, n)[i] = tx[i]
        /\ Len(tx') = Len(tx) - n /\ \A i \in 1 .. Len(tx) - n : tx'[i] = tx[i + n]
    BY <2>1, <2>2, <2>3, SplitSeq
  <2>5. \A b : Taken(b)' => Taken(b) \/ \E i \in 1 .. n : b = tx[i]
    <3>1. SUFFICES ASSUME NEW b, NEW u \in Threads, NEW i \in 1 .. Len(tmp'[u]), tmp'[u][i] = b
                   PROVE  Taken(b) \/ \E k \in 1 .. n : b = tx[k]
      BY DEF Taken
    <3>2. CASE u = t
      <4>1. tmp'[u] = SubSeq(tx, 1, n)
        BY <2>1, <2>2, <3>2
      <4>2. QED  BY <2>4, <3>1, <4>1
    <3>3. CASE u # t
      <4>1. tmp'[u] = tmp[u]
        BY <2>1, <2>2, <3>3
      <4>2. QED  BY <3>1, <4>1 DEF Taken
    <3>4. QED  BY <3>2, <3>3
  <2>6. \A j \in 1 .. Len(tx) - n : j + n \in 1 .. Len(tx) /\ \A i \in 1 .. n : i < j + n
    BY <2>2, <2>3
  <2>7. RingSorted'
    <3>1. SUFFICES ASSUME NEW i \in 1 .. Len(tx'), NEW j \in 1 .. Len(tx'), i < j
                   PROVE  tx'[i] < tx'[j]
      BY DEF RingSorted
    <3>2. /\ i \in 1 .. Len(tx) - n /\ j \in 1 .. Len(tx) - n
          /\ i + n \in 1 .. Len(tx) /\ j + n \in 1 .. Len(tx)
      BY <2>4, <2>6
    <3>3. i + n < j + n
      BY <2>2, <2>3, <3>1, <3>2
    <3>4. tx[i + n] < tx[j + n]
      BY <3>2, <3>3 DEF OrderInv, RingSorted
    <3>5. QED  BY <2>4, <3>2, <3>4
  <2>8. LeftFirst'
    <3>1. SUFFICES ASSUME NEW b, Left(b)', NEW j \in 1 .. Len(tx') PROVE b < tx'[j]
      BY DEF LeftFirst
    <3>2. /\ tx'[j] = tx[j + n] /\ j + n \in 1 .. Len(tx)
          /\ \A i \in 1 .. n : i < j + n /\ i \in 1 .. Len(tx)
      BY <2>2, <2>3, <2>4, <2>6
    <3>3. CASE Left(b)
      BY <3>2, <3>3 DEF OrderInv, LeftFirst
    <3>4. CASE \E i \in 1 .. n : b = tx[i]
      BY <3>2, <3>4 DEF OrderInv, RingSorted
    <3>5. QED  BY <1>1, <1>2, <2>5, <3>1, <3>3, <3>4 DEF Left
  <2>9. ReadFirst'
    <3>1. ~orphaned' => ~orphaned
      BY <1>4 DEF PacketTaken
    <3>2. \A i \in 1 .. n : last < tx[i]
      <4>1. \A i \in 1 .. n : i \in 1 .. Len(tx)
        BY <2>2, <2>3
      <4>2. QED  BY <4>1 DEF OrderInv, LeftFirst, Left
    <3>3. QED  BY <1>1, <1>2, <2>5, <3>1, <3>2 DEF OrderInv, ReadFirst
  <2>10. QED  BY <2>7, <2>8, <2>9 DEF OrderInv
<1>5. QED  BY <1>1, <1>3, <1>4

LEMMA ArmOrder ==
    ASSUME TypeOK, OrderInv, NEW t \in Threads, TxArm(t)
    PROVE  OrderInv'
<1>1. /\ UNCHANGED <<tx, last, orphaned>> /\ tmp' = [tmp EXCEPT ![t] = <<>>]
      /\ bus'.in \in {bus.in, tmp[t]}
    BY TxArmTypes
<1>2. \A b : Taken(b)' => Taken(b)
  <2>1. tmp \in [Threads -> Seq(1 .. accepted)]
    BY TypeParts DEF RestTypes
  <2>2. \A u \in Threads : tmp'[u] \in {tmp[u], <<>>}
    BY <1>1, <2>1
  <2>3. QED  BY <2>2 DEF Taken
<1>3. \A b : Sent(b)' => Sent(b) \/ Taken(b)
    BY <1>1 DEF Sent, Taken
<1>4. QED  BY <1>1, <1>2, <1>3, OrderSame DEF OrderInv, ReadFirst, Left

LEMMA WriteOrder ==
    ASSUME TypeOK, WriterHasByte, OrderInv, WriteByte
    PROVE  OrderInv'
<1>1. /\ UNCHANGED <<bus, last, tmp, orphaned>>
      /\ UNCHANGED tx \/ tx' = Append(tx, accepted + 1)
    BY WriteByteTypes
<1>2. \A b : (Sent(b)' <=> Sent(b)) /\ (Taken(b)' <=> Taken(b))
    BY <1>1 DEF Sent, Taken
<1>3. CASE UNCHANGED tx
    BY <1>1, <1>2, <1>3, OrderSame DEF OrderInv, ReadFirst, Left
<1>4. CASE tx' = Append(tx, accepted + 1)
  <2>1. /\ accepted \in Nat /\ Len(tx) \in Nat /\ \A j \in 1 .. Len(tx) : tx[j] \in 1 .. accepted
        /\ \A b : Left(b) => b \in 0 .. accepted
    BY ByteTypes
  <2>2. tx \in Seq(1 .. accepted)
    BY TypeParts DEF RestTypes
  <2>3. /\ Len(tx') = Len(tx) + 1 /\ tx'[Len(tx) + 1] = accepted + 1
        /\ \A j \in 1 .. Len(tx) : tx'[j] = tx[j]
    <3>1. tx \in Seq(1 .. accepted + 1) /\ accepted + 1 \in 1 .. accepted + 1
      BY <2>1, <2>2, MoreBytes
    <3>2. QED  BY <1>4, <3>1, AppendProperties
  <2>4. \A j \in 1 .. Len(tx') : j \in 1 .. Len(tx) \/ j = Len(tx) + 1
    BY <2>1, <2>3
  <2>5. RingSorted'
    <3>1. SUFFICES ASSUME NEW i \in 1 .. Len(tx'), NEW j \in 1 .. Len(tx'), i < j
                   PROVE  tx'[i] < tx'[j]
      BY DEF RingSorted
    <3>2. i \in 1 .. Len(tx)
      BY <2>1, <2>3, <3>1
    <3>3. CASE j \in 1 .. Len(tx)
      BY <2>3, <3>1, <3>2, <3>3 DEF OrderInv, RingSorted
    <3>4. CASE j = Len(tx) + 1
      BY <2>1, <2>3, <3>2, <3>4
    <3>5. QED  BY <2>4, <3>3, <3>4
  <2>6. LeftFirst'
    <3>1. SUFFICES ASSUME NEW b, Left(b)', NEW j \in 1 .. Len(tx') PROVE b < tx'[j]
      BY DEF LeftFirst
    <3>2. Left(b)
      BY <1>1, <1>2, <3>1 DEF Left
    <3>3. CASE j \in 1 .. Len(tx)
      BY <2>3, <3>2, <3>3 DEF OrderInv, LeftFirst
    <3>4. CASE j = Len(tx) + 1
      <4>1. b \in 0 .. accepted
        BY <2>1, <3>2
      <4>2. QED  BY <2>1, <2>3, <3>4, <4>1
    <3>5. QED  BY <2>4, <3>3, <3>4
  <2>7. ReadFirst'
    BY <1>1, <1>2 DEF OrderInv, ReadFirst
  <2>8. QED  BY <2>5, <2>6, <2>7 DEF OrderInv
<1>5. QED  BY <1>1, <1>3, <1>4

LEMMA OrderStays ==
    ASSUME TypeOK, WriterHasByte, TransferInv, OrderInv, Next
    PROVE  OrderInv'
<1>1. CASE Aside
  <2>1. bus'.in = bus.in /\ UNCHANGED <<tx, tmp, last, orphaned>>
    BY <1>1 DEF Aside
  <2>2. QED
    BY <2>1, OrderSame DEF OrderInv, ReadFirst, Left, Sent, Taken
<1>2. QED
    BY <1>1, StepKinds, HostOrder, EventOrder, TakeOrder, ArmOrder, WriteOrder

LEMMA InitOrder == Init => OrderInv
<1>1. SUFFICES ASSUME Init PROVE OrderInv
    OBVIOUS
<1>2. tx = <<>> /\ bus.in = <<>> /\ \A t \in Threads : tmp[t] = <<>>
    BY <1>1 DEF Init
<1>3. Len(tx) = 0 /\ \A b : ~Sent(b) /\ ~Taken(b)
    BY <1>2 DEF Sent, Taken
<1>4. QED  BY <1>3 DEF OrderInv, RingSorted, LeftFirst, ReadFirst

(* The two invariants are what TxInOrder says.                               *)
LEMMA OrderSuffices ==
    ASSUME TypeOK, TransferInv, OrderInv
    PROVE  TxInOrder
<1> DEFINE sending == ToSet(bus.in) \ {Payload}
           taken == UNION {ToSet(tmp[t]) : t \in Threads}
<1>1. /\ tx \in Seq(1 .. accepted) /\ bus.in \in Seq(0 .. accepted)
      /\ tmp \in [Threads -> Seq(1 .. accepted)]
    BY TypeParts DEF RestTypes, BusTypes, BusSet
<1>2. /\ DOMAIN tx = 1 .. Len(tx) /\ DOMAIN bus.in = 1 .. Len(bus.in)
      /\ \A t \in Threads : DOMAIN tmp[t] = 1 .. Len(tmp[t])
    BY <1>1, LenProperties
<1>3. \A b \in sending : Sent(b) /\ b # Payload
    BY <1>2 DEF ToSet, Sent
<1>4. \A b \in taken : Taken(b) /\ \E t \in Threads : tmp[t] # <<>>
  <2>1. \A b \in taken : \E t \in Threads : \E i \in DOMAIN tmp[t] : tmp[t][i] = b
    BY DEF ToSet
  <2>2. \A b \in taken : Taken(b)
    BY <1>2, <2>1 DEF Taken
  <2>3. \A b : Taken(b) => \E t \in Threads : tmp[t] # <<>>
    BY <1>1, EmptySeq DEF Taken
  <2>4. QED  BY <2>2, <2>3
<1>5. \A c \in ToSet(tx) : \E j \in 1 .. Len(tx) : c = tx[j]
    BY <1>2 DEF ToSet
<1>6. ASSUME ~orphaned, \E t \in Threads : tmp[t] # <<>> PROVE sending = {}
  <2>1. bus.in = <<>>
    BY <1>6 DEF TransferInv, PacketHeld, OneTransfer, HeldAlone, InOutstanding
  <2>2. QED  BY <1>2, <2>1 DEF ToSet
<1>7. ~orphaned => \A t, u \in Threads : tmp[t] # <<>> /\ tmp[u] # <<>> => t = u
    BY DEF TransferInv, PacketHeld, OneTransfer, HeldAlone
<1> HIDE DEF sending, taken
<1>8. \A i, j \in DOMAIN tx : i < j => tx[i] < tx[j]
    BY <1>2 DEF OrderInv, RingSorted
<1>9. \A b \in {last} \cup sending \cup taken : \A c \in ToSet(tx) : b < c
    BY <1>3, <1>4, <1>5 DEF OrderInv, LeftFirst, Left
<1>10. ~orphaned => \A b \in sending : \A c \in taken : b < c
    BY <1>4, <1>6
<1>11. ~orphaned => \A b \in {last} : \A c \in sending \cup taken : b < c
    BY <1>3, <1>4 DEF OrderInv, ReadFirst
<1>12. QED  BY <1>7, <1>8, <1>9, <1>10, <1>11 DEF TxInOrder, sending, taken

(***************************************************************************)
(* However many threads run the transmit worker and however large ring and  *)
(* packets are: the ring stays in order, nothing that left it is in it, and  *)
(* unless a transfer outlived its session the host gets every byte at most   *)
(* once and in the order in which it was written.                           *)
(***************************************************************************)
THEOREM BytesStayInOrder == Spec => []TxInOrder
<1> DEFINE I == TypeOK /\ WriterHasByte /\ SessionShape /\ TransferInv /\ OrderInv
<1>1. I /\ [Next]_vars => I'
  <2>1. CASE UNCHANGED vars
    <3>1. UNCHANGED <<bus, hw, ring, t1z, busy, tmp, pc, orphaned, tx, last>>
      BY <2>1 DEF vars, out, host
    <3>2. (SessionShape /\ TransferInv => (SessionShape /\ TransferInv)')
      BY <3>1 DEF SessionShape, TransferInv, PacketHeld, BusyIsUp,
         OneTransfer, HeldAlone, OneIn, NoneYet, InOutstanding, BusyHasTransfer, Waiting
    <3>3. OrderInv => OrderInv'
      BY <3>1 DEF OrderInv, RingSorted, LeftFirst, ReadFirst, Left, Sent, Taken
    <3>4. QED  BY <2>1, <3>2, <3>3, TypeStep
  <2>2. CASE Next
    BY <2>2, TypeStep, SessionStays, TransferStays, OrderStays
  <2>3. QED  BY <2>1, <2>2
<1>2. I => TxInOrder
    BY OrderSuffices
<1>3. QED  BY <1>1, <1>2, InitTypes, InitTransfer, InitOrder, PTL DEF Spec
=============================================================================
