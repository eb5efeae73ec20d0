------------------------------ MODULE TouchScan ------------------------------
(***************************************************************************)
(* The touch driver of hid/SweetHID.cpp: xzs_touch_thread polls the         *)
(* Synaptics controller, SweetHIDTouch::touch turns contacts into digitizer *)
(* events.  The controller changes what it reports at any time; its          *)
(* attention line is cleared by reading F01, so a change between the read   *)
(* of the finger data and the read of F01 raises no further attention.      *)
(*                                                                         *)
(* Positions are x coordinates (y is treated alike but for the grip margin,  *)
(* which only x has), on a sensor with the panel's resolution, and one turn *)
(* of the loop applies all fingers in one step: no other thread calls  *)
(* sweet_hid_touch.                                                         *)
(***************************************************************************)
EXTENDS Integers, Sequences

CONSTANTS
    Fingers,        \* finger slots 0 .. n-1 the controller reports
    Envs,           \* what a boot may find: see env below
    Up,
    Positions,      \* where a finger may touch
    MaxX,           \* sensor_max_x, and the panel's width
    F11MaxX,        \* what Function $11 data is accepted up to (1200)
    Grip,           \* rejected margin at touch-down (12 pixels)
    Hyst,           \* first step of a move (24)
    Jitter,         \* a smaller move counts as none (4)
    Sub, MaxSteps,  \* subdivision of fast moves (48 pixels, 6 steps)
    HeldTicks,      \* turns without attention before a held finger is read (30)
    IdleTicks,      \* turns between idle status reads (64)
    MaxFails,       \* failed reads before all fingers are released (3)
    MaxContacts     \* bound: changes on the glass

ASSUME TouchAssumption ==
    /\ Fingers \subseteq Nat
    /\ Positions \subseteq Nat /\ Up \notin Positions
    /\ {MaxX, F11MaxX, Grip, Jitter, MaxContacts} \subseteq Nat
    /\ {Hyst, Sub, MaxSteps, HeldTicks, IdleTicks, MaxFails} \subseteq Nat \ {0}
    /\ Envs \subseteq [f12 : BOOLEAN, flaky : BOOLEAN, noMem : BOOLEAN]

(* The first step of a move is no longer than the others (24 and 48).       *)
ASSUME HystAssumption == Hyst <= Sub

VARIABLES
    env,        \* f12: the controller has Function $12, otherwise $11;
                \* flaky: I2C transfers may fail; noMem: IOHIDEvents may not
                \* be had.  Chosen once.
    glass,      \* finger -> its position, or Up
    attn,       \* attention (GPIO125 low)
    pc,         \* where the thread is
    noIrq,      \* no_irq_ticks, saturating at HeldTicks
    tick,       \* poll_tick modulo IdleTicks
    raw,        \* the finger data read, <<>> when the read failed
    active,     \* active_mask as a set
    lastX, moved,   \* per finger
    fails,      \* fail_streak
    fDown, fX,  \* SweetHIDTouch's state, which its events tell the clients
    sent,       \* finger -> the sweet_hid_touch calls of the last turn for it
    contacts    \* changes on the glass so far

sensor == <<env, glass, attn, contacts>>
scan == <<noIrq, tick, raw>>
track == <<active, lastX, moved, fails>>
hid == <<fDown, fX, sent>>
vars == <<sensor, pc, scan, track, hid>>

Init ==
    /\ env \in Envs
    /\ glass = [f \in Fingers |-> Up] /\ attn = FALSE /\ contacts = 0
    /\ pc = "top" /\ noIrq = 0 /\ tick = 0 /\ raw = <<>>
    /\ active = {} /\ fails = 0
    /\ lastX = [f \in Fingers |-> 0] /\ moved = [f \in Fingers |-> FALSE]
    /\ fDown = {} /\ fX = [f \in Fingers |-> 0]
    /\ sent = [f \in Fingers |-> <<>>]

(***************************************************************************)
(* The controller (external).                                              *)
(***************************************************************************)
Contact(f, p) ==
    /\ contacts < MaxContacts
    /\ glass[f] # p
    /\ glass' = [glass EXCEPT ![f] = p]
    /\ attn' = TRUE
    /\ contacts' = contacts + 1
    /\ UNCHANGED <<env, pc, scan, track, hid>>

(* Continuous reporting: attention again and again while a finger is there. *)
Report ==
    /\ \E f \in Fingers : glass[f] # Up
    /\ ~attn
    /\ attn' = TRUE
    /\ UNCHANGED <<env, glass, contacts, pc, scan, track, hid>>

(* Mutant: a held finger is read only on attention.                         *)
HeldNever(n) == n > HeldTicks

(***************************************************************************)
(* The loop, up to the finger data.                                        *)
(***************************************************************************)
HeldLong(n) == active # {} /\ n >= HeldTicks

SamplePin ==
    /\ pc = "top"
    /\ noIrq' = IF attn THEN 0 ELSE IF noIrq < HeldTicks THEN noIrq + 1 ELSE noIrq
    /\ tick' = (tick + 1) % IdleTicks
    /\ pc' = IF attn THEN "read"
             ELSE IF HeldLong(noIrq') \/ (active = {} /\ tick' = 0) THEN "status"
             ELSE "top"
    /\ UNCHANGED <<sensor, raw, track, hid>>

(* F01 without attention: what it reports decides, and is cleared.          *)
ReadStatus ==
    /\ pc = "status"
    /\ \/ /\ pc' = IF attn \/ HeldLong(noIrq) THEN "read" ELSE "top"
          /\ attn' = FALSE
       \/ /\ env.flaky
          /\ pc' = IF HeldLong(noIrq) THEN "read" ELSE "top"
          /\ UNCHANGED attn
    /\ UNCHANGED <<env, glass, contacts, scan, track, hid>>

ReadFingers ==
    /\ pc = "read"
    /\ noIrq' = 0
    /\ \/ raw' = <<glass>>
       \/ env.flaky /\ raw' = <<>>
    /\ pc' = IF env.f12 THEN "clear" ELSE "apply"
    /\ UNCHANGED <<sensor, tick, track, hid>>

ClearAttention ==
    /\ pc = "clear"
    /\ attn' \in {FALSE} \cup (IF env.flaky THEN {attn} ELSE {})
    /\ pc' = "apply"
    /\ UNCHANGED <<env, glass, contacts, scan, track, hid>>

(***************************************************************************)
(* What a turn reports.                                                    *)
(***************************************************************************)
Abs(n) == IF n < 0 THEN -n ELSE n
(* C division.                                                             *)
Quot(a, b) == IF a < 0 THEN -((-a) \div b) ELSE a \div b

(* Mutant: the number of steps is rounded down.                             *)
SubdivideCoarse(x0, x) ==
    LET dist == Abs(x - x0)
        want == dist \div Sub
        steps == IF want > MaxSteps THEN MaxSteps ELSE want
    IN  IF dist > Sub
        THEN [s \in 1 .. steps - 1 |-> x0 + Quot((x - x0) * s, steps)]
        ELSE <<>>

(* The steps of a jump from x0 to x that are sent before x itself.          *)
Subdivide(x0, x) ==
    LET dist == Abs(x - x0)
        want == (dist + Sub - 1) \div Sub
        steps == IF want > MaxSteps THEN MaxSteps ELSE want
    IN  IF dist > Sub
        THEN [s \in 1 .. steps - 1 |-> x0 + Quot((x - x0) * s, steps)]
        ELSE <<>>

(* Mutant: the steps are sent and the finger's own place is not.            *)
MovePathShort(x0, x, hasMoved) ==
    LET dist == Abs(x - x0)
        h == x0 + Quot((x - x0) * Hyst, dist)
    IN  IF ~hasMoved /\ dist > Hyst THEN <<h>> \o Subdivide(h, x)
                                    ELSE Subdivide(x0, x)

(* A finger that was active at x0: the hysteresis step, the subdivision, x.  *)
MovePath(x0, x, hasMoved) ==
    LET dist == Abs(x - x0)
        h == x0 + Quot((x - x0) * Hyst, dist)
    IN  IF ~hasMoved /\ dist > Hyst
        THEN <<h>> \o Subdivide(h, x) \o <<x>>
        ELSE Subdivide(x0, x) \o <<x>>

InGrip(x) == x < Grip \/ x > MaxX - Grip

(* The driver reads the second finger only when it already has it.          *)
Parsed == IF env.f12 THEN {f \in Fingers : f = 0 \/ (f = 1 /\ 1 \in active)}
                 ELSE Fingers

DownF12(x, f) == x # Up /\ x <= MaxX /\ (f \in active \/ ~InGrip(x))

DownF11(x) == x # Up /\ x <= F11MaxX

Down(g, f) == IF env.f12 THEN DownF12(g[f], f) ELSE DownF11(g[f])

Path(g, f) ==
    IF env.f12 /\ f \in active THEN MovePath(lastX[f], g[f], moved[f]) ELSE <<g[f]>>

(* Mutant: positions beyond the panel go out as they are.                   *)
ClampMissing(x) == x

(***************************************************************************)
(* SweetHIDTouch::touch for the calls of a turn: fingers in `down` are moved *)
(* along their calls, fingers in `up` released.  A call whose event cannot  *)
(* be allocated changes nothing, so what counts is the last that could.     *)
(***************************************************************************)
Clamp(x) == IF x > MaxX THEN MaxX ELSE x

LastDone(calls) ==
    IF env.noMem
    THEN {ok \in [Fingers -> 0 .. MaxSteps + 1] : \A f \in Fingers : ok[f] <= Len(calls[f])}
    ELSE {[f \in Fingers |-> Len(calls[f])]}

touch(down, up, calls) ==
    /\ sent' = calls
    /\ \E ok \in LastDone(calls) :
          LET done == {f \in Fingers : ok[f] > 0} IN
          /\ fDown' = (fDown \cup (down \cap done)) \ (up \cap done)
          /\ fX' = [f \in Fingers |-> IF f \in down \cap done
                                      THEN Clamp(calls[f][ok[f]]) ELSE fX[f]]

ApplyFingers ==
    /\ pc = "apply" /\ raw # <<>>
    /\ LET g == raw[1]
           down == {f \in Parsed : Down(g, f)}
           up == (Parsed \ down) \cap active
       IN  /\ active' = down
           /\ lastX' = [f \in Fingers |-> IF f \in down THEN g[f] ELSE lastX[f]]
           /\ moved' = [f \in Fingers |->
                 IF f \in down /\ f \in active
                 THEN moved[f] \/ (env.f12 /\ Abs(g[f] - lastX[f]) > Jitter)
                 ELSE IF f \in down \cup up THEN FALSE ELSE moved[f]]
           /\ touch(down, up,
                    [f \in Fingers |-> IF f \in down THEN Path(g, f)
                                       ELSE IF f \in up THEN <<lastX[f]>> ELSE <<>>])
    /\ fails' = IF env.f12 THEN 0 ELSE fails
    /\ raw' = <<>>
    /\ pc' = "top"
    /\ UNCHANGED <<sensor, noIrq, tick>>

(* Mutant: after MaxFails failures the fingers are forgotten, not released.  *)
ApplyFailureSilent ==
    /\ pc = "apply" /\ raw = <<>>
    /\ IF env.f12 /\ active # {}
       THEN /\ fails' = (fails + 1) % MaxFails
            /\ active' = IF fails + 1 >= MaxFails THEN {} ELSE active
       ELSE UNCHANGED <<active, fails>>
    /\ pc' = "top"
    /\ UNCHANGED <<sensor, scan, lastX, moved, hid>>

(* After MaxFails failed reads in a row, everything is released.            *)
ApplyFailure ==
    /\ pc = "apply" /\ raw = <<>>
    /\ IF env.f12 /\ active # {}
       THEN IF fails + 1 >= MaxFails
            THEN /\ touch({}, active, [f \in Fingers |-> IF f \in active
                                                THEN <<lastX[f]>> ELSE <<>>])
                 /\ moved' = [f \in Fingers |-> f \notin active /\ moved[f]]
                 /\ active' = {} /\ fails' = 0
                 /\ UNCHANGED lastX
            ELSE /\ fails' = fails + 1
                 /\ UNCHANGED <<active, lastX, moved, hid>>
       ELSE UNCHANGED <<track, hid>>
    /\ pc' = "top"
    /\ UNCHANGED <<sensor, scan>>

-----------------------------------------------------------------------------
Thread ==
    \/ SamplePin \/ ReadStatus \/ ReadFingers \/ ClearAttention
    \/ ApplyFingers \/ ApplyFailure

Next ==
    \/ Thread
    \/ Report
    \/ \E f \in Fingers, p \in Positions \cup {Up} : Contact(f, p)

Spec == Init /\ [][Next]_vars

(* The thread sleeps 2 or 4 ms and goes on; the controller keeps reporting. *)
FairSpec == Spec /\ WF_vars(Thread) /\ WF_vars(Report)

-----------------------------------------------------------------------------
(* Type invariant.                                                         *)
TypeOK ==
    /\ env \in Envs
    /\ glass \in [Fingers -> Positions \cup {Up}]
    /\ attn \in BOOLEAN /\ contacts \in 0 .. MaxContacts
    /\ pc \in {"top", "status", "read", "clear", "apply"}
    /\ noIrq \in 0 .. HeldTicks /\ tick \in 0 .. IdleTicks - 1
    /\ raw \in {<<>>} \cup {<<g>> : g \in [Fingers -> Positions \cup {Up}]}
    /\ active \subseteq Fingers /\ fDown \subseteq Fingers
    /\ lastX \in [Fingers -> Positions \cup {0}] /\ fX \in [Fingers -> 0 .. MaxX]
    /\ moved \in [Fingers -> BOOLEAN] /\ fails \in 0 .. MaxFails
    /\ \A f \in Fingers : \A k \in DOMAIN sent[f] : sent[f][k] \in 0 .. F11MaxX + MaxX

(* The driver's mask and the state the clients were told never part while    *)
(* events can be had: no finger stays down for the clients that the driver  *)
(* no longer follows.                                                       *)
HidFollowsDriver ==
    pc = "top" /\ ~env.noMem =>
        fDown = active /\ \A f \in fDown : fX[f] = Clamp(lastX[f])

(***************************************************************************)
(* A lifted finger is reported up even when its attention was cleared with   *)
(* an earlier one, and, under Function $12, when every read fails: the      *)
(* reason for the 60 ms read of a held finger and for fail_streak           *)
(* (SweetHID.cpp 1063-1072, 1190).                                          *)
(***************************************************************************)
LiftsAreReported ==
    \A f \in Fingers :
        (glass[f] = Up /\ ~env.noMem /\ (env.f12 \/ ~env.flaky))
            ~> (f \notin fDown \/ glass[f] # Up)

(***************************************************************************)
(* A finger held on the glass away from the edges is reported down at its    *)
(* place.  Of every finger: "I2C multi-touch driver" (README.md 21).        *)
(***************************************************************************)
HeldAt(f, p) == glass[f] = p /\ ~env.noMem /\ ~env.flaky
ReportedAt(f, p) == (f \in fDown /\ fX[f] = p) \/ glass[f] # p
Inside == {p \in Positions : p <= MaxX /\ ~InGrip(p)}

EveryFingerReported ==
    \A f \in Fingers : \A p \in Inside : HeldAt(f, p) ~> ReportedAt(f, p)

(* So is the first finger, and under Function $11 all of them.              *)
FollowedFingerReported ==
    \A f \in Fingers : \A p \in Inside :
        (HeldAt(f, p) /\ (f = 0 \/ ~env.f12)) ~> ReportedAt(f, p)

(***************************************************************************)
(* What is sent for a moving finger is a path: it never turns back, it      *)
(* ends where the finger is, its first step out of rest is at most Hyst, and *)
(* its steps are at most Sub unless the jump needs more than MaxSteps        *)
(* (SweetHID.cpp 1143-1176).                                                *)
(***************************************************************************)
Between(a, b, c) == (a <= b /\ b <= c) \/ (c <= b /\ b <= a)
Points(f) == <<lastX[f]>> \o sent'[f]

PathIsSmooth ==
    [][\A f \in Fingers : ApplyFingers /\ env.f12 /\ f \in active \cap active' =>
         LET n == Len(sent'[f])
             p == Points(f)
         IN  /\ p[n + 1] = lastX'[f]
             /\ \A k \in 1 .. n : Between(p[k], p[k + 1], p[n + 1])
             /\ ~moved[f] /\ n > 1 => Abs(p[2] - p[1]) <= Hyst
             /\ Abs(p[n + 1] - p[1]) <= MaxSteps * Sub =>
                   \A k \in 1 .. n : Abs(p[k + 1] - p[k]) <= Sub]_vars
=============================================================================
