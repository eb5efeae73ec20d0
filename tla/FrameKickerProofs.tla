-------------------------- MODULE FrameKickerProofs --------------------------
(***************************************************************************)
(* Theorems about FrameKicker: types and the spin flag for any threads; and, *)
(* for any number of console threads or for one thread of any kind, that the *)
(* panel is never triggered too early, that only the diagnostic can lose a   *)
(* completion and that no frame is torn.                                    *)
(* With unlocked waiters beside other kickers these fail (run kick_both).   *)
(***************************************************************************)
EXTENDS FrameKicker, TLAPS

(* Only console threads, which wait under the kick lock, or one thread.     *)
OneSided == Threads = Consoles \/ \E t : Threads = {t}

Unlocked == {"fbEnter", "fbPoll", "fbAck", "fbClear",
             "dgEnter", "dgPoll", "dgAck", "dgClear"}

(* One thread at most is inside a wait or a kick, and a kick has the flag.   *)
OneInside ==
    /\ \A t \in Threads : pc[t] \in Locked => kickLock
    /\ \A t \in Threads : pc[t] \in Unlocked => t \notin Consoles
    /\ \A t, u \in Threads :
          pc[t] \in Locked \cup Unlocked /\ pc[u] \in Locked \cup Unlocked => t = u

(* A frame on its way is flagged, and a latched PP0_DONE is its end.         *)
FrameIsFlagged ==
    /\ phase # "idle" => inFlight
    /\ pp0Done => phase = "idle"

(* What a thread knows of the panel after its wait.                         *)
WaitIsOver ==
    \A t \in Threads :
        /\ pc[t] \in {"ack", "fbAck", "dgAck", "clear", "fbClear", "dgClear",
                      "clearStatus", "flag", "start"} => phase = "idle"
        /\ pc[t] \in {"flag", "start"} => ~pp0Done
        /\ pc[t] \in {"clearStatus", "flag"} => ~inFlight
        /\ pc[t] = "start" => inFlight

(* The inductive invariant.                                                 *)
KickInv ==
    TypeOK /\ OneInside /\ FrameIsFlagged /\ WaitIsOver /\ DoneNotLost /\ NoTearing

-----------------------------------------------------------------------------
(* A thread on its way to a kick has not used up its bound.                 *)
KicksLeft ==
    \A t \in Threads :
        pc[t] \in Unlocked \cup {"draw", "hold", "reading", "release"} => kicks[t] < MaxKicks

LEMMA InitTypes == Init => TypeOK /\ KicksLeft
<1> SUFFICES ASSUME Init PROVE TypeOK /\ KicksLeft
    OBVIOUS
<1>1. 0 \in 0 .. MaxKicks
    BY KickerAssumption
<1>2. kicks \in [Threads -> 0 .. MaxKicks]
    BY <1>1 DEF Init
<1>3. TypeOK
    BY <1>2 DEF Init, TypeOK, Places
<1>4. KicksLeft
    BY DEF Init, KicksLeft, Unlocked
<1>5. QED  BY <1>3, <1>4

(* A wait keeps the types, wherever it is called from.                       *)
LEMMA WaitTypes ==
    ASSUME TypeOK, UNCHANGED wiped, NEW t \in Threads, NEW limited,
           NEW enter \in Places, NEW poll \in Places, NEW ack \in Places,
           NEW clear \in Places, NEW ok \in Places, NEW fail \in Places,
           \/ EnterWait(t, enter, poll, ok, fail) \/ PollSeesDone(t, poll, ack)
           \/ PollGivesUp(t, poll, fail, limited) \/ AckDone(t, ack, clear)
           \/ ClearInFlight(t, clear, ok)
    PROVE  TypeOK'
<1> USE DEF TypeOK, Goto, call, hw
<1>1. CASE EnterWait(t, enter, poll, ok, fail)
  <2>1. pc' \in [Threads -> Places] /\ late' \in [Threads -> BOOLEAN]
    BY <1>1 DEF EnterWait
  <2>2. QED  BY <1>1, <2>1 DEF EnterWait
<1>2. CASE PollSeesDone(t, poll, ack)
    BY <1>2 DEF PollSeesDone
<1>3. CASE PollGivesUp(t, poll, fail, limited)
  <2>1. pc' \in [Threads -> Places] /\ late' \in [Threads -> BOOLEAN]
    BY <1>3 DEF PollGivesUp
  <2>2. QED  BY <1>3, <2>1 DEF PollGivesUp
<1>4. CASE AckDone(t, ack, clear)
    BY <1>4 DEF AckDone
<1>5. CASE ClearInFlight(t, clear, ok)
    BY <1>5 DEF ClearInFlight
<1>6. QED  BY <1>1, <1>2, <1>3, <1>4, <1>5

LEMMA TypesStep == TypeOK /\ KicksLeft /\ [Next]_vars => TypeOK' /\ KicksLeft'
<1> SUFFICES ASSUME TypeOK, KicksLeft, [Next]_vars PROVE TypeOK' /\ KicksLeft'
    OBVIOUS
<1> USE KickerAssumption DEF TypeOK, Places, KicksLeft, Unlocked, Goto, call, own, hw
<1>1. CASE Hardware
    BY <1>1 DEF Hardware, TearingEffect, TransferDone
<1>2. ASSUME NEW t \in Threads, Begin(t), UNCHANGED wiped PROVE TypeOK' /\ KicksLeft'
  <2>1. CASE PresentBegin(t)
    BY <1>2, <2>1 DEF PresentBegin
  <2>2. CASE ConsoleBegin(t) \/ DiagBegin(t)
    BY <1>2, <2>2 DEF ConsoleBegin, DiagBegin
  <2>3. QED  BY <1>2, <2>1, <2>2 DEF Begin
<1>3. ASSUME NEW t \in Threads, Runs(t) PROVE TypeOK' /\ KicksLeft'
  <2>1. CASE FbWaitIdle(t) /\ UNCHANGED wiped
    <3>1. TypeOK'
      <4>1. {"fbEnter", "fbPoll", "fbAck", "fbClear", "draw"} \subseteq Places
        BY DEF Places
      <4> HIDE DEF TypeOK, Places
      <4>2. QED  BY <2>1, <4>1, WaitTypes DEF FbWaitIdle
    <3>2. KicksLeft'
      BY <2>1 DEF FbWaitIdle, EnterWait, PollSeesDone, PollGivesUp, AckDone, ClearInFlight
    <3>3. QED  BY <3>1, <3>2
  <2>2. CASE DiagWaitIdle(t) /\ UNCHANGED wiped
    <3>1. TypeOK'
      <4>1. {"dgEnter", "dgPoll", "dgAck", "dgClear", "hold"} \subseteq Places
        BY DEF Places
      <4> HIDE DEF TypeOK, Places
      <4>2. QED  BY <2>2, <4>1, WaitTypes DEF DiagWaitIdle
    <3>2. KicksLeft'
      BY <2>2 DEF DiagWaitIdle, EnterWait, PollSeesDone, PollGivesUp, AckDone, ClearInFlight
    <3>3. QED  BY <3>1, <3>2
  <2>3. CASE KickWaitIdle(t) /\ UNCHANGED wiped
    <3>1. TypeOK'
      <4>1. {"enter", "poll", "ack", "clear", "clearStatus", "unlock"} \subseteq Places
        BY DEF Places
      <4> HIDE DEF TypeOK, Places
      <4>2. CASE EnterWait(t, "enter", "poll", "clearStatus", "unlock")
        BY <2>3, <4>1, <4>2, WaitTypes
      <4>3. CASE PollGivesUp(t, "poll", "unlock", waits[t])
        <5>1. pc' \in [Threads -> Places] /\ late' \in [Threads -> BOOLEAN]
          BY <4>1, <4>3 DEF PollGivesUp, TypeOK
        <5>2. QED  BY <2>3, <4>3, <5>1 DEF PollGivesUp, TypeOK
      <4>4. CASE PollSeesDone(t, "poll", "ack") \/ AckDone(t, "ack", "clear")
                 \/ ClearInFlight(t, "clear", "clearStatus")
        BY <2>3, <4>1, <4>4, WaitTypes
      <4>5. QED  BY <2>3, <4>2, <4>3, <4>4 DEF KickWaitIdle
    <3>2. KicksLeft'
      BY <2>3 DEF KickWaitIdle, EnterWait, PollSeesDone, PollGivesUp, AckDone, ClearInFlight
    <3>3. QED  BY <3>1, <3>2
  <2>4. ASSUME NEW wait \in BOOLEAN, DrawPanel(t, wait), UNCHANGED wiped
        PROVE  TypeOK' /\ KicksLeft'
    <3>1. kicks[t] + 1 \in 0 .. MaxKicks
      BY <2>4 DEF DrawPanel
    <3>2. QED  BY <2>4, <3>1 DEF DrawPanel
  <2>5. CASE HoldKicks(t) /\ UNCHANGED wiped
    BY <2>5 DEF HoldKicks
  <2>6. CASE ReleaseKicks(t) /\ UNCHANGED wiped
    <3>1. kicks[t] + 1 \in 0 .. MaxKicks
      BY <2>6 DEF ReleaseKicks
    <3>2. QED  BY <2>6, <3>1 DEF ReleaseKicks
  <2>7. CASE /\ \/ TakeKickLock(t) \/ SkipBusyKick(t) \/ ClearStatus(t) \/ SetInFlight(t)
                \/ CtlStart(t) \/ DropKickLock(t)
             /\ UNCHANGED wiped
    <3>1. TypeOK'
      <4>1. CASE TakeKickLock(t) \/ SkipBusyKick(t) \/ DropKickLock(t)
        BY <2>7, <4>1 DEF TakeKickLock, SkipBusyKick, DropKickLock
      <4>2. CASE ClearStatus(t) \/ SetInFlight(t) \/ CtlStart(t)
        BY <2>7, <4>2 DEF ClearStatus, SetInFlight, CtlStart
      <4>3. QED  BY <2>7, <4>1, <4>2
    <3>2. KicksLeft'
      BY <2>7 DEF TakeKickLock, SkipBusyKick, ClearStatus, SetInFlight, CtlStart, DropKickLock
    <3>3. QED  BY <3>1, <3>2
  <2>8. CASE DiagClearStatus(t)
    BY <2>8 DEF DiagClearStatus
  <2>9. QED
    BY <1>3, <2>1, <2>2, <2>3, <2>4, <2>5, <2>6, <2>7, <2>8 DEF Runs
<1>4. CASE UNCHANGED vars
    BY <1>4 DEF vars
<1>5. QED
    BY <1>1, <1>2, <1>3, <1>4 DEF Next

(* Type correctness, the bound on kicks included, for any threads.          *)
THEOREM KickerTypes == Spec => []TypeOK
  BY InitTypes, TypesStep, PTL DEF Spec

-----------------------------------------------------------------------------
(* The spin flag.  A thread enters the kick where the flag is clear, so      *)
(* nobody else is in it; and the only one in it clears it.                  *)
LEMMA LockStep == TypeOK /\ TypeOK' /\ OneKicker /\ [Next]_vars => OneKicker'
<1> SUFFICES ASSUME TypeOK, TypeOK', OneKicker, [Next]_vars PROVE OneKicker'
    OBVIOUS
<1> USE DEF OneKicker, Goto, call, own, hw
<1>1. CASE Hardware \/ UNCHANGED vars
    BY <1>1 DEF Hardware, TearingEffect, TransferDone, vars
<1>2. ASSUME NEW t \in Threads, pc[t] \notin Locked, pc'[t] \notin Locked,
             \A u \in Threads : u # t => pc'[u] = pc[u], UNCHANGED kickLock
      PROVE  OneKicker'
    BY <1>2
<1>3. ASSUME NEW t \in Threads, pc[t] \in Locked, pc'[t] \in Locked,
             \A u \in Threads : u # t => pc'[u] = pc[u], UNCHANGED kickLock
      PROVE  OneKicker'
    BY <1>3
<1>4. ASSUME NEW t \in Threads, Begin(t) PROVE OneKicker'
  <2>1. /\ pc[t] \notin Locked /\ pc'[t] \notin Locked /\ UNCHANGED kickLock
        /\ \A u \in Threads : u # t => pc'[u] = pc[u]
    BY <1>4 DEF Begin, PresentBegin, ConsoleBegin, DiagBegin, Locked, TypeOK
  <2>2. QED  BY <1>2, <2>1
<1>5. ASSUME NEW t \in Threads, Runs(t) PROVE OneKicker'
  <2>0. \A u \in Threads : u # t => pc'[u] = pc[u]
    BY <1>5 DEF Runs, FbWaitIdle, DiagWaitIdle, KickWaitIdle, EnterWait, PollSeesDone,
                PollGivesUp, AckDone, ClearInFlight, DrawPanel, HoldKicks, DiagClearStatus,
                ReleaseKicks, TakeKickLock, SkipBusyKick, ClearStatus, SetInFlight, CtlStart,
                DropKickLock, TypeOK
  <2>1. CASE FbWaitIdle(t) \/ DiagWaitIdle(t)
    <3>1. pc[t] \notin Locked /\ pc'[t] \notin Locked /\ UNCHANGED kickLock
      BY <2>1 DEF FbWaitIdle, DiagWaitIdle, EnterWait, PollSeesDone, PollGivesUp, AckDone,
                  ClearInFlight, Locked, TypeOK
    <3>2. QED  BY <1>2, <2>0, <3>1
  <2>2. CASE \/ \E wait \in BOOLEAN : DrawPanel(t, wait)
             \/ HoldKicks(t) \/ DiagClearStatus(t) \/ ReleaseKicks(t) \/ SkipBusyKick(t)
    <3>1. pc[t] \notin Locked /\ pc'[t] \notin Locked /\ UNCHANGED kickLock
      BY <2>2 DEF DrawPanel, HoldKicks, DiagClearStatus, ReleaseKicks, SkipBusyKick, Locked,
                  TypeOK
    <3>2. QED  BY <1>2, <2>0, <3>1
  <2>3. CASE KickWaitIdle(t) \/ ClearStatus(t) \/ SetInFlight(t) \/ CtlStart(t)
    <3>1. pc[t] \in Locked /\ pc'[t] \in Locked /\ UNCHANGED kickLock
      BY <2>3 DEF KickWaitIdle, EnterWait, PollSeesDone, PollGivesUp, AckDone, ClearInFlight,
                  ClearStatus, SetInFlight, CtlStart, Locked, TypeOK
    <3>2. QED  BY <1>3, <2>0, <3>1
  <2>4. CASE TakeKickLock(t)
    <3>1. pc'[t] \in Locked /\ ~kickLock /\ kickLock'
      BY <2>4 DEF TakeKickLock, Locked, TypeOK
    <3>2. QED  BY <2>0, <3>1
  <2>5. CASE DropKickLock(t)
    <3>1. pc[t] \in Locked /\ pc'[t] \notin Locked /\ ~kickLock'
      BY <2>5 DEF DropKickLock, Locked, TypeOK
    <3>2. QED  BY <2>0, <3>1
  <2>6. QED  BY <1>5, <2>1, <2>2, <2>3, <2>4, <2>5 DEF Runs
<1>6. QED
    BY <1>1, <1>4, <1>5 DEF Next

(* g_m8_kick_lock is held by the one thread in the kick, and by nobody else,  *)
(* for any threads, unlocked waiters included.                              *)
THEOREM KickLockHeldOnce == Spec => []OneKicker
<1>1. Init => OneKicker
    BY DEF Init, OneKicker, Locked
<1>2. QED  BY <1>1, KickerTypes, LockStep, PTL DEF Spec

-----------------------------------------------------------------------------
(***************************************************************************)
(* The panel, for one side. A step of a thread inside a wait or a kick is   *)
(* the step of the only one there.                                          *)
(***************************************************************************)
LEMMA InitKick == Init => KickInv
<1> SUFFICES ASSUME Init PROVE KickInv
    OBVIOUS
<1>1. TypeOK
    BY InitTypes
<1>2. OneInside /\ WaitIsOver /\ NoTearing
    BY DEF Init, OneInside, WaitIsOver, NoTearing, Locked, Unlocked, Threads
<1>3. FrameIsFlagged /\ DoneNotLost
    BY DEF Init, FrameIsFlagged, DoneNotLost
<1>4. QED  BY <1>1, <1>2, <1>3 DEF KickInv

LEMMA HardwareKick ==
    ASSUME KickInv, Hardware
    PROVE  KickInv'
<1> USE DEF KickInv, own, call
<1>1. OneInside'
    BY DEF Hardware, TearingEffect, TransferDone, OneInside
<1>2. TypeOK' /\ FrameIsFlagged'
  <2>0. UNCHANGED wiped
    BY DEF Hardware
  <2>1. CASE TearingEffect
    BY <2>0, <2>1 DEF TearingEffect, FrameIsFlagged, TypeOK
  <2>2. CASE TransferDone
    BY <2>0, <2>2 DEF TransferDone, FrameIsFlagged, TypeOK
  <2>3. QED  BY <2>1, <2>2 DEF Hardware
<1>3. WaitIsOver'
    BY DEF Hardware, TearingEffect, TransferDone, WaitIsOver
<1>4. DoneNotLost'
    BY DEF Hardware, TearingEffect, TransferDone, DoneNotLost
<1>5. NoTearing'
    BY DEF Hardware, TearingEffect, TransferDone, NoTearing
<1>6. QED  BY <1>1, <1>2, <1>3, <1>4, <1>5

(* Where several threads are, they are console threads.                     *)
LEMMA SidesApart ==
    ASSUME OneSided, NEW t \in Threads, NEW u \in Threads, t \notin Consoles
    PROVE  t = u
  BY DEF OneSided

(***************************************************************************)
(* Steps that leave panel, flag and spin flag alone and stay outside, or go *)
(* to a place about which only the panel matters.                           *)
(***************************************************************************)
LEMMA BeginKick ==
    ASSUME KickInv, TypeOK', OneSided, NEW t \in Threads, Begin(t), UNCHANGED wiped
    PROVE  KickInv'
<1> USE DEF KickInv, Begin, PresentBegin, ConsoleBegin, DiagBegin, Goto, hw, call
<1>0. Presenters \cap Consoles = {} /\ Diagnosers \cap Consoles = {}
    BY KickerAssumption
<1>1. OneInside'
    BY <1>0, SidesApart DEF OneInside, Locked, Unlocked, TypeOK
<1>2. FrameIsFlagged'
    BY DEF FrameIsFlagged
<1>3. WaitIsOver'
    BY DEF WaitIsOver, TypeOK
<1>4. DoneNotLost'
    BY DEF DoneNotLost, Settling, TypeOK
<1>5. NoTearing'
    BY <1>0, SidesApart DEF NoTearing, FrameIsFlagged, TypeOK, Threads
<1>6. QED  BY <1>1, <1>2, <1>3, <1>4, <1>5

(***************************************************************************)
(* The wait, for each of its three users: what it does to the panel only    *)
(* depends on the thread being the only one inside.                         *)
(***************************************************************************)
LEMMA FbWaitKick ==
    ASSUME KickInv, TypeOK', OneSided, NEW t \in Threads, FbWaitIdle(t),
           UNCHANGED wiped
    PROVE  KickInv'
<1> USE DEF KickInv, Goto, hw, call, FbWaitIdle, EnterWait, PollSeesDone, PollGivesUp,
            AckDone, ClearInFlight
<1>0. \A u \in Threads : u = t
    BY SidesApart DEF OneInside, Unlocked
<1>1. OneInside'
    BY <1>0 DEF OneInside, Locked, Unlocked, TypeOK
<1>2. FrameIsFlagged'
    BY DEF FrameIsFlagged, WaitIsOver
<1>3. WaitIsOver'
    BY <1>0 DEF WaitIsOver, FrameIsFlagged, TypeOK
<1>4. DoneNotLost'
    BY <1>0 DEF DoneNotLost, Settling, TypeOK
<1>5. NoTearing'
    BY <1>0 DEF NoTearing, WaitIsOver, FrameIsFlagged, DsiIdle, TypeOK, Threads
<1>6. QED  BY <1>1, <1>2, <1>3, <1>4, <1>5

LEMMA DiagWaitKick ==
    ASSUME KickInv, TypeOK', OneSided, NEW t \in Threads, DiagWaitIdle(t),
           UNCHANGED wiped
    PROVE  KickInv'
<1> USE DEF KickInv, Goto, hw, call, DiagWaitIdle, EnterWait, PollSeesDone, PollGivesUp,
            AckDone, ClearInFlight
<1>0. \A u \in Threads : u = t
    BY SidesApart DEF OneInside, Unlocked
<1>1. OneInside'
    BY <1>0 DEF OneInside, Locked, Unlocked, TypeOK
<1>2. FrameIsFlagged'
    BY DEF FrameIsFlagged, WaitIsOver
<1>3. WaitIsOver'
    BY <1>0 DEF WaitIsOver, FrameIsFlagged, TypeOK
<1>4. DoneNotLost'
    BY <1>0 DEF DoneNotLost, Settling, TypeOK
<1>5. NoTearing'
    BY <1>0 DEF NoTearing, WaitIsOver, FrameIsFlagged, DsiIdle, TypeOK, Threads
<1>6. QED  BY <1>1, <1>2, <1>3, <1>4, <1>5

(* Under the spin flag: the others are outside, whoever they are.           *)
LEMMA LockedKick ==
    ASSUME KickInv, TypeOK', OneSided, NEW t \in Threads, UNCHANGED wiped,
           \/ KickWaitIdle(t) \/ ClearStatus(t) \/ SetInFlight(t) \/ CtlStart(t)
           \/ DropKickLock(t)
    PROVE  KickInv'
<1> USE DEF KickInv, Goto, hw, call, KickWaitIdle, EnterWait, PollSeesDone, PollGivesUp,
            AckDone, ClearInFlight, ClearStatus, SetInFlight, CtlStart, DropKickLock
<1>0. pc[t] \in Locked /\ \A u \in Threads : u # t => pc[u] \notin Locked \cup Unlocked
    BY DEF OneInside, Locked
<1>a. \A u \in Threads : u # t => pc'[u] = pc[u]
    BY DEF TypeOK
<1>1. OneInside'
    BY <1>0, <1>a DEF OneInside, Locked, Unlocked, TypeOK
<1>2. FrameIsFlagged'
    BY DEF FrameIsFlagged, WaitIsOver
<1>3. WaitIsOver'
    BY <1>0, <1>a DEF WaitIsOver, FrameIsFlagged, DsiIdle, Locked, Unlocked, TypeOK
<1>4. DoneNotLost'
    BY <1>0, <1>a DEF DoneNotLost, Settling, WaitIsOver, Locked, Unlocked, TypeOK
<1>5. NoTearing'
    BY <1>0, <1>a, SidesApart, KickerAssumption
       DEF NoTearing, WaitIsOver, FrameIsFlagged, Locked, TypeOK, Threads
<1>6. QED  BY <1>1, <1>2, <1>3, <1>4, <1>5

(* Outside, and through the spin flag into the kick.                        *)
LEMMA OutsideKick ==
    ASSUME KickInv, TypeOK', OneSided, NEW t \in Threads, UNCHANGED wiped,
           \/ \E wait \in BOOLEAN : DrawPanel(t, wait)
           \/ HoldKicks(t) \/ ReleaseKicks(t) \/ TakeKickLock(t) \/ SkipBusyKick(t)
    PROVE  KickInv'
<1> USE DEF KickInv, Goto, hw, call, DrawPanel, HoldKicks, ReleaseKicks, TakeKickLock,
            SkipBusyKick
<1>0. pc[t] \notin Locked \cup Unlocked
    BY DEF Locked, Unlocked
<1>a. \A u \in Threads : u # t => pc'[u] = pc[u] /\ t \in Threads
    BY DEF TypeOK
<1>b. pc'[t] \in {"idle", "lock", "reading", "enter"}
    BY DEF TypeOK
<1>c. phase' = phase /\ pp0Done' = pp0Done /\ inFlight' = inFlight /\ late' = late
    OBVIOUS
<1>1. OneInside'
  <2>1. CASE pc'[t] = "enter"
    <3>1. ~kickLock /\ kickLock'
      BY <2>1 DEF TypeOK
    <3>2. \A u \in Threads : pc[u] \notin Locked
      BY <3>1 DEF OneInside
    <3>3. \A u \in Threads : u # t => pc[u] \notin Unlocked
      BY SidesApart DEF OneInside
    <3>4. QED  BY <1>0, <1>a, <2>1, <3>1, <3>2, <3>3 DEF OneInside, Unlocked
  <2>2. CASE pc'[t] # "enter"
    <3>1. pc'[t] \notin Locked \cup Unlocked /\ kickLock' = kickLock
      BY <1>b, <2>2 DEF Locked, Unlocked, TypeOK
    <3>2. QED  BY <1>a, <3>1 DEF OneInside
  <2>3. QED  BY <2>1, <2>2
<1>2. FrameIsFlagged'
    BY <1>c DEF FrameIsFlagged
<1>3. WaitIsOver'
    BY <1>a, <1>b, <1>c DEF WaitIsOver
<1>4. DoneNotLost'
    BY <1>0, <1>a, <1>c DEF DoneNotLost, Settling, Locked, Unlocked
<1>5. NoTearing'
    BY <1>a, <1>b, <1>c DEF NoTearing, Threads
<1>6. QED  BY <1>1, <1>2, <1>3, <1>4, <1>5

(* Clearing the status disturbs DoneNotLost only where it is then wiped.     *)
LEMMA WipeKick ==
    ASSUME KickInv, TypeOK', NEW t \in Threads, DiagClearStatus(t)
    PROVE  KickInv'
<1> USE DEF KickInv, Goto, call, DiagClearStatus
<1>a. /\ pc[t] = "reading" /\ pc'[t] = "release"
      /\ \A u \in Threads : u # t => pc'[u] = pc[u]
    BY DEF TypeOK
<1>1. OneInside'
    BY <1>a DEF OneInside, Locked, Unlocked
<1>2. FrameIsFlagged'
    BY DEF FrameIsFlagged
<1>3. WaitIsOver'
    BY <1>a DEF WaitIsOver
<1>4. DoneNotLost'
    BY <1>a DEF DoneNotLost, Settling
<1>5. NoTearing'
    BY <1>a DEF NoTearing, Threads
<1>6. QED  BY <1>1, <1>2, <1>3, <1>4, <1>5

LEMMA NextKick == OneSided /\ KickInv /\ TypeOK' /\ [Next]_vars => KickInv'
<1> SUFFICES ASSUME OneSided, KickInv, TypeOK', [Next]_vars PROVE KickInv'
    OBVIOUS
<1>1. CASE Hardware
    BY <1>1, HardwareKick
<1>2. ASSUME NEW t \in Threads, Begin(t), UNCHANGED wiped PROVE KickInv'
    BY <1>2, BeginKick
<1>3. ASSUME NEW t \in Threads, Runs(t) PROVE KickInv'
    BY <1>3, FbWaitKick, DiagWaitKick, LockedKick, OutsideKick, WipeKick DEF Runs
<1>4. CASE UNCHANGED vars
    BY <1>4 DEF vars, hw, own, call, KickInv, TypeOK, OneInside, FrameIsFlagged, WaitIsOver,
                DoneNotLost, NoTearing
<1>5. QED
    BY <1>1, <1>2, <1>3, <1>4 DEF Next

(* The invariant holds throughout, for console threads alone or for one      *)
(* waiter.                                                                  *)
THEOREM KickInvariant == ASSUME OneSided PROVE Spec => []KickInv
<1>1. KickInv /\ KicksLeft /\ [Next]_vars => (KickInv /\ KicksLeft)'
    BY TypesStep, NextKick DEF KickInv
<1>2. QED
    BY <1>1, InitKick, InitTypes, PTL DEF Spec

(* CTL_START is written when the previous frame is out, and only then.      *)
THEOREM StartsAfterFrame == ASSUME OneSided PROVE Spec => []NoRetrigger
<1>1. KickInv => NoRetrigger
    BY DEF KickInv, WaitIsOver, NoRetrigger
<1>2. QED  BY <1>1, KickInvariant, PTL

(* A flagged frame can still be settled, until the diagnostic clears the     *)
(* status of one that it did not wait for.                                  *)
THEOREM CompletionsKept == ASSUME OneSided PROVE Spec => []DoneNotLost
<1>1. KickInv => DoneNotLost
    BY DEF KickInv
<1>2. QED  BY <1>1, KickInvariant, PTL

(* Without the diagnostic nothing is lost: kicks, the presenter's wait and    *)
(* their timeouts never acknowledge a frame whose flag they leave set.       *)
THEOREM KickersLoseNothing ==
    ASSUME OneSided, Diagnosers = {}
    PROVE  Spec => [](DoneNotLost /\ ~wiped)
<1> DEFINE Inv == ~wiped /\ \A t \in Threads : pc[t] \notin {"hold", "reading", "release"}
                  /\ pc[t] \notin {"dgEnter", "dgPoll", "dgAck", "dgClear"}
<1>1. Init => Inv
    BY DEF Init
<1>2. TypeOK /\ Inv /\ [Next]_vars => Inv'
  <2> SUFFICES ASSUME TypeOK, Inv, [Next]_vars PROVE Inv'
    OBVIOUS
  <2> USE DEF Goto, call, own, hw
  <2>1. CASE Hardware \/ UNCHANGED vars
    BY <2>1 DEF Hardware, TearingEffect, TransferDone, vars
  <2>2. ASSUME NEW t \in Threads, Begin(t), UNCHANGED wiped PROVE Inv'
    BY <2>2 DEF Begin, PresentBegin, ConsoleBegin, DiagBegin, TypeOK
  <2>3. ASSUME NEW t \in Threads, Runs(t) PROVE Inv'
    <3>1. CASE FbWaitIdle(t) \/ KickWaitIdle(t)
      <4>1. UNCHANGED wiped
        BY <2>3, <3>1 DEF Runs, DiagClearStatus
      <4>2. QED
        BY <3>1, <4>1 DEF FbWaitIdle, KickWaitIdle, EnterWait, PollSeesDone, PollGivesUp, AckDone,
                ClearInFlight, TypeOK
    <3>2. CASE ~FbWaitIdle(t) /\ ~KickWaitIdle(t)
      BY <2>3, <3>2 DEF Runs, DiagWaitIdle, EnterWait, PollSeesDone, PollGivesUp, AckDone,
                ClearInFlight, DrawPanel, HoldKicks, DiagClearStatus, ReleaseKicks, TakeKickLock,
                SkipBusyKick, ClearStatus, SetInFlight, CtlStart, DropKickLock, TypeOK
    <3>3. QED  BY <3>1, <3>2
  <2>4. QED  BY <2>1, <2>2, <2>3 DEF Next
<1>3. QED  BY <1>1, <1>2, KickerTypes, CompletionsKept, PTL DEF Spec

(* The presenter draws on an idle panel unless its wait gave up.            *)
THEOREM DrawsBetweenFrames == ASSUME OneSided PROVE Spec => []NoTearing
<1>1. KickInv => NoTearing
    BY DEF KickInv
<1>2. QED  BY <1>1, KickInvariant, PTL
=============================================================================
