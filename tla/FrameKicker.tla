----------------------------- MODULE FrameKicker -----------------------------
(***************************************************************************)
(* Sending a frame to the command-mode panel (pexpert/arm/xzs_d8m8.h,       *)
(* xzs_diag.c).  A kick waits until the previous frame is out, then writes  *)
(* CTL_START; the panel's tearing-effect line (TE) releases the transfer    *)
(* and PP0_DONE latches when it is over.  Kickers serialise on a spin flag, *)
(* but xzs_fb_wait_idle, which the GUI presenter calls before it writes the *)
(* panel memory, polls and acknowledges the same registers without it, and  *)
(* so does the shell's `display m8-prekick-status`, which also clears the    *)
(* interrupt status, PP0_DONE included, whatever its wait came to.           *)
(***************************************************************************)
EXTENDS Integers

CONSTANTS
    Presenters,     \* GUI threads: xzs_fb_wait_idle, draw, xzs_fb_present_kick
    Consoles,       \* threads in xzs_fbcon_write: draw, xzs_d8m8_kick_frame_ex
    Diagnosers,     \* shell threads in xzs_d8m8_prekick_status
    MayTimeOut,     \* whether a frame may outlast the polling limits
    KeepConsole,    \* boot-arg sweetfb_console
    MaxKicks        \* bound: frames each thread kicks

Threads == Presenters \cup Consoles \cup Diagnosers

ASSUME KickerAssumption ==
    /\ Presenters \cap Consoles = {}
    /\ Diagnosers \cap (Presenters \cup Consoles) = {}
    /\ {MayTimeOut, KeepConsole} \subseteq BOOLEAN
    /\ MaxKicks \in Nat

VARIABLES
    phase,      \* the hardware: "idle", "armed" (waits for TE), "sending"
    pp0Done,    \* PP0_DONE of MDP_INTR_STATUS
    inFlight,   \* g_m8_frame_in_flight
    kickLock,   \* g_m8_kick_lock
    suppress,   \* g_m8_suppress_kick
    attached,   \* g_fbcon_attached
    pc,         \* where each thread is
    waits,      \* its wait_for_idle argument
    late,       \* whether its last wait for the panel gave up
    kicks,      \* frames it has kicked
    wiped       \* history: a completion was cleared with its frame in flight

hw == <<phase, pp0Done>>
call == <<waits, late, kicks>>
own == <<pc, call>>
vars == <<hw, inFlight, kickLock, suppress, attached, own, wiped>>

(* xzs_d8m8_kickoff leaves the first frame in flight.                      *)
Init ==
    /\ phase = "armed" /\ pp0Done = FALSE
    /\ inFlight = TRUE
    /\ kickLock = FALSE /\ suppress = FALSE /\ attached = TRUE
    /\ pc = [t \in Threads |-> "idle"]
    /\ waits = [t \in Threads |-> TRUE] /\ late = [t \in Threads |-> FALSE]
    /\ kicks = [t \in Threads |-> 0] /\ wiped = FALSE

Goto(t, l) == pc' = [pc EXCEPT ![t] = l]

(* DSI_STATUS: no command-mode engine is busy.  An armed frame is not yet   *)
(* on the link, so it looks idle too.                                       *)
DsiIdle == phase # "sending"

-----------------------------------------------------------------------------
(* The hardware.                                                           *)
TearingEffect ==
    /\ phase = "armed"
    /\ phase' = "sending"
    /\ UNCHANGED <<pp0Done, inFlight, kickLock, suppress, attached, own>>

TransferDone ==
    /\ phase = "sending"
    /\ phase' = "idle"
    /\ pp0Done' = TRUE
    /\ UNCHANGED <<inFlight, kickLock, suppress, attached, own>>

(***************************************************************************)
(* xzs_d8m8_wait_frame_idle, from program counter `poll`, ending at `ok` or *)
(* `fail`.  The flag is read once, on entry.                                *)
(***************************************************************************)
EnterWait(t, enter, poll, ok, fail) ==
    /\ pc[t] = enter
    /\ Goto(t, IF inFlight THEN poll ELSE IF DsiIdle THEN ok ELSE fail)
    /\ late' = [late EXCEPT ![t] = ~inFlight /\ ~DsiIdle]
    /\ UNCHANGED <<hw, inFlight, kickLock, suppress, attached, waits, kicks>>

(* Mutant: an idle link is taken for a finished frame.                      *)
PollSeesIdle(t, poll, ack) ==
    /\ pc[t] = poll
    /\ DsiIdle
    /\ Goto(t, ack)
    /\ UNCHANGED <<hw, inFlight, kickLock, suppress, attached, call>>

PollSeesDone(t, poll, ack) ==
    /\ pc[t] = poll
    /\ pp0Done /\ DsiIdle
    /\ Goto(t, ack)
    /\ UNCHANGED <<hw, inFlight, kickLock, suppress, attached, call>>

(* timeout_us == 0 gives up at the first miss, the others at the limit, which *)
(* they reach if the panel is slow or the completion is gone.               *)
PollGivesUp(t, poll, fail, limited) ==
    /\ pc[t] = poll
    /\ ~(pp0Done /\ DsiIdle)
    /\ ~limited \/ MayTimeOut \/ phase = "idle"
    /\ Goto(t, fail)
    /\ late' = [late EXCEPT ![t] = TRUE]
    /\ UNCHANGED <<hw, inFlight, kickLock, suppress, attached, waits, kicks>>

AckDone(t, ack, clear) ==
    /\ pc[t] = ack
    /\ pp0Done' = FALSE
    /\ Goto(t, clear)
    /\ UNCHANGED <<phase, inFlight, kickLock, suppress, attached, call>>

ClearInFlight(t, clear, ok) ==
    /\ pc[t] = clear
    /\ inFlight' = FALSE
    /\ Goto(t, ok)
    /\ UNCHANGED <<hw, kickLock, suppress, attached, call>>

(***************************************************************************)
(* The GUI presenter: it detaches the text console without taking any lock,  *)
(* so a console call under way goes on; then xzs_fb_wait_idle, whose result *)
(* nobody looks at, the panel memory, and the kick.                         *)
(***************************************************************************)
PresentBegin(t) ==
    /\ t \in Presenters
    /\ pc[t] = "idle" /\ kicks[t] < MaxKicks
    /\ attached' = (attached /\ KeepConsole)
    /\ late' = [late EXCEPT ![t] = FALSE]
    /\ Goto(t, IF inFlight THEN "fbEnter" ELSE "draw")
    /\ UNCHANGED <<hw, inFlight, kickLock, suppress, waits, kicks>>

FbWaitIdle(t) ==
    \/ EnterWait(t, "fbEnter", "fbPoll", "draw", "draw")
    \/ PollSeesDone(t, "fbPoll", "fbAck")
    \/ PollGivesUp(t, "fbPoll", "draw", TRUE)
    \/ AckDone(t, "fbAck", "fbClear")
    \/ ClearInFlight(t, "fbClear", "draw")

ConsoleBegin(t) ==
    /\ t \in Consoles
    /\ attached
    /\ pc[t] = "idle" /\ kicks[t] < MaxKicks
    /\ Goto(t, "draw")
    /\ UNCHANGED <<hw, inFlight, kickLock, suppress, attached, call>>

(* Writing the panel memory ends in a kick: always a waiting one from the   *)
(* presenter; from the console only for a shell prompt.                     *)
DrawPanel(t, wait) ==
    /\ pc[t] = "draw"
    /\ t \in Presenters => wait
    /\ waits' = [waits EXCEPT ![t] = wait]
    /\ kicks' = [kicks EXCEPT ![t] = @ + 1]
    /\ Goto(t, IF suppress THEN "idle" ELSE "lock")
    /\ UNCHANGED <<hw, inFlight, kickLock, suppress, attached, late>>

(* Mutant: the spin flag is set without being tested.                       *)
TakeKickLockAlways(t) ==
    /\ pc[t] = "lock"
    /\ kickLock' = TRUE
    /\ Goto(t, "enter")
    /\ UNCHANGED <<hw, inFlight, suppress, attached, call>>

(***************************************************************************)
(* xzs_d8m8_prekick_status: an unlocked wait whose result nobody looks at,   *)
(* kicks held back while the registers are read, "Pre-kick interrupt        *)
(* cleanup" on the way, then a kick of its own if the console has the panel. *)
(***************************************************************************)
DiagBegin(t) ==
    /\ t \in Diagnosers
    /\ pc[t] = "idle" /\ kicks[t] < MaxKicks
    /\ Goto(t, IF inFlight THEN "dgEnter" ELSE "hold")
    /\ UNCHANGED <<hw, inFlight, kickLock, suppress, attached, call>>

DiagWaitIdle(t) ==
    \/ EnterWait(t, "dgEnter", "dgPoll", "hold", "hold")
    \/ PollSeesDone(t, "dgPoll", "dgAck")
    \/ PollGivesUp(t, "dgPoll", "hold", TRUE)
    \/ AckDone(t, "dgAck", "dgClear")
    \/ ClearInFlight(t, "dgClear", "hold")

HoldKicks(t) ==
    /\ pc[t] = "hold"
    /\ suppress' = TRUE
    /\ Goto(t, "reading")
    /\ UNCHANGED <<hw, inFlight, kickLock, attached, call>>

DiagClearStatus(t) ==
    /\ pc[t] = "reading"
    /\ pp0Done' = FALSE
    /\ wiped' = (wiped \/ (pp0Done /\ inFlight))
    /\ Goto(t, "release")
    /\ UNCHANGED <<phase, inFlight, kickLock, suppress, attached, call>>

ReleaseKicks(t) ==
    /\ pc[t] = "release"
    /\ suppress' = FALSE
    /\ waits' = [waits EXCEPT ![t] = FALSE]
    /\ kicks' = [kicks EXCEPT ![t] = @ + 1]
    /\ Goto(t, IF attached THEN "lock" ELSE "idle")
    /\ UNCHANGED <<hw, inFlight, kickLock, attached, late>>

(***************************************************************************)
(* xzs_d8m8_kick_frame_ex                                                  *)
(***************************************************************************)
TakeKickLock(t) ==
    /\ pc[t] = "lock" /\ ~kickLock
    /\ kickLock' = TRUE
    /\ Goto(t, "enter")
    /\ UNCHANGED <<hw, inFlight, suppress, attached, call>>

(* Mutant: a refused kick leaves through the unlock.                        *)
SkipBusyKickUnlocks(t) ==
    /\ pc[t] = "lock" /\ kickLock /\ ~waits[t]
    /\ Goto(t, "unlock")
    /\ UNCHANGED <<hw, inFlight, kickLock, suppress, attached, call>>

SkipBusyKick(t) ==
    /\ pc[t] = "lock" /\ kickLock /\ ~waits[t]
    /\ Goto(t, "idle")
    /\ UNCHANGED <<hw, inFlight, kickLock, suppress, attached, call>>

KickWaitIdle(t) ==
    \/ EnterWait(t, "enter", "poll", "clearStatus", "unlock")
    \/ PollSeesDone(t, "poll", "ack")
    \/ PollGivesUp(t, "poll", "unlock", waits[t])
    \/ AckDone(t, "ack", "clear")
    \/ ClearInFlight(t, "clear", "clearStatus")

ClearStatus(t) ==
    /\ pc[t] = "clearStatus"
    /\ pp0Done' = FALSE
    /\ Goto(t, "flag")
    /\ UNCHANGED <<phase, inFlight, kickLock, suppress, attached, call>>

SetInFlight(t) ==
    /\ pc[t] = "flag"
    /\ inFlight' = TRUE
    /\ Goto(t, "start")
    /\ UNCHANGED <<hw, kickLock, suppress, attached, call>>

(* CTL_FLUSH, CTL_START                                                    *)
CtlStart(t) ==
    /\ pc[t] = "start"
    /\ phase' = "armed"
    /\ Goto(t, "unlock")
    /\ UNCHANGED <<pp0Done, inFlight, kickLock, suppress, attached, call>>

(* Mutant: the interrupt status is cleared once more on the way out.        *)
DropKickLockAck(t) ==
    /\ pc[t] = "unlock"
    /\ kickLock' = FALSE
    /\ pp0Done' = FALSE
    /\ Goto(t, "idle")
    /\ UNCHANGED <<phase, inFlight, suppress, attached, call>>

(* Mutant: the spin flag is kept.                                           *)
DropKickLockMissing(t) ==
    /\ pc[t] = "unlock"
    /\ Goto(t, "idle")
    /\ UNCHANGED <<hw, inFlight, kickLock, suppress, attached, call>>

DropKickLock(t) ==
    /\ pc[t] = "unlock"
    /\ kickLock' = FALSE
    /\ Goto(t, "idle")
    /\ UNCHANGED <<hw, inFlight, suppress, attached, call>>

-----------------------------------------------------------------------------
Begin(t) == PresentBegin(t) \/ ConsoleBegin(t) \/ DiagBegin(t)

(* A call under way goes on by itself.                                     *)
Runs(t) ==
    \/ /\ \/ FbWaitIdle(t)
          \/ \E wait \in BOOLEAN : DrawPanel(t, wait)
          \/ DiagWaitIdle(t) \/ HoldKicks(t) \/ ReleaseKicks(t)
          \/ TakeKickLock(t) \/ SkipBusyKick(t) \/ KickWaitIdle(t)
          \/ ClearStatus(t) \/ SetInFlight(t) \/ CtlStart(t) \/ DropKickLock(t)
       /\ UNCHANGED wiped
    \/ DiagClearStatus(t)

Hardware == (TearingEffect \/ TransferDone) /\ UNCHANGED wiped

Next ==
    \/ Hardware
    \/ \E t \in Threads : (Begin(t) /\ UNCHANGED wiped) \/ Runs(t)

Spec == Init /\ [][Next]_vars

(* Threads inside a call are scheduled, and the panel keeps refreshing.     *)
FairSpec ==
    /\ Spec
    /\ WF_vars(TearingEffect /\ UNCHANGED wiped) /\ WF_vars(TransferDone /\ UNCHANGED wiped)
    /\ \A t \in Threads : WF_vars(Runs(t))

-----------------------------------------------------------------------------
(* Type invariant.                                                         *)
Places == {"idle", "fbEnter", "fbPoll", "fbAck", "fbClear", "draw", "lock",
           "enter", "poll", "ack", "clear", "clearStatus", "flag", "start", "unlock",
           "dgEnter", "dgPoll", "dgAck", "dgClear", "hold", "reading", "release"}

TypeOK ==
    /\ phase \in {"idle", "armed", "sending"}
    /\ pp0Done \in BOOLEAN /\ inFlight \in BOOLEAN
    /\ kickLock \in BOOLEAN /\ suppress \in BOOLEAN /\ attached \in BOOLEAN
    /\ pc \in [Threads -> Places]
    /\ waits \in [Threads -> BOOLEAN] /\ late \in [Threads -> BOOLEAN]
    /\ kicks \in [Threads -> 0 .. MaxKicks] /\ wiped \in BOOLEAN

(***************************************************************************)
(* g_m8_kick_lock is a lock (xzs_d8m8.h 3604-3620, 3641): one thread at most *)
(* is between taking and clearing it, nobody else clears it, neither a kick  *)
(* that was refused nor one that gave up, and it is not left set.            *)
(***************************************************************************)
Locked == {"enter", "poll", "ack", "clear", "clearStatus", "flag", "start", "unlock"}

OneKicker ==
    /\ kickLock <=> \E t \in Threads : pc[t] \in Locked
    /\ \A t, u \in Threads : pc[t] \in Locked /\ pc[u] \in Locked => t = u

(***************************************************************************)
(* CTL_START is only written when the previous frame is out: the comment    *)
(* "Ensures previous command-mode frame has completed (PP0_DONE + DSI idle) *)
(* before issuing CTL_FLUSH and CTL_START, preventing pre-TE / mid-frame    *)
(* re-triggering" (xzs_d8m8.h 3587-3592).                                   *)
(***************************************************************************)
NoRetrigger == \A t \in Threads : pc[t] = "start" => phase = "idle"

(***************************************************************************)
(* A finished frame is not forgotten: when the flag says a frame is in       *)
(* flight, it is, or its PP0_DONE is still there to be seen, or a thread is  *)
(* on its way to settle it.  Otherwise every later kick times out, and that  *)
(* is what becomes of the panel once the diagnostic has cleared PP0_DONE     *)
(* under a frame in flight (xzs_d8m8.h 2385 after a wait at 2302 that gave   *)
(* up): the one way to lose a completion.                                   *)
(***************************************************************************)
Settling == {"fbClear", "dgClear", "clear", "start"}

DoneNotLost ==
    inFlight /\ ~wiped => \/ phase # "idle" \/ pp0Done
                          \/ \E t \in Threads : pc[t] \in Settling

(***************************************************************************)
(* The presenter writes the panel memory only when no frame is being sent,  *)
(* unless its wait gave up: "Wait for any in-flight DSI scanout before      *)
(* writing 0x98000000" (XZSFramebuffer.cpp 762).                            *)
(***************************************************************************)
NoTearing ==
    \A t \in Presenters : pc[t] = "draw" /\ ~late[t] => phase = "idle"

(* Every kick comes back and leaves the flag free: a kicker waits only for  *)
(* the panel or for another kicker.                                         *)
KicksReturn == \A t \in Threads : pc[t] # "idle" ~> pc[t] = "idle"
=============================================================================
