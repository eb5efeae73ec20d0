------------------------------ MODULE Presenter ------------------------------
(***************************************************************************)
(* AppleCLCD, the built-in IOMobileFramebuffer                              *)
(* (iokit/Kernel/arm/XZSFramebuffer.cpp): user clients hand over swaps, a   *)
(* 60 Hz timer fires, power requests come and go, and one presenter thread  *)
(* copies the latest swap into the panel memory and kicks the panel.        *)
(*                                                                         *)
(* A section under fLock is one step; everything the code does outside the  *)
(* lock is a step of its own.  A surface's pixels are a value of Contents;  *)
(* the CRC of present() sees only Sampled[content] of them.                 *)
(* Drawing a layer with several threads is the subject of SliceWorkers, the *)
(* panel kick that of FrameKicker: here a draw is one step and a kick       *)
(* either transfers the panel memory or, after its timeout, does nothing.   *)
(***************************************************************************)
EXTENDS Integers

CONSTANTS
    Clients,        \* threads calling IOMobileFramebufferUserClient
    PowerClients,   \* those of them that call RequestPowerChange
    Surfaces,       \* surface ids a swap may name
    NoSurface,      \* an id that is 0, unknown or cannot be drawn
    Layers,         \* SWEET_FB_LAYERS
    Swaps,          \* the swap records clients submit
    Contents,       \* pixels of a surface
    Blank,          \* the content too dark to end the boot console
    Sampled,        \* content -> the pixels the signature looks at
    Dests,          \* destination rectangles, disjoint parts of the panel
    Console,        \* what a part of the panel shows that has console text on it
    Writers,        \* threads in xzs_fbcon_write
    FlushTicks,     \* fFlushTicks
    AllowOff,       \* boot-arg sweetfb_allow_off
    KeepConsole,    \* boot-arg sweetfb_console
    ReuseContents,  \* whether a client may draw pixels it has drawn before
    KickTimesOut,   \* whether xzs_fb_present_kick may give up
    MaxDraws,       \* bound: redraws of surfaces
    MaxSwaps,       \* bound: SwapEnd calls
    MaxVsync,       \* bound: timer ticks
    MaxPower,       \* bound: RequestPowerChange calls
    MaxConsole      \* bound: console writes that find the console attached

LayerIds == 1 .. Layers

(* mask has a bit per layer; the source rectangle is the whole surface.     *)
SwapRecs == [mask : SUBSET LayerIds,
             layer : [LayerIds -> [id : Surfaces \cup {NoSurface}, dest : Dests]]]

ASSUME PresenterAssumption ==
    /\ PowerClients \subseteq Clients
    /\ NoSurface \notin Surfaces
    /\ Layers \in Nat \ {0}
    /\ Dests # {}
    /\ Swaps \subseteq SwapRecs
    /\ Blank \in Contents /\ Console \notin Contents
    /\ DOMAIN Sampled = Contents
    /\ FlushTicks \in Nat \ {0}
    /\ {AllowOff, KeepConsole, ReuseContents, KickTimesOut} \subseteq BOOLEAN
    /\ {MaxDraws, MaxSwaps, MaxVsync, MaxPower, MaxConsole} \subseteq Nat

VARIABLES
    fPending,       \* latest swap
    fDirty,
    fPresentReady,
    fPowerOff,
    fVsyncCount,
    fLastWaitVsync,
    fConsolePaused,
    fLast,          \* fLastPresentedID and fLastPresentedCRC
    gui,            \* <<g_xzs_springboard_surface_ready, g_xzs_gui_presented>>
    keyUsed,        \* g_xzs_power_key_used
    fbcon,          \* xzs_fbcon_is_active()
    content,        \* surface -> its pixels now
    backlight,      \* what xzs_fb_set_backlight was last told
    mem,            \* the panel memory
    lcd,            \* what the last kick sent to the panel
    ppc,            \* where the presenter thread is
    rec,            \* its copy of the swap
    at,             \* the layer it is at
    drawn,          \* any_drawn
    kpc,            \* where each console write is
    vpc,            \* where the timer handler is
    cpc,            \* where each client thread is
    used,           \* how much of each bound is spent
    drew,           \* history: where the layer of the last signature goes, and
                    \* whether its surface was redrawn before it was copied
    overdrawn       \* history: parts of the panel with console text over a frame

fbVars == <<fPending, fDirty, fPresentReady>>
powerVars == <<fPowerOff, keyUsed, backlight>>
vsyncVars == <<fVsyncCount, fLastWaitVsync, vpc>>
screenVars == <<fConsolePaused, gui, fbcon, mem, lcd, kpc, overdrawn>>
presenterVars == <<fLast, ppc, rec, at, drawn, drew>>
vars == <<fbVars, powerVars, vsyncVars, screenVars, presenterVars, content,
          cpc, used>>

(* fPending is zeroed with the object.                                     *)
SomeDest == CHOOSE d \in Dests : TRUE
NoSwap == [mask |-> {},
           layer |-> [i \in LayerIds |-> [id |-> NoSurface, dest |-> SomeDest]]]

Signatures == [id : Surfaces, mask : SUBSET LayerIds,
               sig : {Sampled[c] : c \in Contents}]
NoSignature == [id |-> NoSurface, mask |-> {}, sig |-> NoSurface]
Screens == [Dests -> Contents \cup {Console}]
ConsoleScreen == [d \in Dests |-> Console]

Spend(k) == used' = [used EXCEPT ![k] = @ + 1]

(* IOLockWakeup(fLock, &fPresentReady, true)                               *)
WakePresenter == ppc' = IF ppc = "asleep" THEN "top" ELSE ppc

-----------------------------------------------------------------------------
(* start(): the boot console is kept unless sweetfb_noconsole is given; it   *)
(* may never have been attached.                                            *)
Init ==
    /\ fPending = NoSwap /\ rec = NoSwap /\ at = 1
    /\ fDirty = FALSE /\ fPresentReady = FALSE /\ fPowerOff = FALSE
    /\ fVsyncCount = 0 /\ fLastWaitVsync = 0
    /\ fConsolePaused \in BOOLEAN
    /\ fbcon \in BOOLEAN /\ (fConsolePaused => ~fbcon)
    /\ fLast = NoSignature
    /\ gui = [ready |-> FALSE, presented |-> FALSE]
    /\ keyUsed = FALSE /\ backlight = TRUE
    /\ content = [s \in Surfaces |-> Blank]
    /\ mem = ConsoleScreen /\ lcd = ConsoleScreen
    /\ ppc = "top" /\ drawn = FALSE /\ vpc = "armed"
    /\ cpc = [c \in Clients |-> "idle"] /\ kpc = [w \in Writers |-> "idle"]
    /\ drew = [dest |-> SomeDest, raced |-> FALSE] /\ overdrawn = {}
    /\ used = [k \in {"draw", "swap", "power", "console"} |-> 0]

(* The layer the presenter is at.                                          *)
Cur == rec.layer[at]

(***************************************************************************)
(* The clients.                                                            *)
(***************************************************************************)
(* An application draws into a surface, at any time.  When contents may not *)
(* be reused they are numbers, drawn in order.                              *)
DrawSurface(s, c) ==
    /\ used["draw"] < MaxDraws
    /\ ReuseContents \/ c = used["draw"] + 1
    /\ content' = [content EXCEPT ![s] = c]
    /\ drew' = [drew EXCEPT !.raced = @ \/ (ppc = "draw" /\ s = Cur.id)]
    /\ Spend("draw")
    /\ UNCHANGED <<fbVars, powerVars, vsyncVars, screenVars, fLast, ppc, rec, at,
                   drawn, cpc>>

(* The first surface SpringBoard creates sets the global.                  *)
SpringBoardSurface ==
    /\ ~gui.ready
    /\ gui' = [gui EXCEPT !.ready = TRUE]
    /\ UNCHANGED <<fbVars, powerVars, vsyncVars, fConsolePaused, fbcon, mem, lcd,
                   kpc, overdrawn, presenterVars, content, cpc, used>>

(* Mutant: the swap is left to the next timer tick.                         *)
swapUnready(c, r) ==
    /\ cpc[c] = "idle"
    /\ used["swap"] < MaxSwaps
    /\ fPending' = r
    /\ fDirty' = TRUE
    /\ Spend("swap")
    /\ UNCHANGED <<fPresentReady, powerVars, vsyncVars, screenVars, presenterVars,
                   content, cpc>>

(* Mutant: fPresentReady is set without a wakeup.                           *)
swapNoWakeup(c, r) ==
    /\ cpc[c] = "idle"
    /\ used["swap"] < MaxSwaps
    /\ fPending' = r
    /\ fDirty' = TRUE
    /\ fPresentReady' = (fPresentReady \/ ~fPowerOff)
    /\ Spend("swap")
    /\ UNCHANGED <<powerVars, vsyncVars, screenVars, presenterVars, content, cpc>>

swap(c, r) ==
    /\ cpc[c] = "idle"
    /\ used["swap"] < MaxSwaps
    /\ fPending' = r
    /\ fDirty' = TRUE
    /\ IF fPowerOff THEN UNCHANGED <<fPresentReady, ppc>>
                    ELSE fPresentReady' = TRUE /\ WakePresenter
    /\ Spend("swap")
    /\ UNCHANGED <<powerVars, vsyncVars, screenVars, fLast, rec, at, drawn, drew,
                   content, cpc>>

(* RequestPowerChange under the lock; the backlight follows outside it.     *)
RequestPowerChange(c, off) ==
    /\ c \in PowerClients
    /\ cpc[c] = "idle"
    /\ used["power"] < MaxPower
    /\ ~off \/ AllowOff \/ keyUsed
    /\ fPowerOff' = off
    /\ IF fPowerOff /\ ~off
       THEN /\ fLast' = NoSignature
            /\ fDirty' = TRUE
            /\ fPresentReady' = TRUE
            /\ WakePresenter
       ELSE UNCHANGED <<fLast, fDirty, fPresentReady, ppc>>
    /\ cpc' = [cpc EXCEPT ![c] = IF off THEN "lightOff" ELSE "lightOn"]
    /\ Spend("power")
    /\ UNCHANGED <<fPending, keyUsed, backlight, vsyncVars, screenVars, rec,
                   at, drawn, drew, content>>

SetBacklight(c) ==
    /\ cpc[c] \in {"lightOff", "lightOn"}
    /\ backlight' = (cpc[c] = "lightOn")
    /\ cpc' = [cpc EXCEPT ![c] = "idle"]
    /\ UNCHANGED <<fbVars, fPowerOff, keyUsed, vsyncVars, screenVars,
                   presenterVars, content, used>>

(* An idle off request is refused until the power key has been pressed.     *)
PowerKey ==
    /\ ~keyUsed
    /\ keyUsed' = TRUE
    /\ UNCHANGED <<fbVars, fPowerOff, backlight, vsyncVars, screenVars,
                   presenterVars, content, cpc, used>>

SwapWait(c) ==
    /\ cpc[c] = "idle"
    /\ IF ~fPowerOff /\ fLastWaitVsync = fVsyncCount
       THEN /\ cpc' = [cpc EXCEPT ![c] = "waiting"]
            /\ UNCHANGED fLastWaitVsync
       ELSE /\ fLastWaitVsync' = fVsyncCount
            /\ UNCHANGED cpc
    /\ UNCHANGED <<fbVars, powerVars, fVsyncCount, vpc, screenVars,
                   presenterVars, content, used>>

(* Woken by the timer, or by the 16 ms deadline, the thread takes the lock   *)
(* again and reads the count again.                                         *)
SwapWaitReturns(c) ==
    /\ cpc[c] \in {"waiting", "woken"}
    /\ fLastWaitVsync' = fVsyncCount
    /\ cpc' = [cpc EXCEPT ![c] = "idle"]
    /\ UNCHANGED <<fbVars, powerVars, fVsyncCount, vpc, screenVars,
                   presenterVars, content, used>>

(***************************************************************************)
(* vsyncFired: the count goes up before the lock is taken.                  *)
(***************************************************************************)
VsyncCounts ==
    /\ vpc = "armed"
    /\ fVsyncCount < MaxVsync
    /\ fVsyncCount' = fVsyncCount + 1
    /\ vpc' = "fired"
    /\ UNCHANGED <<fbVars, powerVars, fLastWaitVsync, screenVars, presenterVars,
                   content, cpc, used>>

VsyncLocked ==
    /\ vpc = "fired"
    /\ cpc' = [c \in Clients |-> IF cpc[c] = "waiting" THEN "woken" ELSE cpc[c]]
    /\ IF ~fPowerOff /\ fDirty /\ fVsyncCount % FlushTicks = 0
       THEN fPresentReady' = TRUE /\ WakePresenter
       ELSE UNCHANGED <<fPresentReady, ppc>>
    /\ vpc' = "armed"
    /\ UNCHANGED <<fPending, fDirty, powerVars, fVsyncCount, fLastWaitVsync,
                   screenVars, fLast, rec, at, drawn, drew, content, used>>

(***************************************************************************)
(* presenterMain, and present() with its loop over the layers.             *)
(***************************************************************************)
SleepUntilReady ==
    /\ ppc = "top" /\ ~fPresentReady
    /\ ppc' = "asleep"
    /\ UNCHANGED <<fbVars, powerVars, vsyncVars, screenVars, fLast, rec, at, drawn,
                   drew, content, cpc, used>>

(* Mutant: the flags are cleared before the swap is copied.                 *)
TakeSwapUncopied ==
    /\ ppc = "top" /\ fPresentReady
    /\ fPresentReady' = FALSE
    /\ fDirty' = FALSE
    /\ at' = 1
    /\ ppc' = "layer"
    /\ UNCHANGED <<fPending, powerVars, vsyncVars, screenVars, fLast, rec, drawn,
                   drew, content, cpc, used>>

TakeSwap ==
    /\ ppc = "top" /\ fPresentReady
    /\ rec' = fPending
    /\ fPresentReady' = FALSE
    /\ fDirty' = FALSE
    /\ at' = 1
    /\ ppc' = "layer"
    /\ UNCHANGED <<fPending, powerVars, vsyncVars, screenVars, fLast, drawn,
                   drew, content, cpc, used>>

(* The layer is on, its surface is known and part of it falls on the panel. *)
Drawable == at \in LayerIds /\ at \in rec.mask /\ Cur.id # NoSurface

(* `continue`: on to the next layer.                                       *)
NextLayer == at' = at + 1 /\ ppc' = "layer"

(* Mutant: the loop over the layers has no end test.                        *)
SkipUndrawableEndless ==
    /\ ppc = "layer" /\ ~Drawable
    /\ NextLayer
    /\ UNCHANGED <<fbVars, powerVars, vsyncVars, screenVars, fLast, rec, drawn,
                   drew, content, cpc, used>>

SkipUndrawable ==
    /\ ppc = "layer" /\ at \in LayerIds /\ ~Drawable
    /\ NextLayer
    /\ UNCHANGED <<fbVars, powerVars, vsyncVars, screenVars, fLast, rec, drawn,
                   drew, content, cpc, used>>

(* The panel belongs to the console until SpringBoard has a visible frame.  *)
Visible(s) == gui.ready /\ content[s] # Blank

SkipForConsole ==
    /\ ppc = "layer" /\ Drawable
    /\ ~fConsolePaused /\ ~Visible(Cur.id) /\ fbcon
    /\ NextLayer
    /\ UNCHANGED <<fbVars, powerVars, vsyncVars, screenVars, fLast, rec, drawn,
                   drew, content, cpc, used>>

(* Mutant: any frame may be drawn over the boot console.                    *)
ConsoleGateOpen ==
    /\ ppc = "layer" /\ Drawable
    /\ gui' = [gui EXCEPT !.presented = @ \/ gui.ready]
    /\ ppc' = "signature"
    /\ UNCHANGED <<fbVars, powerVars, vsyncVars, fConsolePaused, fbcon, mem, lcd,
                   kpc, overdrawn, fLast, rec, at, drawn, drew, content, cpc, used>>

ConsoleGate ==
    /\ ppc = "layer" /\ Drawable
    /\ fConsolePaused \/ Visible(Cur.id) \/ ~fbcon
    /\ IF ~fConsolePaused /\ Visible(Cur.id)
       THEN /\ fConsolePaused' = TRUE
            /\ gui' = [gui EXCEPT !.presented = TRUE]
            /\ fbcon' = (fbcon /\ KeepConsole)
       ELSE /\ gui' = [gui EXCEPT !.presented = @ \/ (fConsolePaused /\ gui.ready)]
            /\ UNCHANGED <<fConsolePaused, fbcon>>
    /\ ppc' = "signature"
    /\ UNCHANGED <<fbVars, powerVars, vsyncVars, mem, lcd, kpc, overdrawn, fLast,
                   rec, at, drawn, drew, content, cpc, used>>

(* Mutant: a signature without the pixels.                                  *)
SignatureNoPixels == [id |-> Cur.id, mask |-> rec.mask, sig |-> Sampled[Blank]]

(* The signature covers the id, the mask, the source rectangle and some of  *)
(* the pixels; the destination is not part of it.                           *)
Signature == [id |-> Cur.id, mask |-> rec.mask, sig |-> Sampled[content[Cur.id]]]

SkipUnchanged ==
    /\ ppc = "signature" /\ fConsolePaused /\ Signature = fLast
    /\ NextLayer
    /\ UNCHANGED <<fbVars, powerVars, vsyncVars, screenVars, fLast, rec, drawn,
                   drew, content, cpc, used>>

RecordSignature ==
    /\ ppc = "signature" /\ ~(fConsolePaused /\ Signature = fLast)
    /\ fLast' = Signature
    /\ drew' = [dest |-> Cur.dest, raced |-> FALSE]
    /\ ppc' = "draw"
    /\ UNCHANGED <<fbVars, powerVars, vsyncVars, screenVars, rec, at, drawn,
                   content, cpc, used>>

DrawLayer ==
    /\ ppc = "draw"
    /\ mem' = [mem EXCEPT ![Cur.dest] = content[Cur.id]]
    /\ overdrawn' = overdrawn \ {Cur.dest}
    /\ drawn' = TRUE
    /\ NextLayer
    /\ UNCHANGED <<fbVars, powerVars, vsyncVars, fConsolePaused, gui, fbcon, lcd,
                   kpc, fLast, rec, drew, content, cpc, used>>

(* xzs_fb_present_kick returns nothing: a kick that gave up looks the same. *)
KickPanel ==
    /\ ppc = "layer" /\ at \notin LayerIds
    /\ lcd' \in (IF drawn THEN {mem} ELSE {lcd}) \cup (IF KickTimesOut THEN {lcd} ELSE {})
    /\ drawn' = FALSE
    /\ ppc' = "top"
    /\ UNCHANGED <<fbVars, powerVars, vsyncVars, fConsolePaused, gui, fbcon, mem,
                   kpc, overdrawn, fLast, rec, at, drew, content, cpc, used>>

(***************************************************************************)
(* xzs_fbcon_write: whether the console is attached is tested before any     *)
(* lock is taken, and xzs_fbcon_detach takes none, so a write under way      *)
(* draws on whatever the panel has become.  It draws under g_fbcon_lock,     *)
(* or returns if it does not get it, and kicks after the unlock; most of its *)
(* kicks do not wait and are dropped if the panel or a kicker is busy.       *)
(***************************************************************************)
ConsoleEnter(w) ==
    /\ kpc[w] = "idle" /\ fbcon
    /\ used["console"] < MaxConsole
    /\ kpc' = [kpc EXCEPT ![w] = "draw"]
    /\ Spend("console")
    /\ UNCHANGED <<fbVars, powerVars, vsyncVars, fConsolePaused, gui, fbcon, mem, lcd,
                   overdrawn, presenterVars, content, cpc>>

(* The text falls on the parts D of the panel; none if the lock is not had. *)
ConsoleDraw(w, D) ==
    /\ kpc[w] = "draw"
    /\ mem' = [d \in Dests |-> IF d \in D THEN Console ELSE mem[d]]
    /\ overdrawn' = overdrawn \cup {d \in D : mem[d] # Console}
    /\ kpc' = [kpc EXCEPT ![w] = IF D = {} THEN "idle" ELSE "kick"]
    /\ UNCHANGED <<fbVars, powerVars, vsyncVars, fConsolePaused, gui, fbcon, lcd,
                   presenterVars, content, cpc, used>>

ConsoleKick(w) ==
    /\ kpc[w] = "kick"
    /\ lcd' \in {mem, lcd}
    /\ kpc' = [kpc EXCEPT ![w] = "idle"]
    /\ UNCHANGED <<fbVars, powerVars, vsyncVars, fConsolePaused, gui, fbcon, mem,
                   overdrawn, presenterVars, content, cpc, used>>

-----------------------------------------------------------------------------
PresenterThread ==
    \/ SleepUntilReady \/ TakeSwap \/ SkipUndrawable \/ SkipForConsole
    \/ ConsoleGate \/ SkipUnchanged \/ RecordSignature \/ DrawLayer
    \/ KickPanel

Timer == VsyncCounts \/ VsyncLocked

(* A call already inside the kernel goes on by itself.                     *)
CallReturns(c) == SetBacklight(c) \/ SwapWaitReturns(c)

ConsoleWrite(w) ==
    ConsoleEnter(w) \/ (\E D \in SUBSET Dests : ConsoleDraw(w, D)) \/ ConsoleKick(w)

Next ==
    \/ PresenterThread
    \/ Timer
    \/ \E w \in Writers : ConsoleWrite(w)
    \/ SpringBoardSurface
    \/ PowerKey
    \/ \E s \in Surfaces, c \in Contents : DrawSurface(s, c)
    \/ \E c \in Clients :
          \/ \E r \in Swaps : swap(c, r)
          \/ \E off \in BOOLEAN : RequestPowerChange(c, off)
          \/ SwapWait(c)
          \/ CallReturns(c)

Spec == Init /\ [][Next]_vars

(* Presenter, timer and calls of clients that can run do; what users and    *)
(* clients start is free, and so is the console.                            *)
FairSpec ==
    /\ Spec
    /\ WF_vars(PresenterThread) /\ WF_vars(Timer)
    /\ \A c \in Clients : WF_vars(CallReturns(c))

-----------------------------------------------------------------------------
(* Type invariant.                                                         *)
TypeOK ==
    /\ fPending \in SwapRecs /\ rec \in SwapRecs /\ at \in 1 .. Layers + 1
    /\ fDirty \in BOOLEAN /\ fPresentReady \in BOOLEAN /\ fPowerOff \in BOOLEAN
    /\ fConsolePaused \in BOOLEAN /\ fbcon \in BOOLEAN /\ drawn \in BOOLEAN
    /\ keyUsed \in BOOLEAN /\ backlight \in BOOLEAN
    /\ fVsyncCount \in 0 .. MaxVsync /\ fLastWaitVsync \in 0 .. MaxVsync
    /\ fLast \in Signatures \cup {NoSignature}
    /\ gui \in [ready : BOOLEAN, presented : BOOLEAN]
    /\ content \in [Surfaces -> Contents]
    /\ mem \in Screens /\ lcd \in Screens
    /\ ppc \in {"top", "asleep", "layer", "signature", "draw"}
    /\ vpc \in {"armed", "fired"}
    /\ cpc \in [Clients -> {"idle", "lightOff", "lightOn", "waiting", "woken"}]
    /\ kpc \in [Writers -> {"idle", "draw", "kick"}]
    /\ used \in [{"draw", "swap", "power", "console"} -> Nat]
    /\ drew \in [dest : Dests, raced : BOOLEAN] /\ overdrawn \subseteq Dests

(***************************************************************************)
(* No swap is left behind: a swap the presenter has not taken is either on  *)
(* its way (fPresentReady, with the presenter awake) or held back by power  *)
(* off; the re-arming in vsyncFired is never what saves it.                 *)
(***************************************************************************)
NoSwapLeftBehind ==
    /\ fDirty /\ ~fPowerOff => fPresentReady
    /\ fPresentReady => ppc # "asleep"

(* fPending, rec and fDirty are a mailbox that keeps the latest value.      *)
Mailbox == INSTANCE LatestFrame
             WITH Values <- SwapRecs, offered <- fPending, taken <- rec, fresh <- fDirty
ImplementsMailbox == Mailbox!Spec

(***************************************************************************)
(* A layer skipped because its signature is the last one presented is       *)
(* already on the panel, or drawn and about to be kicked: "skip redundant   *)
(* 8.35 MB copies + DSI Command-Mode kicks when backboardd submits an       *)
(* unchanged frame" (XZSFramebuffer.cpp 732-734).                           *)
(***************************************************************************)
SkipIsRedundant ==
    [][SkipUnchanged =>
        /\ mem[Cur.dest] = content[Cur.id]
        /\ drawn \/ lcd[Cur.dest] = mem[Cur.dest]]_vars

(***************************************************************************)
(* What does hold of a skipped layer (XZSFramebuffer.cpp 754-763).  Where    *)
(* the layer of the last signature was drawn, the panel memory holds pixels  *)
(* the signature does not tell from the surface's, and they are on the panel *)
(* or about to be kicked unless kicks give up.  Excepted are a surface that  *)
(* was redrawn between its signature and its copy, and a place a console     *)
(* write that began before the hand-over has drawn over.                     *)
(***************************************************************************)
SkippedIsThere ==
    [][LET d == drew.dest
       IN  SkipUnchanged /\ ~drew.raced /\ d \notin overdrawn =>
            /\ mem[d] \in Contents /\ Sampled[mem[d]] = Sampled[content[Cur.id]]
            /\ drawn \/ KickTimesOut \/ lcd[d] = mem[d]]_vars

(***************************************************************************)
(* The top layer of a swap that stays the latest, of a surface that is not   *)
(* blank and not redrawn meanwhile, reaches the panel unless the display is  *)
(* turned off: on power on the last swap is presented again.  Excepted is a  *)
(* place that a console write, begun before the hand-over, draws over; that  *)
(* no client draws what it has drawn before is a constant (ReuseContents),   *)
(* and so is that the presenter's kick does not give up (KickTimesOut).      *)
(***************************************************************************)
DrawableLayers(r) == {i \in r.mask : r.layer[i].id # NoSurface}
Top(r) == r.layer[CHOOSE i \in DrawableLayers(r) :
                      \A j \in DrawableLayers(r) : j <= i]

SwapsAreShown ==
    \A r \in Swaps : \A k \in Contents \ {Blank} : DrawableLayers(r) # {} =>
        (/\ fDirty /\ fPending = r /\ content[Top(r).id] = k
         /\ fConsolePaused \/ gui.ready)
          ~> (\/ lcd[Top(r).dest] = k
              \/ fPending # r \/ content[Top(r).id] # k \/ fPowerOff
              \/ Top(r).dest \in overdrawn)

(* Until SpringBoard shows a visible frame the panel is the console's.      *)
ConsoleKeepsPanel ==
    fbcon /\ ~fConsolePaused => mem = ConsoleScreen /\ lcd = ConsoleScreen

(* When no power request is under way, the backlight agrees with the last   *)
(* one: "0 = display off ..., else on" (XZSFramebuffer.cpp 19-22).          *)
BacklightFollowsPower ==
    (\A c \in Clients : cpc[c] \notin {"lightOff", "lightOn"})
        => backlight = ~fPowerOff
=============================================================================
