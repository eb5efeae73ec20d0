--------------------------- MODULE PresenterProofs ---------------------------
(***************************************************************************)
(* Proofs about Presenter, for any clients, surfaces, layers, destinations   *)
(* and bounds, with or without kick timeouts.                               *)
(***************************************************************************)
EXTENDS Presenter, TLAPS

(* The inductive invariant: fPresentReady is only ever set for a swap that  *)
(* is there to take.                                                        *)
ReadyInv ==
    /\ TypeOK
    /\ NoSwapLeftBehind
    /\ fPresentReady => fDirty
    /\ ppc \in {"signature", "draw"} => at \in LayerIds /\ Cur.id \in Surfaces

LEMMA SomeDestType == SomeDest \in Dests
  BY PresenterAssumption DEF SomeDest

LEMMA InitReady == Init => ReadyInv
  <1>. SUFFICES ASSUME Init PROVE ReadyInv
    OBVIOUS
  <1>1. TypeOK
    <2>1. fPending \in SwapRecs /\ rec \in SwapRecs
      BY SomeDestType DEF Init, SwapRecs, NoSwap
    <2>5. at \in 1 .. Layers + 1 /\ fLast \in Signatures \cup {NoSignature}
      BY PresenterAssumption DEF Init
    <2>6. mem \in Screens /\ lcd \in Screens
      BY DEF Init, Screens, ConsoleScreen
    <2>2. 0 \in 0 .. MaxVsync
      BY PresenterAssumption
    <2>3. content \in [Surfaces -> Contents]
      BY PresenterAssumption DEF Init
    <2>4. fbcon \in BOOLEAN /\ kpc \in [Writers -> {"idle", "draw", "kick"}]
      BY DEF Init
    <2>7. drew \in [dest : Dests, raced : BOOLEAN] /\ overdrawn \subseteq Dests
      BY SomeDestType DEF Init
    <2>. QED  BY <2>1, <2>2, <2>3, <2>4, <2>5, <2>6, <2>7 DEF Init, TypeOK
  <1>2. /\ NoSwapLeftBehind
        /\ fPresentReady => fDirty
        /\ ppc \notin {"signature", "draw"}
    BY DEF Init, NoSwapLeftBehind
  <1>. QED  BY <1>1, <1>2 DEF ReadyInv

-----------------------------------------------------------------------------
(* The presenter thread.                                                   *)
LEMMA NextLayerInRange ==
    ASSUME TypeOK, at \in LayerIds, NextLayer
    PROVE  at' \in 1 .. Layers + 1 /\ ppc' = "layer"
  BY PresenterAssumption DEF NextLayer, LayerIds

LEMMA PresenterThreadStep ==
    ASSUME ReadyInv, PresenterThread
    PROVE  ReadyInv'
  <1>. USE DEF ReadyInv, fbVars, powerVars, vsyncVars, screenVars, presenterVars
  <1>1. CASE SleepUntilReady
    BY <1>1 DEF SleepUntilReady, TypeOK, NoSwapLeftBehind
  <1>2. CASE TakeSwap
    <2>1. at' \in 1 .. Layers + 1
      BY <1>2, PresenterAssumption DEF TakeSwap
    <2>2. TypeOK'
      <3>1. /\ rec' = fPending /\ fDirty' = FALSE /\ fPresentReady' = FALSE
            /\ ppc' = "layer" /\ UNCHANGED <<fPending, fPowerOff, keyUsed, backlight>>
            /\ UNCHANGED <<fVsyncCount, fLastWaitVsync, vpc, fConsolePaused, gui, fbcon>>
            /\ UNCHANGED <<mem, lcd, kpc, overdrawn, fLast, drawn, drew, content, cpc, used>>
        BY <1>2 DEF TakeSwap
      <3>2. TypeOK
        OBVIOUS
      <3>3. /\ rec' \in SwapRecs /\ fDirty' \in BOOLEAN /\ fPresentReady' \in BOOLEAN
            /\ ppc' \in {"top", "asleep", "layer", "signature", "draw"}
        BY <3>1, <3>2 DEF TypeOK
      <3>. HIDE DEF ReadyInv
      <3>. QED  BY <2>1, <3>1, <3>2, <3>3 DEF TypeOK
    <2>3. NoSwapLeftBehind'
      BY <1>2 DEF TakeSwap, NoSwapLeftBehind
    <2>. QED  BY <1>2, <2>1, <2>2, <2>3 DEF TakeSwap
  <1>3. CASE SkipUndrawable
    <2>1. at' \in 1 .. Layers + 1 /\ ppc' = "layer"
      BY <1>3, NextLayerInRange DEF SkipUndrawable
    <2>. QED  BY <1>3, <2>1 DEF SkipUndrawable, TypeOK, NoSwapLeftBehind
  <1>4. CASE SkipForConsole
    <2>1. at' \in 1 .. Layers + 1 /\ ppc' = "layer"
      BY <1>4, NextLayerInRange DEF SkipForConsole, Drawable
    <2>. QED  BY <1>4, <2>1 DEF SkipForConsole, TypeOK, NoSwapLeftBehind
  <1>5. CASE ConsoleGate
    <2>1. at \in LayerIds /\ Cur.id \in Surfaces
      BY <1>5 DEF ConsoleGate, Drawable, Cur, TypeOK, SwapRecs
    <2>2. /\ gui' \in [ready : BOOLEAN, presented : BOOLEAN]
          /\ fbcon' \in BOOLEAN /\ fConsolePaused' \in BOOLEAN
      BY <1>5 DEF ConsoleGate, TypeOK
    <2>3. Cur' = Cur /\ UNCHANGED <<rec, at>>
      BY <1>5 DEF ConsoleGate, Cur
    <2>. QED  BY <1>5, <2>1, <2>2, <2>3 DEF ConsoleGate, TypeOK, NoSwapLeftBehind
  <1>6. CASE SkipUnchanged
    <2>1. at' \in 1 .. Layers + 1 /\ ppc' = "layer"
      BY <1>6, NextLayerInRange DEF SkipUnchanged
    <2>. QED  BY <1>6, <2>1 DEF SkipUnchanged, TypeOK, NoSwapLeftBehind
  <1>7. CASE RecordSignature
    <2>1. fLast' \in Signatures
      BY <1>7 DEF RecordSignature, Signature, Signatures, TypeOK, SwapRecs
    <2>2. Cur' = Cur /\ UNCHANGED <<rec, at>>
      BY <1>7 DEF RecordSignature, Cur
    <2>3. drew' \in [dest : Dests, raced : BOOLEAN]
      BY <1>7 DEF RecordSignature, Cur, TypeOK, SwapRecs
    <2>. QED  BY <1>7, <2>1, <2>2, <2>3 DEF RecordSignature, TypeOK, NoSwapLeftBehind
  <1>8. CASE DrawLayer
    <2>1. mem' \in Screens /\ overdrawn' \subseteq Dests
      BY <1>8 DEF DrawLayer, Screens, TypeOK
    <2>2. at' \in 1 .. Layers + 1 /\ ppc' = "layer"
      BY <1>8, NextLayerInRange DEF DrawLayer
    <2>. QED  BY <1>8, <2>1, <2>2 DEF DrawLayer, TypeOK, NoSwapLeftBehind
  <1>9. CASE KickPanel
    <2>1. lcd' \in Screens
      BY <1>9 DEF KickPanel, TypeOK
    <2>2. /\ drawn' = FALSE /\ ppc' = "top"
          /\ UNCHANGED <<fbVars, powerVars, vsyncVars, fConsolePaused, gui, fbcon,
                         mem, kpc, overdrawn, fLast, rec, at, drew, content, cpc, used>>
      BY <1>9 DEF KickPanel
    <2>3. TypeOK
      OBVIOUS
    <2>4. TypeOK'
      <3>1. /\ ppc' \in {"top", "asleep", "layer", "signature", "draw"}
            /\ drawn' \in BOOLEAN
        BY <2>2
      <3>2. /\ UNCHANGED <<fPending, rec, at, fDirty, fPresentReady, fPowerOff>>
            /\ UNCHANGED <<fConsolePaused, fbcon, keyUsed, backlight, fVsyncCount>>
            /\ UNCHANGED <<fLastWaitVsync, fLast, gui, content, mem, vpc, cpc, kpc>>
            /\ UNCHANGED <<used, drew, overdrawn>>
        BY <2>2
      <3>. HIDE DEF ReadyInv
      <3>. QED  BY <2>1, <2>3, <3>1, <3>2 DEF TypeOK
    <2>. QED  BY <2>2, <2>4 DEF NoSwapLeftBehind
  <1>. QED  BY <1>1, <1>2, <1>3, <1>4, <1>5, <1>6, <1>7, <1>8, <1>9
           DEF PresenterThread

(* Setting fPresentReady comes with a wakeup of the presenter.             *)
LEMMA ReadyWakes ==
    ASSUME ReadyInv,
           \/ fPresentReady' = TRUE /\ WakePresenter
           \/ UNCHANGED <<fPresentReady, ppc>>
    PROVE  /\ ppc' \in {"top", "asleep", "layer", "signature", "draw"}
           /\ ppc' \in {"signature", "draw"} => ppc' = ppc
           /\ fPresentReady' => ppc' # "asleep"
           /\ fPresentReady' \in BOOLEAN
  <1>1. /\ ppc \in {"top", "asleep", "layer", "signature", "draw"}
        /\ fPresentReady \in BOOLEAN
        /\ fPresentReady => ppc # "asleep"
    BY DEF ReadyInv, TypeOK, NoSwapLeftBehind
  <1>2. CASE fPresentReady' = TRUE /\ WakePresenter
    BY <1>1, <1>2 DEF WakePresenter
  <1>3. CASE UNCHANGED <<fPresentReady, ppc>>
    BY <1>1, <1>3
  <1>. QED  BY <1>2, <1>3

(* The timer, the console and the clients.                                 *)
LEMMA OtherStep ==
    ASSUME ReadyInv, Next, ~PresenterThread
    PROVE  ReadyInv'
  <1>. USE DEF ReadyInv, fbVars, powerVars, vsyncVars, screenVars, presenterVars,
               Cur
  <1>1. CASE VsyncCounts
    <2>1. fVsyncCount' \in 0 .. MaxVsync
      BY <1>1, PresenterAssumption DEF VsyncCounts, TypeOK
    <2>. QED  BY <1>1, <2>1 DEF VsyncCounts, TypeOK, NoSwapLeftBehind
  <1>2. CASE VsyncLocked
    <2>1. cpc' \in [Clients -> {"idle", "lightOff", "lightOn", "waiting", "woken"}]
      BY <1>2 DEF VsyncLocked, TypeOK
    <2>2. /\ UNCHANGED <<fPending, fDirty, powerVars, fVsyncCount, fLastWaitVsync,
                         screenVars, fLast, rec, at, drawn, drew, content, used>>
          /\ vpc' = "armed"
      BY <1>2 DEF VsyncLocked
    <2>3. \/ fDirty /\ fPresentReady' = TRUE /\ WakePresenter
          \/ UNCHANGED <<fPresentReady, ppc>>
      BY <1>2 DEF VsyncLocked
    <2>4. /\ ppc' \in {"top", "asleep", "layer", "signature", "draw"}
          /\ ppc' \in {"signature", "draw"} => ppc' = ppc
          /\ fPresentReady' => ppc' # "asleep"
          /\ fPresentReady' \in BOOLEAN
      BY <2>3, ReadyWakes
    <2>5. TypeOK'
      BY <2>1, <2>2, <2>4 DEF TypeOK
    <2>6. /\ NoSwapLeftBehind'
          /\ fPresentReady' => fDirty'
      BY <2>2, <2>3, <2>4 DEF NoSwapLeftBehind
    <2>. QED  BY <2>2, <2>4, <2>5, <2>6
  <1>3. ASSUME NEW w \in Writers, ConsoleWrite(w)
        PROVE  ReadyInv'
    <2>1. lcd' \in Screens /\ mem' \in Screens /\ overdrawn' \subseteq Dests
      BY <1>3 DEF ConsoleWrite, ConsoleEnter, ConsoleDraw, ConsoleKick, TypeOK, Screens
    <2>2. /\ used' \in [{"draw", "swap", "power", "console"} -> Nat]
          /\ kpc' \in [Writers -> {"idle", "draw", "kick"}]
      BY <1>3 DEF ConsoleWrite, ConsoleEnter, ConsoleDraw, ConsoleKick, Spend, TypeOK
    <2>3. UNCHANGED <<fbVars, powerVars, vsyncVars, fConsolePaused, gui, fbcon,
                      presenterVars, content, cpc>>
      BY <1>3 DEF ConsoleWrite, ConsoleEnter, ConsoleDraw, ConsoleKick
    <2>. QED  BY <2>1, <2>2, <2>3 DEF TypeOK, NoSwapLeftBehind
  <1>4. CASE SpringBoardSurface
    <2>1. gui' \in [ready : BOOLEAN, presented : BOOLEAN]
      BY <1>4 DEF SpringBoardSurface, TypeOK
    <2>. QED  BY <1>4, <2>1 DEF SpringBoardSurface, TypeOK, NoSwapLeftBehind
  <1>5. CASE PowerKey
    BY <1>5 DEF PowerKey, TypeOK, NoSwapLeftBehind
  <1>6. CASE \E s \in Surfaces, c \in Contents : DrawSurface(s, c)
    <2>1. PICK s \in Surfaces, c \in Contents : DrawSurface(s, c)
      BY <1>6
    <2>2. /\ content' \in [Surfaces -> Contents]
          /\ used' \in [{"draw", "swap", "power", "console"} -> Nat]
      BY <2>1 DEF DrawSurface, Spend, TypeOK
    <2>3. drew' \in [dest : Dests, raced : BOOLEAN]
      BY <2>1 DEF DrawSurface, TypeOK
    <2>. QED  BY <2>1, <2>2, <2>3 DEF DrawSurface, TypeOK, NoSwapLeftBehind
  <1>7. ASSUME NEW c \in Clients, NEW r \in Swaps, swap(c, r)
        PROVE  ReadyInv'
    <2>1. used' \in [{"draw", "swap", "power", "console"} -> Nat]
      BY <1>7 DEF swap, Spend, TypeOK
    <2>2. /\ fPending' = r /\ fDirty' = TRUE /\ r \in SwapRecs
          /\ UNCHANGED <<powerVars, vsyncVars, screenVars, fLast, rec, at, drawn,
                         drew, content, cpc>>
      BY <1>7, PresenterAssumption DEF swap
    <2>3. \/ fPowerOff /\ UNCHANGED <<fPresentReady, ppc>>
          \/ ~fPowerOff /\ fPresentReady' = TRUE /\ WakePresenter
      BY <1>7 DEF swap
    <2>4. /\ ppc' \in {"top", "asleep", "layer", "signature", "draw"}
          /\ ppc' \in {"signature", "draw"} => ppc' = ppc
          /\ fPresentReady' => ppc' # "asleep"
          /\ fPresentReady' \in BOOLEAN
      BY <2>3, ReadyWakes
    <2>5. TypeOK'
      BY <2>1, <2>2, <2>4 DEF TypeOK
    <2>6. NoSwapLeftBehind'
      BY <2>2, <2>3, <2>4 DEF NoSwapLeftBehind
    <2>. QED  BY <2>2, <2>4, <2>5, <2>6
  <1>8. ASSUME NEW c \in Clients, NEW off \in BOOLEAN, RequestPowerChange(c, off)
        PROVE  ReadyInv'
    <2>1. used' \in [{"draw", "swap", "power", "console"} -> Nat]
      BY <1>8 DEF RequestPowerChange, Spend, TypeOK
    <2>2. cpc' \in [Clients -> {"idle", "lightOff", "lightOn", "waiting", "woken"}]
      BY <1>8 DEF RequestPowerChange, TypeOK
    <2>3. /\ fPowerOff' = off
          /\ UNCHANGED <<fPending, keyUsed, backlight, vsyncVars, screenVars, rec,
                         at, drawn, drew, content>>
      BY <1>8 DEF RequestPowerChange
    <2>4. CASE fPowerOff /\ ~off
      BY <1>8, <2>1, <2>2, <2>3, <2>4
      DEF RequestPowerChange, TypeOK, NoSwapLeftBehind, WakePresenter
    <2>5. CASE ~(fPowerOff /\ ~off)
      BY <1>8, <2>1, <2>2, <2>3, <2>5
      DEF RequestPowerChange, TypeOK, NoSwapLeftBehind
    <2>. QED  BY <2>4, <2>5
  <1>9. ASSUME NEW c \in Clients, SwapWait(c)
        PROVE  ReadyInv'
    BY <1>9 DEF SwapWait, TypeOK, NoSwapLeftBehind
  <1>10. ASSUME NEW c \in Clients, CallReturns(c)
         PROVE  ReadyInv'
    <2>1. CASE SetBacklight(c)
      <3>1. backlight' \in BOOLEAN
        BY <2>1 DEF SetBacklight
      <3>. QED  BY <2>1, <3>1 DEF SetBacklight, TypeOK, NoSwapLeftBehind
    <2>2. CASE SwapWaitReturns(c)
      BY <2>2 DEF SwapWaitReturns, TypeOK, NoSwapLeftBehind
    <2>. QED  BY <1>10, <2>1, <2>2 DEF CallReturns
  <1>. QED  BY <1>1, <1>2, <1>3, <1>4, <1>5, <1>6, <1>7, <1>8, <1>9, <1>10
           DEF Next, Timer

LEMMA StutterReady == ReadyInv /\ UNCHANGED vars => ReadyInv'
  BY DEF ReadyInv, TypeOK, NoSwapLeftBehind, vars, fbVars, powerVars, vsyncVars,
         screenVars, presenterVars, Cur

-----------------------------------------------------------------------------
(* No swap waits unnoticed: the flags set by swap(), RequestPowerChange and  *)
(* vsyncFired, and the presenter's sleep, always agree.                     *)
THEOREM SwapsAreNoticed == Spec => []NoSwapLeftBehind
  <1>1. ReadyInv /\ [Next]_vars => ReadyInv'
    BY PresenterThreadStep, OtherStep, StutterReady
  <1>2. ReadyInv => NoSwapLeftBehind
    BY DEF ReadyInv
  <1>. QED  BY InitReady, <1>1, <1>2, PTL DEF Spec

(* The type invariant of the framebuffer state.                            *)
THEOREM PresenterTypes == Spec => []TypeOK
  <1>1. ReadyInv /\ [Next]_vars => ReadyInv'
    BY PresenterThreadStep, OtherStep, StutterReady
  <1>2. ReadyInv => TypeOK
    BY DEF ReadyInv
  <1>. QED  BY InitReady, <1>1, <1>2, PTL DEF Spec

(* swap, the presenter's copy and fDirty implement the one-place mailbox:    *)
(* what is taken is always the latest swap.                                 *)
THEOREM PresenterImplementsMailbox == Spec => ImplementsMailbox
  <1>1. Init => Mailbox!Init
    BY SomeDestType DEF Init, Mailbox!Init, SwapRecs, NoSwap
  <1>2. ASSUME ReadyInv, [Next]_vars
        PROVE  [Mailbox!Next]_<<fPending, rec, fDirty>>
    <2>. USE DEF fbVars, presenterVars
    <2>1. CASE TakeSwap
      BY <1>2, <2>1 DEF TakeSwap, ReadyInv, Mailbox!Next, Mailbox!Take
    <2>2. CASE \E c \in Clients, r \in Swaps : swap(c, r)
      BY <2>2, PresenterAssumption DEF swap, Mailbox!Next, Mailbox!Offer
    <2>3. CASE \E c \in Clients, off \in BOOLEAN : RequestPowerChange(c, off)
      BY <2>3 DEF RequestPowerChange, Mailbox!Next, Mailbox!OfferAgain
    <2>4. CASE UNCHANGED <<fPending, rec, fDirty>>
      BY <2>4
    <2>5. PresenterThread => TakeSwap \/ UNCHANGED <<fPending, rec, fDirty>>
      BY DEF PresenterThread, SleepUntilReady, SkipUndrawable, SkipForConsole,
             ConsoleGate, SkipUnchanged, RecordSignature, DrawLayer, KickPanel
    <2>6. \/ Timer \/ SpringBoardSurface \/ PowerKey
          \/ \E w \in Writers : ConsoleWrite(w)
          \/ \E s \in Surfaces, c \in Contents : DrawSurface(s, c)
          \/ \E c \in Clients : SwapWait(c) \/ CallReturns(c)
          => UNCHANGED <<fPending, rec, fDirty>>
      BY DEF Timer, VsyncCounts, VsyncLocked, ConsoleWrite, ConsoleEnter, ConsoleDraw,
             ConsoleKick, SpringBoardSurface, PowerKey, DrawSurface, SwapWait, CallReturns, SetBacklight,
             SwapWaitReturns
    <2>7. UNCHANGED vars => UNCHANGED <<fPending, rec, fDirty>>
      BY DEF vars
    <2>. QED  BY <1>2, <2>1, <2>2, <2>3, <2>4, <2>5, <2>6, <2>7 DEF Next
  <1>3. ReadyInv /\ [Next]_vars => ReadyInv'
    BY PresenterThreadStep, OtherStep, StutterReady
  <1>. QED  BY InitReady, <1>1, <1>2, <1>3, PTL DEF Spec, ImplementsMailbox, Mailbox!Spec

-----------------------------------------------------------------------------
(***************************************************************************)
(* The console.  While it has the panel the presenter is not past the gate, *)
(* so the two never draw side by side.                                      *)
(***************************************************************************)
ConsoleInv ==
    /\ ConsoleKeepsPanel
    /\ fbcon /\ ~fConsolePaused => ppc \notin {"signature", "draw"}

LEMMA ConsoleStep ==
    ASSUME TypeOK, ConsoleInv, Next
    PROVE  ConsoleInv'
  <1>. USE DEF ConsoleInv, ConsoleKeepsPanel, fbVars, powerVars, vsyncVars, screenVars,
               presenterVars
  <1>1. CASE PresenterThread
    <2>1. CASE SleepUntilReady \/ TakeSwap \/ SkipUndrawable \/ SkipForConsole \/ SkipUnchanged
      BY <2>1 DEF SleepUntilReady, TakeSwap, SkipUndrawable, SkipForConsole, SkipUnchanged,
                  NextLayer
    <2>2. CASE ConsoleGate
      <3>1. UNCHANGED <<mem, lcd>> /\ ~(fbcon' /\ ~fConsolePaused')
        BY <2>2 DEF ConsoleGate, TypeOK
      <3>. QED  BY <3>1
    <2>3. CASE RecordSignature \/ DrawLayer
      <3>1. ~(fbcon /\ ~fConsolePaused) /\ UNCHANGED <<fbcon, fConsolePaused>>
        BY <2>3 DEF RecordSignature, DrawLayer
      <3>. QED  BY <3>1
    <2>4. CASE KickPanel
      <3>1. /\ lcd' \in {mem, lcd} /\ UNCHANGED <<fbcon, fConsolePaused, mem>>
            /\ ppc' = "top"
        BY <2>4 DEF KickPanel
      <3>. QED  BY <3>1
    <2>. QED  BY <1>1, <2>1, <2>2, <2>3, <2>4 DEF PresenterThread
  <1>2. ASSUME NEW w \in Writers, ConsoleWrite(w)
        PROVE  ConsoleInv'
    <2>1. UNCHANGED <<fbcon, fConsolePaused, ppc>>
      BY <1>2 DEF ConsoleWrite, ConsoleEnter, ConsoleDraw, ConsoleKick
    <2>2. ASSUME mem = ConsoleScreen, lcd = ConsoleScreen
          PROVE  mem' = ConsoleScreen /\ lcd' = ConsoleScreen
      BY <1>2, <2>2 DEF ConsoleWrite, ConsoleEnter, ConsoleDraw, ConsoleKick, ConsoleScreen
    <2>. QED  BY <2>1, <2>2 DEF ConsoleScreen
  <1>3. CASE Next /\ ~PresenterThread /\ ~\E w \in Writers : ConsoleWrite(w)
    <2>1. UNCHANGED <<fbcon, fConsolePaused, mem, lcd>>
      BY <1>3 DEF Next, Timer, VsyncCounts, VsyncLocked, SpringBoardSurface, PowerKey,
                  DrawSurface, swap, RequestPowerChange, SwapWait, CallReturns,
                  SetBacklight, SwapWaitReturns
    <2>2. ppc' \in {ppc, "top"}
      BY <1>3 DEF Next, Timer, VsyncCounts, VsyncLocked, SpringBoardSurface, PowerKey,
                  DrawSurface, swap, RequestPowerChange, SwapWait, CallReturns,
                  SetBacklight, SwapWaitReturns, WakePresenter
    <2>. QED  BY <2>1, <2>2
  <1>. QED  BY <1>1, <1>2, <1>3

(* Until SpringBoard shows a visible frame the panel shows the boot console: *)
(* present()'s gate keeps every other frame away from it.                   *)
THEOREM ConsoleHasPanel == Spec => []ConsoleKeepsPanel
  <1>1. Init => ConsoleInv
    BY DEF Init, ConsoleInv, ConsoleKeepsPanel
  <1>2. TypeOK /\ ConsoleInv /\ [Next]_vars => ConsoleInv'
    <2>1. TypeOK /\ ConsoleInv /\ Next => ConsoleInv'
      BY ConsoleStep
    <2>2. ConsoleInv /\ UNCHANGED vars => ConsoleInv'
      BY DEF ConsoleInv, ConsoleKeepsPanel, vars, screenVars, presenterVars
    <2>. QED  BY <2>1, <2>2
  <1>3. ConsoleInv => ConsoleKeepsPanel
    BY DEF ConsoleInv
  <1>. QED  BY <1>1, <1>2, <1>3, PresenterTypes, PTL DEF Spec

-----------------------------------------------------------------------------
(***************************************************************************)
(* Skipping unchanged frames.  Between a signature and its copy the layer    *)
(* is the one the presenter is at; from the copy on, the memory at drew.dest *)
(* has what the signature was made of, until console text goes over it or    *)
(* another layer is recorded.  A kick leaves no difference between memory    *)
(* and panel but under console text.                                        *)
(***************************************************************************)
Recorded == fLast.id \in Surfaces

Copied ==
    ~drew.raced /\ drew.dest \notin overdrawn =>
        mem[drew.dest] \in Contents /\ Sampled[mem[drew.dest]] = fLast.sig

Kicked == KickTimesOut \/ drawn \/ \A d \in Dests \ overdrawn : lcd[d] = mem[d]

SkipInv ==
    /\ ppc = "draw" /\ Recorded =>
           /\ drew.dest = Cur.dest
           /\ ~drew.raced => fLast.sig = Sampled[content[Cur.id]]
    /\ ppc # "draw" /\ Recorded =>
           /\ drew.dest \notin overdrawn => mem[drew.dest] \in Contents
           /\ Copied
    /\ Kicked

LEMMA SkipThread ==
    ASSUME ReadyInv, SkipInv, PresenterThread
    PROVE  SkipInv'
  <1>. USE DEF fbVars, powerVars, vsyncVars, screenVars, presenterVars, Recorded
  <1>0. TypeOK
    BY DEF ReadyInv
  <1>1. CASE SleepUntilReady \/ TakeSwap \/ SkipUndrawable \/ SkipForConsole
             \/ SkipUnchanged \/ ConsoleGate
    <2>1. /\ UNCHANGED <<fLast, drawn, lcd, mem, content, drew, overdrawn>>
          /\ ppc' # "draw" /\ ppc # "draw"
      BY <1>1 DEF SleepUntilReady, TakeSwap, SkipUndrawable, SkipForConsole, SkipUnchanged,
                  ConsoleGate, NextLayer
    <2>. QED  BY <2>1 DEF SkipInv, Copied, Kicked
  <1>2. CASE RecordSignature
    <2>1. /\ UNCHANGED <<rec, at, drawn, lcd, mem, content, overdrawn>>
          /\ ppc' = "draw" /\ fLast' = Signature
          /\ drew' = [dest |-> Cur.dest, raced |-> FALSE]
      BY <1>2 DEF RecordSignature
    <2>2. Cur' = Cur
      BY <2>1 DEF Cur
    <2>3. fLast'.sig = Sampled[content[Cur.id]] /\ drew'.dest = Cur.dest
      BY <2>1 DEF Signature
    <2>4. Kicked'
      BY <2>1 DEF SkipInv, Kicked
    <2>. QED  BY <2>1, <2>2, <2>3, <2>4 DEF SkipInv
  <1>3. CASE DrawLayer
    <2>1. /\ UNCHANGED <<fLast, lcd, content, drew>>
          /\ ppc = "draw" /\ ppc' = "layer" /\ drawn' = TRUE
          /\ mem' = [mem EXCEPT ![Cur.dest] = content[Cur.id]]
      BY <1>3 DEF DrawLayer, NextLayer
    <2>2. Cur.id \in Surfaces /\ Cur.dest \in Dests
      BY <1>0, <2>1 DEF ReadyInv, Cur, TypeOK, SwapRecs
    <2>3. mem'[Cur.dest] = content[Cur.id] /\ content[Cur.id] \in Contents
      BY <1>0, <2>1, <2>2 DEF TypeOK, Screens
    <2>4. Recorded => drew.dest = Cur.dest /\ (~drew.raced => fLast.sig = Sampled[content[Cur.id]])
      BY <2>1 DEF SkipInv
    <2>5. Recorded' => mem'[drew'.dest] \in Contents /\ Copied'
      BY <2>1, <2>3, <2>4 DEF Copied
    <2>. QED  BY <2>1, <2>5 DEF SkipInv, Kicked
  <1>4. CASE KickPanel
    <2>1. /\ UNCHANGED <<fLast, mem, content, drew, overdrawn>>
          /\ ppc # "draw" /\ ppc' = "top"
      BY <1>4 DEF KickPanel
    <2>2. Kicked'
      <3>1. SUFFICES ASSUME ~KickTimesOut
                     PROVE  \A d \in Dests \ overdrawn : lcd'[d] = mem[d]
        BY <2>1 DEF Kicked
      <3>2. lcd' \in (IF drawn THEN {mem} ELSE {lcd})
        BY <1>4, <3>1 DEF KickPanel
      <3>. QED  BY <3>1, <3>2 DEF SkipInv, Kicked
    <2>. QED  BY <2>1, <2>2 DEF SkipInv, Copied
  <1>. QED  BY <1>1, <1>2, <1>3, <1>4 DEF PresenterThread

(* A console write changes the memory only where it is then called overdrawn. *)
LEMMA SkipConsole ==
    ASSUME ReadyInv, SkipInv, NEW w \in Writers, ConsoleWrite(w)
    PROVE  SkipInv'
  <1>. USE DEF presenterVars, Recorded
  <1>0. TypeOK
    BY DEF ReadyInv
  <1>1. UNCHANGED <<fLast, ppc, rec, at, drawn, drew, content>> /\ Cur' = Cur
    BY DEF ConsoleWrite, ConsoleEnter, ConsoleDraw, ConsoleKick, Cur
  <1>2. CASE ConsoleEnter(w)
    <2>1. UNCHANGED <<mem, lcd, overdrawn>>
      BY <1>2 DEF ConsoleEnter
    <2>. QED  BY <1>1, <2>1 DEF SkipInv, Copied, Kicked
  <1>3. CASE ConsoleKick(w)
    <2>1. UNCHANGED <<mem, overdrawn>> /\ lcd' \in {mem, lcd}
      BY <1>3 DEF ConsoleKick
    <2>2. Kicked'
      BY <1>1, <2>1 DEF SkipInv, Kicked
    <2>. QED  BY <1>1, <2>1, <2>2 DEF SkipInv, Copied
  <1>4. ASSUME NEW D \in SUBSET Dests, ConsoleDraw(w, D)
        PROVE  SkipInv'
    <2>1. /\ mem' = [d \in Dests |-> IF d \in D THEN Console ELSE mem[d]]
          /\ overdrawn' = overdrawn \cup {d \in D : mem[d] # Console}
          /\ UNCHANGED lcd
      BY <1>4 DEF ConsoleDraw
    <2>2. \A d \in Dests : d \notin overdrawn' => d \notin overdrawn /\ mem'[d] = mem[d]
      BY <2>1
    <2>3. Kicked'
      BY <1>1, <2>1, <2>2 DEF SkipInv, Kicked
    <2>4. drew.dest \in Dests
      BY <1>0 DEF TypeOK
    <2>5. ppc # "draw" /\ Recorded =>
              /\ drew.dest \notin overdrawn' => mem'[drew.dest] \in Contents
              /\ Copied'
      BY <1>1, <2>2, <2>4 DEF SkipInv, Copied
    <2>. QED  BY <1>1, <2>3, <2>5 DEF SkipInv
  <1>. QED  BY <1>2, <1>3, <1>4 DEF ConsoleWrite

LEMMA SkipOthers ==
    ASSUME ReadyInv, SkipInv, Next, ~PresenterThread
    PROVE  SkipInv'
  <1>. USE DEF fbVars, powerVars, vsyncVars, screenVars, presenterVars, Recorded
  <1>0. TypeOK
    BY DEF ReadyInv
  <1>1. CASE \E s \in Surfaces, c \in Contents : DrawSurface(s, c)
    <2>1. PICK s \in Surfaces, c \in Contents : DrawSurface(s, c)
      BY <1>1
    <2>2. /\ UNCHANGED <<rec, at, fLast, drawn, lcd, mem, ppc, overdrawn>>
          /\ content' = [content EXCEPT ![s] = c]
          /\ drew' = [drew EXCEPT !.raced = @ \/ (ppc = "draw" /\ s = Cur.id)]
      BY <2>1 DEF DrawSurface
    <2>3. /\ drew'.dest = drew.dest
          /\ ~drew'.raced => ~drew.raced /\ ~(ppc = "draw" /\ s = Cur.id)
      BY <1>0, <2>2 DEF TypeOK
    <2>4. Cur' = Cur /\ (ppc = "draw" => Cur.id \in Surfaces)
      BY <2>2 DEF Cur, ReadyInv
    <2>5. ppc = "draw" /\ ~drew'.raced => content'[Cur.id] = content[Cur.id]
      BY <1>0, <2>2, <2>3, <2>4 DEF TypeOK
    <2>6. ppc' = "draw" /\ Recorded' =>
              /\ drew'.dest = Cur'.dest
              /\ ~drew'.raced => fLast'.sig = Sampled[content'[Cur'.id]]
      BY <2>2, <2>3, <2>4, <2>5 DEF SkipInv
    <2>7. ppc' # "draw" /\ Recorded' =>
              /\ drew'.dest \notin overdrawn' => mem'[drew'.dest] \in Contents
              /\ Copied'
      BY <2>2, <2>3 DEF SkipInv, Copied
    <2>8. Kicked'
      BY <2>2 DEF SkipInv, Kicked
    <2>. QED  BY <2>6, <2>7, <2>8 DEF SkipInv
  <1>2. CASE \E w \in Writers : ConsoleWrite(w)
    BY <1>2, SkipConsole
  <1>3. ASSUME UNCHANGED <<rec, at, drawn, lcd, mem, content, drew, overdrawn>>,
               fLast' = fLast \/ fLast' = NoSignature,
               ppc' = ppc \/ (ppc # "draw" /\ ppc' # "draw")
        PROVE  SkipInv'
    <2>1. Cur' = Cur /\ Kicked'
      BY <1>3 DEF Cur, SkipInv, Kicked
    <2>2. CASE fLast' = fLast
      BY <1>3, <2>1, <2>2 DEF SkipInv, Copied
    <2>3. CASE fLast' = NoSignature
      <3>1. ~Recorded'
        BY <2>3, PresenterAssumption DEF NoSignature
      <3>. QED  BY <2>1, <3>1 DEF SkipInv
    <2>. QED  BY <1>3, <2>2, <2>3
  <1>4. CASE Timer \/ SpringBoardSurface \/ PowerKey
             \/ \E c \in Clients : SwapWait(c) \/ CallReturns(c)
    BY <1>3, <1>4 DEF Timer, VsyncCounts, VsyncLocked, SpringBoardSurface, PowerKey, SwapWait,
                CallReturns, SetBacklight, SwapWaitReturns, WakePresenter
  <1>5. ASSUME NEW c \in Clients, NEW r \in Swaps, swap(c, r)
        PROVE  SkipInv'
    BY <1>3, <1>5 DEF swap, WakePresenter
  <1>6. ASSUME NEW c \in Clients, NEW off \in BOOLEAN, RequestPowerChange(c, off)
        PROVE  SkipInv'
    BY <1>3, <1>6 DEF RequestPowerChange, WakePresenter
  <1>. QED  BY <1>1, <1>2, <1>4, <1>5, <1>6 DEF Next

LEMMA SkipStays == SkipInv /\ UNCHANGED vars => SkipInv'
  BY DEF SkipInv, Recorded, Copied, Kicked, vars, screenVars, presenterVars, Cur

LEMMA InitSkip == Init => SkipInv
  <1>1. Init => ~Recorded
    BY PresenterAssumption DEF Init, NoSignature, Recorded
  <1>2. Init => Kicked
    BY DEF Init, Kicked
  <1>. QED  BY <1>1, <1>2 DEF SkipInv

(* A layer that present() skips as unchanged is in the panel memory, by the   *)
(* pixels the signature samples, where it was last drawn, and on the panel    *)
(* or about to be kicked: for any swaps, contents, samples, kicks that give   *)
(* up or not, and console writes at any moment, with the exceptions           *)
(* SkippedIsThere names.                                                     *)
THEOREM SkippedLayersAreThere == Spec => SkippedIsThere
  <1>1. ReadyInv /\ SkipInv /\ [Next]_vars => SkipInv'
    BY SkipThread, SkipOthers, SkipStays
  <1>2. ASSUME ReadyInv, SkipInv
        PROVE  [LET d == drew.dest
                IN  SkipUnchanged /\ ~drew.raced /\ d \notin overdrawn =>
                     /\ mem[d] \in Contents /\ Sampled[mem[d]] = Sampled[content[Cur.id]]
                     /\ drawn \/ KickTimesOut \/ lcd[d] = mem[d]]_vars
    <2>1. SUFFICES ASSUME SkipUnchanged, ~drew.raced, drew.dest \notin overdrawn
                   PROVE  /\ mem[drew.dest] \in Contents
                          /\ Sampled[mem[drew.dest]] = Sampled[content[Cur.id]]
                          /\ drawn \/ KickTimesOut \/ lcd[drew.dest] = mem[drew.dest]
      OBVIOUS
    <2>2. ppc = "signature" /\ Signature = fLast
      BY <2>1 DEF SkipUnchanged
    <2>3. Recorded /\ fLast.sig = Sampled[content[Cur.id]]
      BY <1>2, <2>2 DEF ReadyInv, Recorded, Signature
    <2>4. drew.dest \in Dests
      BY <1>2 DEF ReadyInv, TypeOK
    <2>. QED  BY <1>2, <2>1, <2>2, <2>3, <2>4 DEF SkipInv, Copied, Kicked
  <1>3. ReadyInv /\ [Next]_vars => ReadyInv'
    BY PresenterThreadStep, OtherStep, StutterReady
  <1>. QED  BY InitReady, InitSkip, <1>1, <1>2, <1>3, PTL DEF Spec, SkippedIsThere
=============================================================================
