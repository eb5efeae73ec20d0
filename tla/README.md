# A TLA+ model of the xnu-xzs display, surface, input and USB console drivers

The repository brings XNU up on a Sony phone with a Qualcomm MSM8996 and adds
the drivers iOS's user space expects: a framebuffer, IOSurface, HID input, a
root file system, storage, USB and the usual stand-ins. Nearly all of the 6366
files are Apple's kernel. The port's own logic is small, and its hard part is
what runs concurrently after boot: the display path, the surfaces it shows, the
input drivers and the USB console. That is what the modules here model.

Paths below are relative to `src/src/xnu/`; FB is
`iokit/Kernel/arm/XZSFramebuffer.cpp`, SU `iokit/Kernel/arm/XZSSurface.cpp`, HI
`iokit/Kernel/arm/hid/SweetHID.cpp`, D8 `pexpert/arm/xzs_d8m8.h`, DG
`pexpert/arm/xzs_diag.c`, FC `pexpert/arm/xzs_fbcon.h`, US
`pexpert/arm/xzs_usb.c`.

## The system's parts

| part | state | operations | what makes it correct |
| --- | --- | --- | --- |
| layer drawing (FB) | `fJob` with `gen` and `done_count`, two wait queues, worker ids | `present` posts a job and draws slice 0; `helperMain` waits, draws its slice, counts itself | every row drawn before `present` goes on; job and surface stable while read; no lost wakeup |
| presenter (FB) | `fPending`, `fDirty`, `fPresentReady`, power flags, last signature, console flags | `swap`, `SwapWait`, `RequestPowerChange`, `vsyncFired`, `presenterMain`, `present` | the latest swap reaches the panel; skipped layers really are where they were drawn; the boot console keeps its panel until hand-over; backlight and power agree |
| panel kicks (D8, DG, FC) | `g_m8_frame_in_flight`, `g_m8_kick_lock`, `g_m8_suppress_kick`, the MDP5/DSI status | `wait_frame_idle`, `kick_frame_ex`, `xzs_fb_wait_idle`, `xzs_fbcon_write`, `prekick_status` | the spin flag is a lock; no re-trigger, no lost completion, no tearing, every kick returns |
| surfaces (SU) | id table, user counts, kept buffers, wired account, per-client references | create, publish, look up (id, port), addRef, release, clientClose, free | counts exact under races and failures; no buffer owned twice; no old pixels |
| touch (HI) | `active_mask`, last positions, failure streak, digitizer state | `xzs_touch_thread`, `SweetHIDTouch::touch` | lifts reported, held fingers reported, smooth paths |
| keys (HI) | resting levels, key states, client list | `xzs_keys_thread`, `dispatchEvent`, `handleOpen`, `handleClose` | every client is told what was seen, once |
| USB console (US) | event ring, `s_usb_event_worker_lock`, endpoint-zero state, bulk session, `s_tx_ring` with `s_tx_busy`, two thread calls | interrupt and polls drain the controller; `xzs_t1y_event_deferred`; `xzs_t1z_tx_worker`; `xzs_usb_pump_sync`; `xzs_usb_console_write` | no event, status stage or byte stuck; bytes in order; endpoints listen; the console comes up, also on a reconnect |
| the rest | | | see *Not modelled* |

How they meet: a client draws into a surface and submits its id with `swap`;
the presenter looks the surface up (a user count of SU's table keeps it),
draws it with the helpers into panel memory at 0x98000000, and kicks the
panel. The text console writes the same memory and kicks the same panel until
the GUI takes over. The power key sets `g_xzs_power_key_used`, which
`RequestPowerChange` reads. Console output goes to the text console and into the USB
transmit ring; the sampler thread pumps the USB worker once a second besides the
interrupt. Hard behaviours: the lock-free job record, state
used after an unlock, timeouts in polling loops, ids and buffers that are
reused, reads that fail, attention interrupts cleared with an earlier event,
clients that come and go in the middle of a dispatch, a worker that gives up when
another holds its lock, a bus reset in the middle of a transfer. `PROJECT.json` lists the
hazards with their lines, and for each the properties that cover it or the
reason none does.

## Modules

**SliceWorkers** (FB 112-122, 305-316, 392-531, 765-817). One action per access to
a shared word: a helper's `assert_wait`, load of `gen`, block, draw, count,
wakeup; the presenter's reset, bump, wakeup, own slice, check, `assert_wait`,
re-check, block. The panel is a function from rows to frame numbers, and
`renderSlice` writes the code's row interval `py0 + rows*w/total`. `gen` counts
modulo `GenMod` (2^32 in the code).

**Presenter** (FB 247-390, 563-827, 919-998). A section under `fLock` is one step,
everything outside the lock a step of its own: the presenter's walk over the
layers (undrawable, console gate, signature, draw, kick), the two halves of the
timer handler, the backlight call after the unlock, the wait in `SwapWait`. The
pixels of a surface are one value; the signature sees `Sampled` of it. Source
rectangles are the whole surface and destinations are disjoint parts of the panel.
A draw is one step here, which SliceWorkers justifies, and a kick sends
panel memory or gives up, which FrameKicker details. A console write (FC 554-575) is three
steps, the unlocked test of `g_fbcon_attached`, the drawing and the kick, which may be
dropped: `xzs_fbcon_detach` takes no lock, so a write under way at the hand-over draws on
the GUI's frame, and the next identical swap is skipped over it. That is a defect of the
code; the history variable `overdrawn` has the parts of the panel it has happened to, until
a layer is drawn there again. The field `drew.raced` marks another: the signature is taken
before the pixels are copied, so a surface redrawn in between and back again is not noticed.

**LatestFrame** is the abstract specification of the hand-over: a one-place
mailbox in which offering replaces what was not yet taken. `Presenter` implements
it under `offered <- fPending, taken <- rec, fresh <- fDirty`.

**FrameKicker** (D8 2298-2529, 3546-3642, DG 1217-1232, FC 554-575).
The hardware is armed by `CTL_START`, released by the panel's tearing-effect line
and latches `PP0_DONE`; an armed frame looks idle on the link. Threads are presenters,
console writers and the `display m8-prekick-status` diagnostic; each register
write and flag store is a step.
The diagnostic clears the interrupt status on its way (D8 2381-2385), with no lock and also
when its wait gave up: a completion that latches after the time-out is then gone with
`g_m8_frame_in_flight` set, every later kick gives up, and nothing reaches the panel until it is
brought up again. The history variable `wiped` marks that defect.
The panel is taken as initialised, so the early returns for an unconfigured
stream are not there.

**SurfaceTable** (SU 88-268, 523-534, 654-767, 889-1014, 1344-1400, 1652-1663).
`sweet_surface_lock` is never held across two steps; the client's lock is, while a
reference is freed, and so is a variable. Retain counts are numbers and an object
whose count reaches 0 is freed whoever still uses it. The two ways of freeing
(`free` keeps or unwires the buffer) and every failing path of `create` (the layout's
refusal included) and `addRef` are actions. When the answer cannot be copied out, the new
reference is undone by its id (SU 910-914): if another thread of the client released it
meanwhile, the id may be that of another surface by then, and it is the client's reference
to that one which goes (`findRef`). The counts stay exact either way, which is what the
properties say; that a client can lose a reference it was given is a defect of the code.
While the undo frees a reference the call's own surface is in `outer`. A client's reference is a count per surface; the address of
its mapping is left out.

**TouchScan** (HI 459-550, 1045-1233). The controller is external: contacts change
at any time, a change raises the attention, reading F01 clears it. The thread's
turn is split where it touches the controller: pin, status, finger data, F01, then
all fingers at once. Both RMI4 functions ($12 and $11) are there. Positions are x
coordinates.

**KeyScan** (HI 118-223, 407-418, 552-664). Capturing the resting levels, polling
register by register, the snapshot of the client list and each delivery are steps;
opens and closes replace the list at any time. The two camera registers share the
home key.

**UsbConsole** (US 876-1036, 1383-1741, 1777-2074, 2076-2311, 2426-2539). Controller
and host are external, together the record `bus`: which transfer is armed on endpoint
zero and on the two bulk endpoints, which stage of a control transfer the host is in,
and whether it has configured the device. They put events into the controller's buffer `hw`;
the interrupt, the polls and the pump move them to `ring`. The event worker holds
its lock over several steps: one event at a time, then the end of a round (arm a
waiting status stage, poll, look again), then the unlock; who finds the lock taken
returns. The transmit worker is split at the unlock between taking bytes and arming
the transfer, the console writer between reading `console_ready` and enqueueing. Both
workers run on thread-call threads and inside the pump. Every endpoint command, the transmit
lock and the drain lock can fail; the drain's four passes of 64 events exceed the 255
places of the ring, so its budget never decides and a drain is as much as fits.
`SET_CONFIGURATION(1)` runs the endpoint set-up to one of four outcomes. A console
write is one byte long; a longer one is several. Two ways out of the handshake need no failing
command. `xzs_t1z_arm_in` refuses a length of 0 (US 1845), so the echo of an empty second
message leaves the phase at IN2 for good. And a pump may run at interrupt context (`env.irq`: a
console write or a panic in an interrupt handler calls it): the endpoint set-up then
refuses, and `xzs_t1z_enable_bridge` returns (US 1956-1959) with the phase at DONE and no bridge.
The history variable `orphaned` marks a defect of the code: packets and sessions are not
tied together. A bus reset or `SET_CONFIGURATION(0)` ends the transfer of a console packet,
no completion comes, and neither clears `s_tx_busy` (US 1777-1788, 1665-1668), so after the
reconnect the comment at US 1735-1739 speaks of the handshake succeeds and no console output
is sent any more. The same happens to a worker that passed the check of the bridge before the
reset and takes its packet after it. The other way round, an IN transfer that is armed after
the bus was reset but before the event is processed outlives the session that is then
forgotten: its completion is taken for one of the next handshake, which runs one step ahead,
and in the end `s_tx_busy` is cleared while a packet is on its way and two workers hold one
each. BusyHasTransfer, the second half of TxInOrder and TxDrains say what
holds in all other histories; the first half of TxInOrder, about the ring, and ConsoleComesUp
hold in all. The run `usb_reconnect` states TxDrains without the exception and fails.
After `SET_CONFIGURATION(0)` the endpoint set-up is not run again
either, so `SET_CONFIGURATION(1)` is stalled until a bus reset.

**MC\*** modules give the constants small values. A definition named after a
code definition with a suffix, commented *Mutant*, is a plausible bug used to show
that a property can fail; `PROJECT.json` says which property each breaks.

## Runs

| run | checks | instance | distinct states |
| --- | --- | --- | --- |
| `slices` | TypeOK, LayerComplete, JobStable, NoSharedRow, Inv, PresentReturns | 4 workers, 6 rows, bands 0-6 and 1-3, two layers, generations modulo 2 | 263 336 |
| `presenter` | TypeOK, NoSwapLeftBehind, ConsoleKeepsPanel, SkippedIsThere, SwapsAreShown, ImplementsMailbox | two surfaces, two stacked layers, one client; one redraw, two swaps, two power requests, one tick, one console write | 489 334 |
| `kick` | OneKicker, NoRetrigger, DoneNotLost, NoTearing, KicksReturn | two console threads, or the presenter, or the diagnostic; three kicks each; waits may time out | 10 670 |
| `surfaces` | TypeOK, UsersCounted, RetainsCounted, BuffersOwnedOnce, WiredIsExact, NoOldPixels | two threads of one client or of two, two surfaces, two ids, two buffers, one kept, failures anywhere | 1 888 050 |
| `touch` | TypeOK, HidFollowsDriver, LiftsAreReported, FollowedFingerReported, PathIsSmooth | two fingers, four positions (grip margin, inside, beyond the sensor), three contacts, both functions, failing reads or no memory | 125 772 |
| `keys` | TypeOK, ClientsFollowKeys, NoRepeatedEvent, PressesReported | power and two camera registers, two clients, three presses, a key held at boot or none, failing reads, no memory | 480 536 |
| `usb` | TypeOK, BusyHasTransfer, TxInOrder, EndpointsListen, EventsProcessed, StatusRetried, TxDrains, ConsoleComesUp | one call thread and the pump, one console writer; event ring of one place, two events in the controller, two rounds, transmit ring of two bytes, packets of one; six environments: any two control requests, resets or disconnects; up to three failures; configure, reset or deconfigure, configure again with two bytes under way; three bytes and a sample request; an empty message; a pump at interrupt context | 251 704 |

Why these bounds are enough: two layers in a row are the shortest history in
which a helper can be a generation behind, and counting modulo 2 makes the wrapped
generation equal to the one before last; six rows over four
workers give slices of unequal height. Two swaps, a redraw and an off/on pair let every pair
of a swap, a redraw and a power change interleave with one pass of the presenter, and the two
layers' signatures differ by surface as well as by pixels. No content is drawn twice and the presenter's kick
does not give up in that run (`ReuseContents`, `KickTimesOut`): otherwise a frame
drawn over and back again, or given up on, stays unsent and SwapsAreShown fails. SkippedIsThere is
proved without either condition. Two
surfaces with two ids let an id be reused while a call holds its old owner, and one kept
buffer lets the pool be full. Three kicks are one more than the frame in flight plus
the one that overtakes it. In `usb` the event ring fills with one event while a second waits in the
controller, two threads are what it takes to lose the worker lock or to run the transmit
worker twice, and three failures exhaust both rounds of a status stage and one more
command; three bytes fill the transmit ring behind the one being sent. The surfaces run uses symmetry over surfaces and
buffers; it has no liveness property, and no expression of the module picks one
of them, so it is sound. Deadlock is checked in `surfaces`, `touch`, `keys` and `usb`;
the other models stop when their bounds are spent.

Five runs end in a violation. Each states what the repository says of the code:

* `dest` (SkipIsRedundant): the signature that skips "an unchanged frame" (FB
  732-734) leaves out the destination, so a layer that only moved is skipped.
* `power_race` (BacklightFollowsPower): FB 982 sets the backlight after dropping
  the lock, so two requests can leave power on and light off. (The comment at FB
  20-22 also speaks of a fade the code does not do.)
* `kick_both` (NoRetrigger): D8 3587-3592 says the kicker ensures the previous frame has
  completed; the presenter's wait polls and acknowledges without the kick lock, so
  with a console write still under way the flag of the next frame is cleared and
  `CTL_START` is written too early. Each side by itself keeps the
  promise (`kick`).
* `touch_second` (EveryFingerReported): the top-level README calls the driver
  multi-touch; under Function $12 the second finger's bytes are read only when it
  is already down (HI 1097), so it never gets there.
* `usb_reconnect` (LaterHostReads): the comment at US 1735-1739 has a later host reconnect
  after a bus reset. It does, but if the reset came under a console packet `s_tx_busy` is
  still set, no worker takes another byte and what the ring holds stays there (148 695
  distinct states).

### Fairness

Weak fairness of kernel threads that can run: the helpers and the presenter, the
timer, calls already inside the kernel, the touch and the key thread (both loop
around `IOSleep`). The hardware's steps are fair because a panel keeps
refreshing and the controller keeps reporting. Nothing a user, a client or an application starts
is fair. In `KicksReturn` the spin for the kick lock needs no more than weak fairness
because the number of kicks is bounded; the test-and-set itself promises no
order among waiters. Liveness in `touch` and `keys` is stated for boots
in which the reads it depends on work, since the code gives up otherwise. In `usb` the
thread-call threads and the pump are fair: the sampler thread (`bsd/kern/bsd_init.c`
1547-1575) calls the pump every second until it has served 120 sample requests, and
not at all when the boot-arg turns it off. Of the host only that it reads bulk IN and goes on with its
bulk messages is assumed, as a terminal program does; no interrupt and no control
request is counted on.

## Theorems

`SliceWorkersProofs` proves for every height, every set of bands, any generation
modulus from 2 up and two to four workers (the code has four; the slice arithmetic is
done by cases on that number):

* `SliceInvariant`: `Spec => []Inv`. LayerComplete alone is not inductive: that the
  wait loop ends says only that `done_count` reached three. `Inv` adds that worker ids
  are distinct, that during a job `done_count` is the cardinality of the set of
  helpers that have seen this generation and are past counting, that between jobs
  this is all of them (so the next bump makes all of them unfinished at once, whatever
  the modulus), and that a helper past drawing has drawn its slice. When the count is
  three all helpers have finished, their ids are 1..3 (an injection between sets
  of equal size), and the slices cover the band.
* `LayersAreComplete`, `JobIsStable`, `NoRowIsShared` follow from it with the lemmas on
  slices (`SlicesCover`, `SlicesDisjoint`, `AloneCovers`).

`PresenterProofs` proves, for any clients, surfaces, layers, swaps and bounds:

* `SwapsAreNoticed` (`NoSwapLeftBehind`) and `PresenterTypes` (`TypeOK`) from one
  inductive invariant, `ReadyInv`: `fPresentReady` is set only when there is a swap to
  take, and while the presenter looks at a signature or draws, its index
  is at a layer that has a surface.
* `PresenterImplementsMailbox`: the initial state and every step map to
  LatestFrame's.

* `ConsoleHasPanel` (`ConsoleKeepsPanel`), also with kicks that time out: the console
  gate is passed before the signature and the drawing, so no thread at these places can
  have a console that is still up beside it.
* `SkippedLayersAreThere` (`SkippedIsThere`), without further hypothesis: any swaps, any
  samples of the pixels, moved layers, kicks that time out, console writes at any moment. What
  the code does not keep is in the property: it speaks of the pixels the signature samples, of
  the place the layer was last drawn at (the run `dest` shows that the destination asked for is
  another matter), and leaves out surfaces that raced with their signature and places the console
  drew over. `SkipInv` says of the last signature that its layer is still to be drawn by
  a presenter who goes on to draw it, or has been drawn where `drew` says.

`FrameKickerProofs`, for any number of threads and kicks: `KickLockHeldOnce` (OneKicker)
for threads of all kinds together; `StartsAfterFrame`, `CompletionsKept`, `DrawsBetweenFrames` (NoRetrigger,
DoneNotLost, NoTearing) under `OneSided`: only console threads, who wait inside the kick
lock, or a single thread of any kind. DoneNotLost has the diagnostic's clearing as its one exception;
`KickersLoseNothing` adds that without a diagnostic thread it never applies.
Beside an unlocked waiter these are false, which the run
`kick_both` shows. `KickInv` adds that at most one thread is between taking the lock and
dropping it, that a frame the hardware has is flagged as in flight, and that a thread
past a wait that did not give up knows the hardware to be idle.

`KeyScanProofs`, for any registers and clients: `KeyTypes`, `ClientsAreTold`
(ClientsFollowKeys), `EventsAlternate` (NoRepeatedEvent), like the properties for boots in which memory is
to be had. `KeyInv` relates what the thread has
seen to the event under way, and for each client tells those already served from those still
on the snapshot, who last heard the opposite; a client that opens in the middle has heard
nothing and one that closes is not asked about.

`TouchScanProofs`, for any fingers and positions and any thresholds (the assumption
`Hyst <= Sub` is the code's 24 and 48): `ScanTypes`, `ClientsFollowDriver` (HidFollowsDriver)
and the action property `PathsAreSmooth`. `TouchInv` adds that remembered positions are on the
sensor and that what the digitizer was told is the driver's mask. The path of a finger is the
sequence of points `x + d*s \div n`; that successive ones are at most a step apart is an
inequality about integer division, proved once as a lemma.

`SurfaceTableProofs`, for any finite sets of threads, clients and buffers, any surfaces, ids,
sizes and limits: `SurfaceTypes`, `UsersAreCounted`, `RetainsAreCounted`,
`BuffersHaveOneOwner`, `WiredExact`, `PixelsAreOwn`, all from `SurfInv`. A count changes in one
step and the place of the thread that holds it in another, so the counts are compared with sums
of a weight per client and per place of a thread (`Held`, `Used`); the lemma `Balance` says
what one step of one thread does to such a sum. A thread in the middle of an undo has two surfaces, the
one it frees a reference to and its own in `outer`. In the table an id has one surface, and two
creating threads never work on the same one. Ownership of memory is stated without counting;
the wired bytes are those of a set of buffers that grows and shrinks by one.

`UsbConsoleProofs`, for any threads, ring and packet sizes, numbers of rounds, events, bytes
and failures, and any host: `ConsoleTypes`, `EndpointsAlwaysListen`, `BusyAlwaysHasTransfer`,
`BytesStayInOrder`. Each step is first reduced to its effect (`StepKinds`: a move of the host, an event,
taking a packet, arming it, writing a byte, or a step aside that touches none of these), then the
invariants are carried through the effects: `SessionShape` (the bridge is up exactly when the
handshake is done), `TransferInv` (a worker holds bytes exactly while it is about to arm them;
without an orphan there is one IN transfer at a time, held, armed or completed, and none in the
phases in which the handshake waits for the host), and `OrderInv` (what left the ring is below
what is in it, what is on its way is above what the host read). BusyHasTransfer is not
inductive without the second: a completion that comes twice would clear a flag not its own.
It was this proof that found the second half of the defect above: with one byte per session
TLC cannot reach it.

The assumptions are the named ASSUMEs of the modules, which TLC evaluates in the runs, and the
hypotheses named above. Every invariant of a passing run is proved, and so are the
action properties SkippedIsThere and PathIsSmooth and the refinement ImplementsMailbox. Only model-checked: liveness (PresentReturns,
SwapsAreShown, KicksReturn, LiftsAreReported, FollowedFingerReported, PressesReported,
EventsProcessed, StatusRetried, TxDrains, ConsoleComesUp), since the prover does not treat
fairness. The bounds on the environment (moves, bytes, failures, kicks, presses) are
constants of the modules, so the theorems hold for all their values.

## Not modelled

* In the modelled files: the vsync notification ports and the per-session layer
  records of SwapBegin/SetLayer; scaling and blending inside a slice; surface properties, the arithmetic of plane
  layouts, lock and seed calls, shared events; controller probing and I2C transfers;
  the test key of boot-arg `sweethidtest`; the waits of the reboot path (DG 1234-1251)
  and the kick that ends `xzs_fbcon_attach`, two more callers of the functions modelled;
  `sweet_surface_create_physical` (SU 270-301), which the framebuffer calls once, at start (FB 284),
  before any client: its surface stays published and adds a constant to the wired total.
* USB: the receive ring and its tty worker (US 1871-1914), which two threads of the call group
  could run at once although the telemetry (US 2696) calls it single-consumer; the bring-up
  register sequences; the word that reboots the phone; `xzs_usb_console_putc` and
  `xzs_usb_send_bulk_in`, further writers of the transmit ring; a writer with interrupts masked,
  which calls the pump instead of kicking (the pump's own thread stands for it); the activation flag that nothing sets (US 2302).
* What the code accepts: a signature that samples pixels (FB 740) or a kick that times out (FB
  819) leaves a frame unsent until something changes; a surface redrawn while it is copied (FB 755-763); a console kick that finds the flag taken
  is dropped (FC 574); without memory an event is lost (HI 487) and a closed client stays
  listed (HI 170). The modules have these outcomes, the properties are stated without them.
* Failure of `kernel_thread_start` at boot (FB 309), after which `present` would wait for ever.
* GPU user client, xzsfs, SPMI and RPM: planned or candidates, see below. SD and UFS
  drivers, display bring-up, boot shim: straight-line register sequences in one thread.
  Battery, key store, entitlements, AMFI, watchdog, platform expert: stubs. Userland,
  dumper, RAM test, scripts: tools. XNU and the IOHID event classes: imported.

## Plan

1. Done: SliceWorkers, Presenter with LatestFrame, FrameKicker, SurfaceTable, TouchScan,
   KeyScan, UsbConsole, their runs, and the proofs above.
2. Next modules, in this order: vsync notification clients (registration and
   termination against `vsyncFired`); SweetSurfaceRef objects and their use after the
   client's unlock (SU 731, 764); IOSurface shared events with XZSGPU's queues and
   completions; xzsfs vnode lifetime (getnode, reclaim, unmount); the USB receive ring. A
   composition of Presenter with FrameKicker's kick if TLC can hold it.
3. Next proofs: SwapsAreNoticed and the mailbox refinement carried to a composition of Presenter and
   FrameKicker; the theorems of the modules under 2 as they are written.
