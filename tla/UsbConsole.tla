----------------------------- MODULE UsbConsole -----------------------------
(***************************************************************************)
(* The USB console of pexpert/arm/xzs_usb.c: events of the DWC3 controller   *)
(* are copied from its buffer into a ring by the interrupt handler and by    *)
(* pollers; one worker at a time takes them from there and runs endpoint    *)
(* zero and the bulk handshake that ends in the tty bridge; console output  *)
(* waits in a ring until a transmit worker arms it as a bulk IN transfer.   *)
(*                                                                         *)
(* Controller and host are external, the record bus. A command the          *)
(* controller refuses or does not finish, and a spin lock not had in time,   *)
(* are failures, at most env.fails of them. The bytes of the host's        *)
(* messages and the ring they go into are left out, and so are the words     *)
(* that reboot the phone. A control transfer has one TRB at a time, and the *)
(* fields that only telemetry reads are left out.                           *)
(***************************************************************************)
EXTENDS Integers, Sequences, SequencesExt, FiniteSetsExt

CONSTANTS
    CallThreads,    \* threads of the thread-call group that runs both calls
    Pumps,          \* threads that call xzs_usb_pump_sync
    None,           \* nobody holds s_usb_event_worker_lock
    EventRingSize,  \* XZS_T1Y_EVENT_RING_ENTRIES
    Rounds,         \* rounds of xzs_t1y_event_deferred
    TxRingSize,     \* XZS_TX_RING_SIZE
    PacketSize,     \* bytes of one bulk IN transfer
    HwEvents,       \* bound: events waiting in the controller's buffer
    MaxOuts,        \* bound: bulk OUT messages per configuration
    Envs            \* what a run of the system may meet, and the bounds on it:
                    \*   moves   what the host's n-th move may be
                    \*   bytes   console bytes accepted by the ring
                    \*   fails   failing commands and locks
                    \*   irq     whether the pump may run in an interrupt: from a
                    \*           console write there, or from a panic there

Requests == {"desc", "addr", "cfg0", "cfg1", "bad"}
Moves == Requests \cup {"sample", "empty", "reset", "disconnect"}

ASSUME UsbAssumption ==
    /\ None \notin CallThreads \cup Pumps /\ CallThreads \cap Pumps = {}
    /\ {EventRingSize, TxRingSize} \subseteq Nat \ {0, 1}
    /\ {Rounds, PacketSize, HwEvents} \subseteq Nat \ {0}
    /\ MaxOuts \in Nat
    /\ \A e \in Envs :
        /\ {e.bytes, e.fails} \subseteq Nat /\ e.irq \in BOOLEAN
        /\ e.moves \in Seq(SUBSET Moves)

Threads == CallThreads \cup Pumps
Events == Moves \cup {"dataDone", "notReady", "statusDone", "outDone", "inDone"}
Payload == 0    \* the bytes the handshake sends, in an IN transfer

VARIABLES
    env,        \* one of Envs
    bus,        \* active TRBs, stage of the control transfer, host: external
    hw,         \* events in the controller's buffer
    moves,      \* moves the host has made
    last,       \* the last console byte the host has read
    ring,       \* s_t1y_event_ring from tail to head
    evPend,     \* s_t1y_event_call is pending
    txPend,     \* s_tx_call is pending
    owner,      \* holder of s_usb_event_worker_lock
    round,
    ep0,        \* endpoint zero: state, setup armed, SET_CONFIGURATION under way
    t1z,        \* the bulk session
    tx,         \* s_tx_ring from tail to head; byte n is the n-th accepted
    accepted,
    busy,       \* s_tx_busy
    tmp,        \* thread -> the bytes its transmit worker has taken
    writer,     \* xzs_usb_console_write: "idle", or what it has read of ready
    pc,
    fails,
    orphaned    \* history: a session ended while busy or with an IN transfer of it
                \* outstanding, or before a worker of it took its packet

host == <<env, moves, last>>
calls == <<evPend, txPend>>
worker == <<owner, round>>
out == <<tx, accepted, busy, tmp, writer>>
Waiting == ring \o hw

(* An IN transfer is with the controller, or its completion is not processed. *)
InOutstanding == bus.in # <<>> \/ Contains(Waiting, "inDone")

vars == <<bus, hw, host, ring, calls, worker, ep0, t1z, out, pc, fails, orphaned>>

IdleSession ==
    [entered |-> FALSE, failed |-> FALSE, eps |-> FALSE, phase |-> "idle",
     bridge |-> FALSE, ready |-> FALSE]

Init ==
    /\ env \in Envs
    /\ bus = [trb |-> "setup", stage |-> "none", out |-> FALSE, in |-> <<>>,
              host |-> "default", want |-> "default", outs |-> 0]
    /\ hw = <<>> /\ moves = 0 /\ last = 0
    /\ ring = <<>> /\ evPend = FALSE /\ txPend = FALSE
    /\ owner = None /\ round = 0
    /\ ep0 = [state |-> "setup", armed |-> TRUE, config |-> FALSE,
              pending |-> 0, value |-> 0, configured |-> FALSE]
    /\ t1z = IdleSession
    /\ tx = <<>> /\ accepted = 0 /\ busy = FALSE
    /\ tmp = [t \in Threads |-> <<>>] /\ writer = "idle"
    /\ pc = [t \in Threads |-> "idle"]
    /\ fails = 0 /\ orphaned = FALSE

(* n of the commands or locks of this step fail.                            *)
Failing(n) == fails + n <= env.fails /\ fails' = fails + n

Goto(t, label) == pc' = [pc EXCEPT ![t] = label]

(***************************************************************************)
(* The controller and the host (external).                                 *)
(***************************************************************************)
(* One of the bounded moves.                                                *)
Move(m) ==
    /\ moves < Len(env.moves) /\ m \in env.moves[moves + 1]
    /\ moves' = moves + 1

Post(e) ==
    /\ Len(hw) < HwEvents
    /\ hw' = Append(hw, e)
    /\ UNCHANGED <<ring, calls, worker, ep0, t1z, out, pc, fails>>

(* The host stops its bulk traffic before it changes the configuration.     *)
HostSetup(r) ==
    /\ Move(r) /\ bus.trb = "setup" /\ bus.host # "gone"
    /\ bus' = [bus EXCEPT !.trb = "none",
                          !.stage = IF r = "desc" THEN "data" ELSE "status",
                          !.host = IF r \in {"cfg0", "cfg1"} THEN "default" ELSE @,
                          !.want = IF r = "cfg1" THEN "configured"
                                   ELSE IF r = "cfg0" THEN "default" ELSE bus.host]
    /\ Post(r)
    /\ UNCHANGED <<env, last, orphaned>>

HostData ==
    /\ bus.trb = "data" /\ bus.stage = "data"
    /\ bus' = [bus EXCEPT !.trb = "none", !.stage = "status"]
    /\ Post("dataDone")
    /\ UNCHANGED <<host, orphaned>>

(* The host asks for the status stage before it is armed.                   *)
HostNotReady ==
    /\ bus.stage = "status" /\ bus.trb = "none"
    /\ bus' = [bus EXCEPT !.stage = "asked"]
    /\ Post("notReady")
    /\ UNCHANGED <<host, orphaned>>

HostStatus ==
    /\ bus.stage \in {"status", "asked"} /\ bus.trb = "status"
    /\ bus' = [bus EXCEPT !.trb = "none", !.stage = "none",
                          !.host = bus.want,
                          !.outs = IF bus.host # bus.want THEN 0 ELSE @]
    /\ Post("statusDone")
    /\ UNCHANGED <<host, orphaned>>

HostOut ==
    /\ bus.out /\ bus.host = "configured" /\ bus.outs < MaxOuts
    /\ bus' = [bus EXCEPT !.out = FALSE, !.outs = @ + 1]
    /\ Post("outDone")
    /\ UNCHANGED <<host, orphaned>>

(* A request for a sample, or a message of no bytes.                        *)
HostSample(m) ==
    /\ Move(m) /\ bus.out /\ bus.host = "configured"
    /\ bus' = [bus EXCEPT !.out = FALSE]
    /\ Post(m)
    /\ UNCHANGED <<env, last, orphaned>>

HostIn ==
    /\ bus.in # <<>> /\ bus.host = "configured"
    /\ last' = IF Last(bus.in) = Payload THEN last ELSE Last(bus.in)
    /\ bus' = [bus EXCEPT !.in = <<>>]
    /\ Post("inDone")
    /\ UNCHANGED <<env, moves, orphaned>>

(* A reset ends every transfer.                                            *)
BusReset ==
    /\ Move("reset")
    /\ bus' = [bus EXCEPT !.trb = "none", !.stage = "none", !.out = FALSE,
                          !.in = <<>>, !.host = "default"]
    /\ Post("reset")
    /\ orphaned' = (orphaned \/ busy)
    /\ UNCHANGED <<env, last>>

Unplug ==
    /\ Move("disconnect") /\ bus.host # "gone"
    /\ bus' = [bus EXCEPT !.host = "gone", !.stage = "none"]
    /\ Post("disconnect")
    /\ UNCHANGED <<env, last, orphaned>>

(***************************************************************************)
(* xzs_t1y_drain_event_buffer: as many events as the ring holds. Four       *)
(* passes of 64 events are more than its 255 places, so the budget of one   *)
(* pass never decides. What does not fit stays in the controller.           *)
(***************************************************************************)
(* Mutant: all events are acknowledged, also those that were not copied.    *)
NotCopiedNone(n) == <<>>

NotCopied(n) == SubSeq(hw, n + 1, Len(hw))

Drain ==
    LET n == Min({Len(hw), EventRingSize - 1 - Len(ring)})
    IN  /\ ring' = ring \o SubSeq(hw, 1, n)
        /\ hw' = NotCopied(n)
        /\ evPend' = (evPend \/ n > 0)

(* n = 1: s_usb_drain_lock was not had and nothing is copied.               *)
DrainUnless(n) ==
    \/ n = 0 /\ Drain
    \/ n = 1 /\ UNCHANGED <<ring, hw, evPend>>

(* The interrupt handler and the polling loop of CPU 0.                     *)
xzs_usb_irq_handler ==
    /\ hw # <<>>
    /\ Drain
    /\ UNCHANGED <<bus, host, txPend, worker, ep0, t1z, out, pc, fails, orphaned>>

(***************************************************************************)
(* Endpoint zero                                                           *)
(***************************************************************************)
SetupArmed(e) == [e EXCEPT !.state = "setup", !.armed = TRUE]

(* xzs_t1y_submit_setup at the end of a control transfer, from state e on   *)
(* bus b, after n failures: up to "tries" times.                            *)
Rearm(e, b, n, tries) ==
    \E k \in 0 .. tries :
        /\ Failing(n + k)
        /\ LET idle == [e EXCEPT !.config = FALSE, !.armed = FALSE]
               clear == [b EXCEPT !.trb = "none", !.stage = "none"]
           IN  IF k < tries
               THEN ep0' = SetupArmed(idle) /\ bus' = [clear EXCEPT !.trb = "setup"]
               ELSE ep0' = idle /\ bus' = clear

xzs_t1y_stall_and_restart(e, b, n) == Rearm(e, b, n, 1)

(* xzs_ep0_queue_status after n failures: one more leaves the state waiting. *)
QueueStatus(e, n) ==
    \/ /\ Failing(n)
       /\ ep0' = [e EXCEPT !.state = "status"]
       /\ bus' = [bus EXCEPT !.trb = "status"]
    \/ /\ Failing(n + 1)
       /\ ep0' = [e EXCEPT !.state = "wait"]
       /\ UNCHANGED bus

(* ml_at_interrupt_context of the event worker.                             *)
MayBeInterrupt == env.irq /\ owner \in Pumps

(* xzs_t1z_worker: whether it failed, whether both endpoints are configured, *)
(* the phase and whether the first OUT is armed. It refuses at interrupt    *)
(* context.                                                                 *)
Refused == <<TRUE, FALSE, "idle", FALSE>>

WorkerOutcomes ==
    {<<FALSE, TRUE, "out1", TRUE>>, <<TRUE, FALSE, "idle", FALSE>>,
     <<TRUE, TRUE, "idle", FALSE>>, <<TRUE, TRUE, "out1", FALSE>>}

xzs_t1z_worker(w) ==
    [t1z EXCEPT !.entered = TRUE, !.ready = FALSE, !.failed = @ \/ w[1],
                !.eps = @ \/ w[2], !.phase = IF w[3] = "out1" THEN "out1" ELSE @]

SetConfiguration(value, s, b, n) ==
    LET e == [ep0 EXCEPT !.armed = FALSE, !.pending = value]
    IN  /\ t1z' = s
        /\ IF value = 1 /\ (s.failed \/ ~s.eps)
           THEN xzs_t1y_stall_and_restart(e, b, n)
           ELSE /\ Failing(n)
                /\ ep0' = [e EXCEPT !.state = "wait", !.config = TRUE]
                /\ bus' = b

xzs_t1y_handle_setup(r) ==
    LET e == [ep0 EXCEPT !.armed = FALSE]
        data == [e EXCEPT !.state = "data", !.config = FALSE]
    IN  \/ /\ r = "desc" /\ UNCHANGED t1z
           /\ \/ /\ Failing(0)
                 /\ ep0' = data
                 /\ bus' = [bus EXCEPT !.trb = "data"]
              \/ xzs_t1y_stall_and_restart(data, bus, 1)
        \/ /\ r = "addr" /\ ep0.value = 0 /\ UNCHANGED <<t1z, bus, fails>>
           /\ ep0' = [e EXCEPT !.state = "wait", !.config = FALSE]
        \/ /\ r = "bad" \/ (r = "addr" /\ ep0.value # 0)
           /\ xzs_t1y_stall_and_restart(e, bus, 0) /\ UNCHANGED t1z
        \/ /\ r = "cfg0"
           /\ SetConfiguration(0, [t1z EXCEPT !.ready = FALSE, !.eps = FALSE], bus, 0)
        \/ /\ r = "cfg1" /\ t1z.entered
           /\ SetConfiguration(1, [t1z EXCEPT !.ready = FALSE], bus, 0)
        \/ /\ r = "cfg1" /\ ~t1z.entered
           /\ \E w \in WorkerOutcomes :
                SetConfiguration(1, xzs_t1z_worker(w), [bus EXCEPT !.out = @ \/ w[4]],
                                 IF w[1] THEN 1 ELSE 0)
        \/ /\ r = "cfg1" /\ ~t1z.entered /\ MayBeInterrupt
           /\ SetConfiguration(1, xzs_t1z_worker(Refused), bus, 0)

xzs_t1y_finish_control_transfer ==
    Rearm(IF ep0.config
          THEN [ep0 EXCEPT !.value = ep0.pending,
                           !.configured = (ep0.pending = 1 /\ t1z.eps)]
          ELSE ep0,
          bus, 0, 2)

(* A completion or a request for the status stage on endpoint zero.         *)
Ep0Event(e) ==
    /\ \/ /\ e \in Requests /\ ep0.state = "setup"
          /\ xzs_t1y_handle_setup(e)
       \/ /\ e = "dataDone" /\ ep0.state = "data" /\ UNCHANGED t1z
          /\ QueueStatus(ep0, 0)
       \/ /\ e \in Requests \cup {"dataDone", "statusDone"} /\ ep0.state = "status"
          /\ xzs_t1y_finish_control_transfer /\ UNCHANGED t1z
       \/ /\ e = "notReady" /\ ep0.state \in {"wait", "data"} /\ UNCHANGED t1z
          /\ \/ /\ Failing(0)
                /\ ep0' = [ep0 EXCEPT !.state = "status"]
                /\ bus' = [bus EXCEPT !.trb = "status"]
             \/ xzs_t1y_stall_and_restart([ep0 EXCEPT !.state = "wait"], bus, 1)
       \/ /\ \/ e \in Requests /\ ep0.state \in {"data", "wait"}
             \/ e = "dataDone" /\ ep0.state \in {"setup", "wait"}
             \/ e = "statusDone" /\ ep0.state # "status"
             \/ e = "notReady" /\ ep0.state \in {"setup", "status"}
          /\ UNCHANGED <<ep0, t1z, bus, fails>>
    /\ orphaned' = (orphaned \/ (e = "cfg0" /\ ep0.state = "setup" /\ busy))
    /\ UNCHANGED <<busy, txPend>>

(* A bus reset: endpoint zero starts over and the bulk session is forgotten. *)
(* Neither s_tx_busy nor the transmit ring is touched, nor a transfer that   *)
(* was armed after the reset and before its event was processed.             *)
xzs_t1y_ep0_only_reset ==
    /\ Rearm([ep0 EXCEPT !.pending = 0, !.value = 0, !.configured = FALSE], bus, 0, 1)
    /\ t1z' = IdleSession
    /\ orphaned' = (orphaned \/ busy \/ InOutstanding)
    /\ UNCHANGED <<busy, txPend>>

DeviceEvent(e) ==
    \/ e = "reset" /\ xzs_t1y_ep0_only_reset
    \/ /\ e = "disconnect"
       /\ ep0' = [ep0 EXCEPT !.value = 0, !.configured = FALSE]
       /\ UNCHANGED <<t1z, bus, fails, busy, txPend, orphaned>>

(***************************************************************************)
(* The bulk endpoints. arm_in refuses to send nothing, copies into the one  *)
(* buffer before the command is given, and a second transfer on the         *)
(* endpoint is refused.                                                     *)
(***************************************************************************)
ArmOut(ok) ==
    /\ Failing(IF ok THEN 0 ELSE 1)
    /\ bus' = [bus EXCEPT !.out = @ \/ ok]

ArmIn(data, ok) ==
    /\ ok => data # <<>> /\ bus.in = <<>>
    /\ Failing(IF ok \/ data = <<>> \/ bus.in # <<>> THEN 0 ELSE 1)
    /\ bus' = [bus EXCEPT !.in = IF data # <<>> /\ (ok \/ @ # <<>>) THEN data ELSE @]

(* Mutant: the endpoint is not armed again.                                 *)
TakeInputOnce(ok) == ok /\ UNCHANGED <<bus, fails>>

(* The bytes are passed on and the endpoint is armed again.                 *)
TakeInput(ok) == ArmOut(ok)

(* The answer to a message of the handshake: the first is answered by a      *)
(* fixed payload, the second by its own bytes.                              *)
Answer(e) == IF t1z.phase = "out2" /\ e = "empty" THEN <<>> ELSE <<Payload>>

(* A sample request and console input are taken; the two messages of the    *)
(* handshake are answered.                                                  *)
xzs_t1z_on_out_complete(e) ==
    \E ok \in BOOLEAN :
        \/ /\ e = "sample" \/ (t1z.phase = "done" /\ t1z.bridge)
           /\ TakeInput(ok) /\ UNCHANGED t1z
        \/ /\ e # "sample" /\ t1z.phase \in {"out1", "out2"}
           /\ ArmIn(Answer(e), ok)
           /\ t1z' = [t1z EXCEPT !.phase = IF @ = "out1" THEN "in1" ELSE "in2",
                                 !.failed = @ \/ ~ok]
        \/ /\ e # "sample"
           /\ t1z.phase \in {"idle", "in1", "in2"} \/ (t1z.phase = "done" /\ ~t1z.bridge)
           /\ t1z' = [t1z EXCEPT !.failed = TRUE] /\ UNCHANGED <<bus, fails>>

(* Mutant: the second message is not asked for.                             *)
FirstAnswerSentOnly(ok) ==
    ok /\ t1z' = [t1z EXCEPT !.phase = "out2"] /\ UNCHANGED <<bus, fails>>

FirstAnswerSent(ok) ==
    ArmOut(ok) /\ t1z' = [t1z EXCEPT !.phase = "out2", !.failed = @ \/ ~ok]

(* A failing arm_out is ignored, and the transmit worker is kicked. At       *)
(* interrupt context nothing is done, and never made up for.                *)
xzs_t1z_enable_bridge ==
    \/ /\ \E ok \in BOOLEAN : ArmOut(ok)
       /\ t1z' = [t1z EXCEPT !.phase = "done", !.bridge = TRUE, !.ready = TRUE]
       /\ txPend' = TRUE
    \/ /\ MayBeInterrupt
       /\ t1z' = [t1z EXCEPT !.phase = "done"]
       /\ UNCHANGED <<bus, fails, txPend>>

xzs_t1z_on_in_complete ==
    \/ /\ t1z.phase = "done" /\ busy
       /\ busy' = FALSE /\ txPend' = TRUE
       /\ UNCHANGED <<t1z, bus, fails>>
    \/ /\ t1z.phase = "in1"
       /\ \E ok \in BOOLEAN : FirstAnswerSent(ok)
       /\ UNCHANGED <<busy, txPend>>
    \/ /\ t1z.phase = "in2"
       /\ xzs_t1z_enable_bridge
       /\ UNCHANGED busy
    \/ /\ t1z.phase \in {"idle", "out1", "out2"} \/ (t1z.phase = "done" /\ ~busy)
       /\ t1z' = [t1z EXCEPT !.failed = TRUE]
       /\ UNCHANGED <<bus, fails, busy, txPend>>

(* Completions of the bulk endpoints count only while both are configured.  *)
OutEvents == {"outDone", "sample", "empty"}

BulkEvent(e) ==
    /\ \/ /\ ~t1z.eps /\ e \in OutEvents \cup {"inDone"}
          /\ UNCHANGED <<t1z, bus, fails, busy, txPend>>
       \/ /\ t1z.eps /\ e \in OutEvents
          /\ xzs_t1z_on_out_complete(e)
          /\ UNCHANGED <<busy, txPend>>
       \/ /\ t1z.eps /\ e = "inDone"
          /\ xzs_t1z_on_in_complete
    /\ UNCHANGED <<ep0, orphaned>>

(***************************************************************************)
(* xzs_t1y_event_deferred: whoever does not get the lock at once returns.    *)
(***************************************************************************)
TakeWorkerLock(t) == owner' = t /\ round' = 0 /\ Goto(t, "drain")

(* The thread call starts on one of the group's threads.                    *)
EventCall(t) ==
    /\ pc[t] = "idle" /\ evPend
    /\ evPend' = FALSE
    /\ \/ owner = None /\ TakeWorkerLock(t)
       \/ owner # None /\ UNCHANGED <<worker, pc>>
    /\ UNCHANGED <<bus, hw, host, ring, txPend, ep0, t1z, out, fails, orphaned>>

xzs_t1y_process_event(t) ==
    /\ pc[t] = "drain" /\ ring # <<>>
    /\ ring' = Tail(ring)
    /\ Ep0Event(Head(ring)) \/ DeviceEvent(Head(ring)) \/ BulkEvent(Head(ring))
    /\ UNCHANGED <<hw, host, evPend, worker, tx, accepted, tmp, writer, pc>>

(* The ring was found empty: arm the status stage, poll, look again.        *)
RoundEnd(t) ==
    /\ pc[t] = "drain" /\ ring = <<>>
    /\ \E n \in {0, 1} :
        /\ DrainUnless(n)
        /\ \/ ep0.state = "wait" /\ QueueStatus(ep0, n)
           \/ ep0.state # "wait" /\ Failing(n) /\ UNCHANGED <<ep0, bus>>
    /\ IF (ring' = <<>> /\ ep0'.state # "wait") \/ round + 1 = Rounds
       THEN Goto(t, "unlock") /\ UNCHANGED round
       ELSE round' = round + 1 /\ UNCHANGED pc
    /\ UNCHANGED <<host, txPend, owner, t1z, out, orphaned>>

DropWorkerLock(t) ==
    /\ pc[t] = "unlock"
    /\ owner' = None /\ round' = 0
    /\ Goto(t, IF t \in Pumps THEN "pumpTx" ELSE "idle")
    /\ UNCHANGED <<bus, hw, host, ring, calls, ep0, t1z, out, fails, orphaned>>

(***************************************************************************)
(* xzs_usb_pump_sync                                                       *)
(***************************************************************************)
(* Mutant: events left in the ring are left to the thread call.             *)
EventsLeftUnseen == ep0.state = "wait"

(* Mutant: a status stage that could not be armed is not tried again.       *)
EventsLeftRingOnly == ring' # <<>>

EventsLeft == ring' # <<>> \/ ep0.state = "wait"

PumpBegin(t) ==
    /\ pc[t] = "idle"
    /\ \E n \in {0, 1} : Failing(n) /\ DrainUnless(n)
    /\ IF EventsLeft /\ owner = None
       THEN TakeWorkerLock(t)
       ELSE Goto(t, "pumpTx") /\ UNCHANGED worker
    /\ UNCHANGED <<bus, host, txPend, ep0, t1z, out, orphaned>>

(* Mutant: the pump leaves the transmit ring to the thread call.            *)
BytesLeftUnseen == FALSE

BytesLeft == t1z.bridge /\ ~busy /\ tx # <<>>

PumpTx(t) ==
    /\ pc[t] = "pumpTx"
    /\ Goto(t, IF BytesLeft THEN "tx" ELSE "idle")
    /\ UNCHANGED <<bus, hw, host, ring, calls, worker, ep0, t1z, out, fails, orphaned>>

(***************************************************************************)
(* xzs_t1z_tx_worker                                                       *)
(***************************************************************************)
TxCall(t) ==
    /\ pc[t] = "idle" /\ txPend
    /\ txPend' = FALSE
    /\ Goto(t, IF t1z.bridge THEN "tx" ELSE "idle")
    /\ UNCHANGED <<bus, hw, host, ring, evPend, worker, ep0, t1z, out, fails, orphaned>>

(* Mutant: a packet is taken while another is on its way.                    *)
MayTakeBusy == tx # <<>>

MayTake == ~busy /\ tx # <<>>

(* Under s_tx_lock: nothing to do, or take a packet and be busy. The lock   *)
(* may not be had.                                                          *)
TxTake(t) ==
    /\ pc[t] = "tx"
    /\ \/ /\ ~MayTake
          /\ Goto(t, "idle") /\ UNCHANGED <<tx, busy, tmp, fails, orphaned>>
       \/ /\ MayTake
          /\ LET n == Min({Len(tx), PacketSize})
             IN  /\ tmp' = [tmp EXCEPT ![t] = SubSeq(tx, 1, n)]
                 /\ tx' = SubSeq(tx, n + 1, Len(tx))
          /\ busy' = TRUE
          /\ orphaned' = (orphaned \/ ~t1z.bridge \/ ~t1z.eps)
          /\ Goto(t, "txArm") /\ UNCHANGED fails
       \/ /\ Failing(1)
          /\ Goto(t, "idle") /\ UNCHANGED <<tx, busy, tmp, orphaned>>
    /\ UNCHANGED <<bus, hw, host, ring, calls, worker, ep0, t1z, accepted, writer>>

(* After the unlock. A packet that cannot be armed is dropped.              *)
TxArm(t) ==
    /\ pc[t] = "txArm"
    /\ \E ok \in BOOLEAN :
        /\ ArmIn(tmp[t], ok)
        /\ busy' = (busy /\ ok)
    /\ tmp' = [tmp EXCEPT ![t] = <<>>]
    /\ Goto(t, "idle")
    /\ UNCHANGED <<hw, host, ring, calls, worker, ep0, t1z, tx, accepted, writer, orphaned>>

(***************************************************************************)
(* xzs_usb_console_write of one byte: ready is read first. Until then the    *)
(* ring only collects; afterwards a full ring gets a kick and a second try, *)
(* and the write ends with a kick.                                          *)
(***************************************************************************)
WriteBegin ==
    /\ writer = "idle" /\ accepted < env.bytes
    /\ writer' = IF t1z.ready THEN "ready" ELSE "early"
    /\ UNCHANGED <<bus, hw, host, ring, calls, worker, ep0, t1z, tx, accepted, busy,
                   tmp, pc, fails, orphaned>>

(* Mutant: the ring is never full.                                          *)
RoomAlways == TRUE

Room == Len(tx) < TxRingSize - 1

WriteByte ==
    /\ writer # "idle"
    /\ txPend' = (txPend \/ writer # "early")
    /\ \/ /\ Room
          /\ tx' = Append(tx, accepted + 1) /\ accepted' = accepted + 1
          /\ writer' = "idle" /\ UNCHANGED fails
       \/ /\ \/ ~Room /\ UNCHANGED fails
             \/ Room /\ Failing(1)
          /\ writer' = IF writer = "ready" THEN "retry" ELSE "idle"
          /\ UNCHANGED <<tx, accepted>>
    /\ UNCHANGED <<bus, hw, host, ring, evPend, worker, ep0, t1z, busy, tmp, pc, orphaned>>

-----------------------------------------------------------------------------
Transmit(t) == TxTake(t) \/ TxArm(t)

EventWorker(t) == xzs_t1y_process_event(t) \/ RoundEnd(t) \/ DropWorkerLock(t)

CallThread(t) == EventCall(t) \/ TxCall(t) \/ EventWorker(t) \/ Transmit(t)

Pump(t) == PumpBegin(t) \/ PumpTx(t) \/ EventWorker(t) \/ Transmit(t)

Host ==
    \/ \E r \in Requests : HostSetup(r)
    \/ HostData \/ HostNotReady \/ HostStatus \/ HostOut \/ HostIn
    \/ \E m \in {"sample", "empty"} : HostSample(m)
    \/ BusReset \/ Unplug

Next ==
    \/ Host \/ xzs_usb_irq_handler
    \/ \E t \in CallThreads : CallThread(t)
    \/ \E t \in Pumps : Pump(t)
    \/ WriteBegin \/ WriteByte

Spec == Init /\ [][Next]_vars

(***************************************************************************)
(* Kernel threads run; the sampler calls the pump every second. A host with *)
(* a terminal open reads and goes on with its handshake. No interrupt and    *)
(* no request of the host is counted on.                                    *)
(***************************************************************************)
FairSpec ==
    /\ Spec
    /\ \A t \in CallThreads : WF_vars(CallThread(t))
    /\ \A t \in Pumps : WF_vars(Pump(t))
    /\ WF_vars(WriteByte) /\ WF_vars(HostIn) /\ WF_vars(HostOut)

-----------------------------------------------------------------------------
(* Type invariant.                                                         *)
TypeOK ==
    /\ env \in Envs /\ moves \in 0 .. Len(env.moves)
    /\ bus \in [trb : {"none", "setup", "data", "status"},
                stage : {"none", "data", "status", "asked"},
                out : BOOLEAN, in : Seq(0 .. accepted), outs : 0 .. MaxOuts,
                host : {"default", "configured", "gone"},
                want : {"default", "configured", "gone"}]
    /\ Len(bus.in) <= PacketSize
    /\ hw \in Seq(Events) /\ Len(hw) <= HwEvents
    /\ ring \in Seq(Events) /\ Len(ring) < EventRingSize
    /\ evPend \in BOOLEAN /\ txPend \in BOOLEAN
    /\ owner \in Threads \cup {None} /\ round \in 0 .. Rounds - 1
    /\ ep0 \in [state : {"setup", "data", "wait", "status"}, armed : BOOLEAN,
                config : BOOLEAN, pending : 0 .. 1, value : 0 .. 1, configured : BOOLEAN]
    /\ t1z \in [entered : BOOLEAN, failed : BOOLEAN, eps : BOOLEAN,
                phase : {"idle", "out1", "in1", "out2", "in2", "done"},
                bridge : BOOLEAN, ready : BOOLEAN]
    /\ tx \in Seq(1 .. accepted) /\ Len(tx) < TxRingSize
    /\ accepted \in 0 .. env.bytes /\ last \in 0 .. accepted
    /\ busy \in BOOLEAN /\ orphaned \in BOOLEAN
    /\ tmp \in [Threads -> Seq(1 .. accepted)]
    /\ \A t \in Threads : Len(tmp[t]) <= PacketSize
    /\ writer \in {"idle", "early", "ready", "retry"}
    /\ pc \in [Threads -> {"idle", "drain", "unlock", "pumpTx", "tx", "txArm"}]
    /\ fails \in 0 .. env.fails

(***************************************************************************)
(* s_tx_busy is set only while a transmit worker is about to arm its packet, *)
(* the transfer is with the controller, or its completion waits to be       *)
(* processed; otherwise no worker would ever send again. A bus reset or a    *)
(* SET_CONFIGURATION(0) that comes meanwhile breaks this, since neither     *)
(* clears the flag (xzs_usb.c 1777-1788): orphaned records that.            *)
(***************************************************************************)
BusyHasTransfer ==
    busy /\ ~orphaned => InOutstanding \/ \E t \in Threads : pc[t] = "txArm"

(***************************************************************************)
(* The ring keeps the order in which it accepted the bytes, and nothing that *)
(* left it is in it again. Beyond it bytes stay in order and are sent at    *)
(* most once, through worker and transfer buffer, whichever threads run the *)
(* worker (xzs_usb.c 1916-1951), unless a transfer outlived its session: its *)
(* completion is then taken for one of the next session, clears s_tx_busy   *)
(* too early, and two workers hold a packet.                                *)
(***************************************************************************)
TxInOrder ==
    LET sending == ToSet(bus.in) \ {Payload}
        taken == UNION {ToSet(tmp[t]) : t \in Threads}
        before(S, T) == \A b \in S : \A c \in T : b < c
    IN  /\ \A i, j \in DOMAIN tx : i < j => tx[i] < tx[j]
        /\ before({last} \cup sending \cup taken, ToSet(tx))
        /\ ~orphaned =>
            /\ before(sending, taken)
            /\ before({last}, sending \cup taken)
            /\ \A t, u \in Threads : tmp[t] # <<>> /\ tmp[u] # <<>> => t = u

(***************************************************************************)
(* As long as every command succeeds, both receiving endpoints listen:       *)
(* endpoint zero for a request when its state says so, bulk OUT once the    *)
(* bridge is up, unless a completion or a reset still waits to be processed  *)
(* (xzs_usb.c 1486-1540, 1972-2003).                                        *)
(***************************************************************************)
EndpointsListen ==
    fails = 0 /\ ~Contains(Waiting, "reset") =>
        /\ ep0.state = "setup" =>
            ep0.armed /\ (bus.trb = "setup" \/ \E r \in Requests : Contains(Waiting, r))
        /\ t1z.bridge /\ t1z.eps =>
            bus.out \/ \E e \in OutEvents : Contains(Waiting, e)

(***************************************************************************)
(* Every event of the controller is processed in the end, although a worker *)
(* that finds the lock taken returns and an interrupt may not come          *)
(* (xzs_usb.c 2263-2311, 2506-2520).                                        *)
(***************************************************************************)
EventsProcessed == Waiting # <<>> ~> Waiting = <<>>

(***************************************************************************)
(* A status stage that could not be armed is tried again until it is armed  *)
(* or the transfer is given up (xzs_usb.c 2292-2300, 2512-2515).            *)
(***************************************************************************)
StatusRetried == ep0.state = "wait" ~> ep0.state # "wait"

(***************************************************************************)
(* With the bridge up and a host that reads, what is in the transmit ring   *)
(* leaves it, sent or dropped by a failing command, also what was written   *)
(* before the console was ready (xzs_usb.c 1010-1035, 1916-1951). Excepted   *)
(* is a device on which a session ended under a packet: orphaned.            *)
(***************************************************************************)
TxDrains ==
    tx # <<>> /\ t1z.bridge /\ t1z.eps
        ~> tx = <<>> \/ ~t1z.bridge \/ ~t1z.eps \/ bus.host # "configured" \/ orphaned

(***************************************************************************)
(* What the comment on bus resets promises: "Allow the next                 *)
(* SET_CONFIGURATION to run the existing Z worker again so a later host can *)
(* reconnect" (xzs_usb.c 1735-1739). A later host, too, is sent what the     *)
(* transmit ring holds, whatever the session before it was doing.            *)
(***************************************************************************)
LaterHostReads ==
    tx # <<>> /\ t1z.bridge /\ t1z.eps
        ~> tx = <<>> \/ ~t1z.bridge \/ ~t1z.eps \/ bus.host # "configured"

(***************************************************************************)
(* After SET_CONFIGURATION(1) the handshake ends with the bridge up          *)
(* (xzs_usb.c 2005-2074), if every command succeeds, the host neither resets *)
(* nor reconfigures and sends no empty message, and no pump runs at          *)
(* interrupt context: an empty second message is never answered (1845,      *)
(* 2029-2033), and at interrupt context the bridge is not enabled (1956).    *)
(* It comes up on every reconnect as well (1735-1739), also after a session  *)
(* that ended under a packet; whether it then sends, see LaterHostReads.     *)
(***************************************************************************)
PlainRun == ~env.irq /\ \A i \in DOMAIN env.moves : "empty" \notin env.moves[i]

ConsoleComesUp ==
    PlainRun /\ bus.host = "configured"
        ~> t1z.bridge \/ bus.host # "configured" \/ fails > 0
=============================================================================
