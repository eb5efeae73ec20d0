------------------------------- MODULE KeyScan -------------------------------
(***************************************************************************)
(* The hardware keys of hid/SweetHID.cpp: xzs_keys_thread captures what      *)
(* every key register reads at start, then polls one register after the     *)
(* other and turns changes into key events; IOHIDEventService::dispatchEvent *)
(* hands an event to the clients of a snapshot of the client list, which    *)
(* opens and closes replace as a whole meanwhile.                           *)
(*                                                                         *)
(* A register's bit is given relative to its resting level: TRUE is pressed. *)
(* The periodic test key of boot-arg sweethidtest (off by default) is left  *)
(* out, so xzs_keys_thread is the only one that dispatches.                 *)
(***************************************************************************)
EXTENDS Integers, Sequences, SequencesExt

CONSTANTS
    NumRegs,        \* length of k_regs
    PowerReg,       \* k = 0 in the code
    HomeRegs,       \* the two camera registers, which share the home key
    Home,           \* the home key
    Clients,        \* IOHIDEventServiceClients
    Envs,           \* what a boot may find: see env below
    AtBoot,         \* the sets of registers whose keys may be held at boot
    MaxPresses      \* bound: presses and releases

Regs == 1 .. NumRegs
Keys == (Regs \ HomeRegs) \cup {Home}

ASSUME KeyAssumption ==
    /\ NumRegs \in Nat \ {0}
    /\ HomeRegs \subseteq Regs /\ PowerReg \in Regs \ HomeRegs
    /\ Home \notin Regs
    /\ Envs \subseteq [flaky : BOOLEAN, noMem : BOOLEAN]
    /\ AtBoot \subseteq SUBSET Regs
    /\ MaxPresses \in Nat

VARIABLES
    env,        \* flaky: SPMI reads may fail; noMem: objects may not be had
    pressed,    \* register -> whether its key is held
    presses,    \* changes of it so far
    pc, at,     \* where the thread is, and the register it is at
    base, valid, state, home,   \* its locals
    keyUsed,    \* g_xzs_power_key_used
    event,      \* the key event being sent
    left,       \* the rest of the snapshot dispatchEvent works through
    opened,     \* clients that are open
    list,       \* _clients
    told        \* client -> key -> the last event it got, <<>> for none

hw == <<env, pressed, presses>>
keys == <<base, valid, state, home, keyUsed>>
sending == <<event, left, told>>
vars == <<hw, pc, at, keys, sending, opened, list>>

Init ==
    /\ env \in Envs
    /\ \E held \in AtBoot : pressed = [k \in Regs |-> k \in held]
    /\ presses = 0
    /\ pc = "capture" /\ at = 1
    /\ base = [k \in Regs |-> FALSE] /\ valid = {}
    /\ state = [k \in Regs |-> FALSE] /\ home = FALSE
    /\ keyUsed = FALSE
    /\ event = [key |-> Home, down |-> FALSE] /\ left = <<>>
    /\ opened = {} /\ list = <<>>
    /\ told = [c \in Clients |-> [k \in Keys |-> <<>>]]

(* The user.                                                               *)
Press(k) ==
    /\ presses < MaxPresses
    /\ pressed' = [pressed EXCEPT ![k] = ~@]
    /\ presses' = presses + 1
    /\ UNCHANGED <<env, pc, at, keys, sending, opened, list>>

(* Mutant: the scan runs past the last register.                            *)
NextRegEndless == at' = at + 1 /\ pc' = "scan"

(* On to the next register; after the last one, sleep and start over.       *)
NextReg ==
    /\ at' = IF at < NumRegs THEN at + 1 ELSE 1
    /\ pc' = "scan"

(***************************************************************************)
(* xzs_keys_thread                                                         *)
(***************************************************************************)
(* Mutant: a register that answered is not marked valid.                    *)
CaptureBaseInvalid ==
    /\ pc = "capture"
    /\ base' = [base EXCEPT ![at] = pressed[at]]
    /\ at' = IF at < NumRegs THEN at + 1 ELSE 1
    /\ pc' = IF at < NumRegs THEN "capture" ELSE "scan"
    /\ UNCHANGED <<hw, valid, state, home, keyUsed, sending, opened, list>>

(* A register that cannot be read now is never looked at again.             *)
CaptureBase ==
    /\ pc = "capture"
    /\ \/ /\ base' = [base EXCEPT ![at] = pressed[at]]
          /\ valid' = valid \cup {at}
       \/ /\ env.flaky
          /\ UNCHANGED <<base, valid>>
    /\ at' = IF at < NumRegs THEN at + 1 ELSE 1
    /\ pc' = IF at < NumRegs THEN "capture" ELSE "scan"
    /\ UNCHANGED <<hw, state, home, keyUsed, sending, opened, list>>

IsDown(k) == pressed[k] # base[k]

(* Not valid, not read, or not changed.                                    *)
SkipKey ==
    /\ pc = "scan"
    /\ at \notin valid \/ env.flaky \/ IsDown(at) = state[at]
    /\ NextReg
    /\ UNCHANGED <<hw, keys, sending, opened, list>>

(* Mutant: home follows the camera register that changed last.              *)
NextHomeLast(k) == IsDown(k)

NextHome(k) == IsDown(k) \/ \E j \in HomeRegs \ {k} : state[j]

(* Mutant: every change of a camera register is sent as a home event.       *)
HomeChangesAlways(k) == TRUE

HomeChanges(k) == NextHome(k) # home

KeyChanged ==
    /\ pc = "scan"
    /\ at \in valid /\ IsDown(at) # state[at]
    /\ state' = [state EXCEPT ![at] = IsDown(at)]
    /\ keyUsed' = (keyUsed \/ (at = PowerReg /\ IsDown(at)))
    /\ \/ /\ at \notin HomeRegs
          /\ event' = [key |-> at, down |-> IsDown(at)]
          /\ pc' = "send"
          /\ UNCHANGED <<home, at>>
       \/ /\ at \in HomeRegs /\ HomeChanges(at)
          /\ home' = NextHome(at)
          /\ event' = [key |-> Home, down |-> NextHome(at)]
          /\ pc' = "send"
          /\ UNCHANGED at
       \/ /\ at \in HomeRegs /\ ~HomeChanges(at)
          /\ NextReg
          /\ UNCHANGED <<home, event>>
    /\ UNCHANGED <<hw, base, valid, left, told, opened, list>>

(***************************************************************************)
(* SweetHIDButtons::key and dispatchEvent: an event that cannot be          *)
(* allocated is dropped; otherwise the list is copied under the lock.       *)
(***************************************************************************)
SendKey ==
    /\ pc = "send"
    /\ \/ left' = list /\ pc' = "deliver" /\ UNCHANGED at
       \/ env.noMem /\ NextReg /\ UNCHANGED left
    /\ UNCHANGED <<hw, keys, event, told, opened, list>>

Deliver ==
    /\ pc = "deliver" /\ left # <<>>
    /\ told' = [told EXCEPT ![Head(left)][event.key] = <<event.down>>]
    /\ left' = Tail(left)
    /\ UNCHANGED <<hw, pc, at, keys, event, opened, list>>

Delivered ==
    /\ pc = "deliver" /\ left = <<>>
    /\ NextReg
    /\ UNCHANGED <<hw, keys, sending, opened, list>>

(***************************************************************************)
(* IOHIDEventService::open, handleOpen and handleClose                     *)
(***************************************************************************)
(* A client is a new object, so none that a list still holds.               *)
handleOpen(c) ==
    /\ c \notin opened \cup ToSet(list) \cup ToSet(left)
    /\ list' = Append(list, c)
    /\ opened' = opened \cup {c}
    /\ told' = [told EXCEPT ![c] = [k \in Keys |-> <<>>]]
    /\ UNCHANGED <<hw, pc, at, keys, event, left>>

(* The client is on the list once, and left out of the new one; when that   *)
(* cannot be had, the closed client stays on the old one.                   *)
handleClose(c) ==
    /\ c \in opened
    /\ opened' = opened \ {c}
    /\ \/ \E i \in 1 .. Len(list) : list[i] = c /\ list' = RemoveAt(list, i)
       \/ env.noMem /\ UNCHANGED list
    /\ UNCHANGED <<hw, pc, at, keys, sending>>

-----------------------------------------------------------------------------
Thread ==
    \/ CaptureBase \/ SkipKey \/ KeyChanged \/ SendKey \/ Deliver \/ Delivered

Next ==
    \/ Thread
    \/ \E k \in Regs : Press(k)
    \/ \E c \in Clients : handleOpen(c) \/ handleClose(c)

Spec == Init /\ [][Next]_vars

(* The thread sleeps 10 ms between turns and goes on.                      *)
FairSpec == Spec /\ WF_vars(Thread)

-----------------------------------------------------------------------------
(* Type invariant.                                                         *)
TypeOK ==
    /\ env \in Envs /\ pressed \in [Regs -> BOOLEAN] /\ presses \in 0 .. MaxPresses
    /\ pc \in {"capture", "scan", "send", "deliver"} /\ at \in Regs
    /\ base \in [Regs -> BOOLEAN] /\ valid \subseteq Regs
    /\ state \in [Regs -> BOOLEAN] /\ home \in BOOLEAN /\ keyUsed \in BOOLEAN
    /\ event \in [key : Keys, down : BOOLEAN]
    /\ list \in Seq(Clients) /\ IsInjective(list) /\ opened \subseteq ToSet(list)
    /\ left \in Seq(Clients) /\ IsInjective(left)
    /\ told \in [Clients -> [Keys -> {<<>>, <<TRUE>>, <<FALSE>>}]]

(* What the keys are, as the thread has seen them: home is either camera key. *)
Seen(k) == IF k = Home THEN \E j \in HomeRegs : state[j] ELSE state[k]

(***************************************************************************)
(* Between two events every client on the list has last been told what the  *)
(* thread last saw of each key it was told of at all, whoever opened or     *)
(* closed during earlier events; so no key hangs (SweetHID.cpp 636-664).    *)
(***************************************************************************)
ClientsFollowKeys ==
    pc = "scan" /\ ~env.noMem =>
        \A c \in ToSet(list) : \A k \in Keys : told[c][k] \in {<<>>, <<Seen(k)>>}

(***************************************************************************)
(* No client is told twice in a row that a key is down, or up: the two       *)
(* camera registers of one press of the camera key make one press of home   *)
(* (SweetHID.cpp 654-658).                                                  *)
(***************************************************************************)
NoRepeatedEvent ==
    pc = "deliver" /\ ~env.noMem =>
        \A c \in ToSet(left) : told[c][event.key] # <<event.down>>

(***************************************************************************)
(* A key that was at rest at boot and is held down is reported to every      *)
(* client that stays, as long as registers can be read and events had.      *)
(***************************************************************************)
KeyOf(k) == IF k \in HomeRegs THEN Home ELSE k

PressesReported ==
    \A k \in Regs : \A c \in Clients :
        (/\ pc = "scan" /\ ~env.flaky /\ ~env.noMem
         /\ pressed[k] /\ ~base[k] /\ ~Seen(KeyOf(k)) /\ c \in opened)
            ~> (told[c][KeyOf(k)] = <<TRUE>> \/ ~pressed[k] \/ c \notin opened)
=============================================================================
