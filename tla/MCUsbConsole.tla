---------------------------- MODULE MCUsbConsole ----------------------------
(* Instances of UsbConsole.                                                *)
EXTENDS UsbConsole

ControlMoves == Requests \cup {"reset", "disconnect"}

(* Control requests of every kind, resets and unplugging.                   *)
Enumeration == [moves |-> <<ControlMoves, ControlMoves>>, bytes |-> 0, fails |-> 0,
                irq |-> FALSE]

(* Commands and locks that fail.                                            *)
Faults == [moves |-> <<{"desc", "cfg1"}>>, bytes |-> 1, fails |-> 3,
           irq |-> FALSE]

(* The session ends in the middle of traffic, and the next begins.          *)
Reconnect ==
    [moves |-> <<{"cfg1"}, {"reset", "cfg0"}, {"cfg1"}>>, bytes |-> 2, fails |-> 0,
     irq |-> FALSE]

(* A full transmit ring.                                                    *)
Traffic == [moves |-> <<{"cfg1"}, {"sample"}>>, bytes |-> 3, fails |-> 0,
            irq |-> FALSE]

(* Empty messages, and a pump called at interrupt context.                  *)
EmptyOut == [moves |-> <<{"cfg1"}, {"empty"}>>, bytes |-> 1, fails |-> 0, irq |-> FALSE]
Interrupt == [moves |-> <<{"cfg1"}, {"cfg1", "reset"}>>, bytes |-> 1, fails |-> 0,
              irq |-> TRUE]

MCEnvs == {Enumeration, Faults, Reconnect, Traffic, EmptyOut, Interrupt}
OnlyReconnect == {Reconnect}
=============================================================================
