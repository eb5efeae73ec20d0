----------------------------- MODULE MCKeyScan -----------------------------
(* Instances of KeyScan: all registers of the code but the volume keys.     *)
EXTENDS KeyScan

MCHomeRegs == {2, 3}

MCEnvs == {e \in [flaky : BOOLEAN, noMem : BOOLEAN] : e.noMem => e.flaky}

(* Nothing is held at boot, or one of the camera keys is.                   *)
MCAtBoot == {{}, {2}}
=============================================================================
