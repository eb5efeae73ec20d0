----------------------------- MODULE MCTouchScan -----------------------------
(* Two finger slots on a narrow panel.                                     *)
EXTENDS TouchScan

(* Both functions, each reliable, with failing reads, and without memory.   *)
AllEnvs == {e \in [f12 : BOOLEAN, flaky : BOOLEAN, noMem : BOOLEAN] :
               ~(e.flaky /\ e.noMem)}
(* Function $12 and nothing going wrong.                                    *)
GoodF12 == {[f12 |-> TRUE, flaky |-> FALSE, noMem |-> FALSE]}
=============================================================================
