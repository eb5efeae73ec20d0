---------------------------- MODULE MCFrameKicker ----------------------------
(* Two console threads, the presenter and a diagnostic: each kind by itself, *)
(* or all together.                                                         *)
EXTENDS FrameKicker

VARIABLE crew       \* the threads that run

OneSide == {Presenters, Consoles, Diagnosers}
Together == {Threads}
CONSTANT Crews      \* one of these two

mcVars == <<vars, crew>>

MCInit == Init /\ crew \in Crews
MCNext ==
    \/ Hardware /\ UNCHANGED crew
    \/ \E t \in crew : ((Begin(t) /\ UNCHANGED wiped) \/ Runs(t)) /\ UNCHANGED crew

MCFairSpec ==
    /\ MCInit /\ [][MCNext]_mcVars
    /\ WF_mcVars(TearingEffect /\ UNCHANGED <<wiped, crew>>)
    /\ WF_mcVars(TransferDone /\ UNCHANGED <<wiped, crew>>)
    /\ \A t \in Threads : WF_mcVars(Runs(t) /\ UNCHANGED crew)
=============================================================================
