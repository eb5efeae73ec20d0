----------------------------- MODULE MCPresenter -----------------------------
(* Small instances of Presenter.                                           *)
EXTENDS Presenter

MCContents == 0 .. 1
(* The sampled pixels tell all contents apart.                             *)
SampledAll == [c \in MCContents |-> c]

(* One layer, on, with a surface or with an id that leads nowhere.          *)
OneLayer == {r \in SwapRecs : r.mask = {1}}

(* A surface by itself, with the second layer off, and above the other.     *)
Stack(m, a, b) ==
    {[mask |-> m, layer |-> [i \in 1 .. 2 |-> [id |-> IF i = 1 THEN a ELSE b,
                                               dest |-> d]]] : d \in Dests}
CONSTANTS s1, s2
StackedSwaps == Stack({1}, s1, s2) \cup Stack({1, 2}, s2, s1)
=============================================================================
