----------------------------- MODULE LatestFrame -----------------------------
(***************************************************************************)
(* What the swap path of AppleCLCD promises: a mailbox of one place.  A new *)
(* value replaces one that was not taken; the taker gets the value that is  *)
(* latest at that moment; the latest value may be offered again.            *)
(***************************************************************************)
CONSTANT Values

VARIABLES offered, taken, fresh

Init == offered \in Values /\ taken = offered /\ fresh = FALSE

Offer(v) == offered' = v /\ fresh' = TRUE /\ UNCHANGED taken

OfferAgain == fresh' = TRUE /\ UNCHANGED <<offered, taken>>

Take == fresh /\ taken' = offered /\ fresh' = FALSE /\ UNCHANGED offered

Next == (\E v \in Values : Offer(v)) \/ OfferAgain \/ Take

Spec == Init /\ [][Next]_<<offered, taken, fresh>>
=============================================================================
