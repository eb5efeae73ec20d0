--------------------------- MODULE MCSurfaceTable ---------------------------
(* Two threads, of one client or of two.                                   *)
EXTENDS SurfaceTable, TLC

CONSTANTS t1, t2, c1, c2
SameClient == [t \in Threads |-> c1]
OwnClients == [t \in Threads |-> IF t = t1 THEN c1 ELSE c2]
BothWays == {SameClient, OwnClients}

(* Surfaces and buffers are interchangeable.                               *)
Alike == Permutations(Surfaces) \cup Permutations(Bufs)
=============================================================================
