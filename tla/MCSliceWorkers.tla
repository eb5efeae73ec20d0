--------------------------- MODULE MCSliceWorkers ---------------------------
(* The code's four workers on a panel of a few rows: a band whose height is *)
(* not a multiple of four, and one too small for helpers.    *)
EXTENDS SliceWorkers

MCBands == {<<0, 6>>, <<1, 3>>}
=============================================================================
