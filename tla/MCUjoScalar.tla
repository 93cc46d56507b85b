---------------------------- MODULE MCUjoScalar -----------------------------
(***************************************************************************)
(* Every half, the float32 after it, and the last one before its neighbour *)
(* where halves are normal.                                                *)
(***************************************************************************)
EXTENDS UjoScalar

AllHalves == Halves16
Neighbours == {0, 1, 8191}
=============================================================================
