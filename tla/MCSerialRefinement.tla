------------------------- MODULE MCSerialRefinement -------------------------
(* The callers of a run are interchangeable. *)
EXTENDS SerialRefinement, TLC

Interchangeable == Permutations(Callers)
=============================================================================
