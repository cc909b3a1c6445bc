---------------------------- MODULE MCErrorFifo -----------------------------
(* ErrorFifo on rings of 1, 2 and 3 slots. *)
EXTENDS ErrorFifo, TLC

CONSTANTS b1, b2, b3, b4

MCBlock == {b1, b2, b3, b4}
Symmetry == Permutations(MCBlock)
=============================================================================
