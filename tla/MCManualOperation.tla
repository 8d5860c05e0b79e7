------------------------- MODULE MCManualOperation -------------------------
(* Values of ManualOperation's constants for TLC.                          *)
EXTENDS ManualOperation, TLC

Symmetry == Permutations(Operations)
=============================================================================
