------------------------ MODULE MCDerivedRecompute ------------------------
(* Values of DerivedRecompute's constants for TLC.                         *)
EXTENDS DerivedRecompute, TLC

Symmetry == Permutations(Runs) \cup Permutations(Sessions)
=============================================================================
