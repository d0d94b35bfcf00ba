--------------------------- MODULE MCGoogleDrain ---------------------------
(* Model values for GoogleDrain.                                           *)
EXTENDS GoogleDrain, TLC

Symmetry == Permutations(EventIds) \cup Permutations(Contents)
=============================================================================
