--------------------------- MODULE MCEditSession ---------------------------
(* Symmetry for model checking EditSession. *)
EXTENDS EditSession, TLC

Symmetry == Permutations(Tabs) \cup Permutations(Authors)
=============================================================================
