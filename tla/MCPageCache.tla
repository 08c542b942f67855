---------------------------- MODULE MCPageCache ----------------------------
(* Symmetry for model checking PageCache. *)
EXTENDS PageCache, TLC

Symmetry == Permutations(Requests) \cup Permutations(Instances)
=============================================================================
