---------------------------- MODULE MCPageHistory ----------------------------
(* A small instance of PageHistory for TLC. *)
EXTENDS PageHistory, TLC

CONSTANTS ann, bob

Symmetry == Permutations(Users)
===============================================================================
