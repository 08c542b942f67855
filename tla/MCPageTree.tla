----------------------------- MODULE MCPageTree -----------------------------
(* Two pages under the root and one two folders below the first, each of which may be there or not. *)
EXTENDS PageTree, TLC

MCPaths == {<<1>>, <<1, 1, 1>>, <<2>>}
Symmetry == Permutations(Requests)
=============================================================================
