----------------------------- MODULE MCDigests -----------------------------
(* An editor and a reader who may not see the second folder *)
EXTENDS Digests, TLC
CONSTANTS u1, u2
MCPaths == {<<1>>, <<1, 1>>, <<2>>}
MCFolders == {<<1>>}
MCSees == u1 :> {<<1>>, <<1, 1>>, <<2>>} @@ u2 :> {<<1>>, <<1, 1>>}
MCEdits == u1 :> {<<1>>, <<1, 1>>, <<2>>} @@ u2 :> {<<1>>}
Symmetry == Permutations(Runs)
=============================================================================
