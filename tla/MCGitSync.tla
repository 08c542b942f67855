------------------------------ MODULE MCGitSync ------------------------------
(* A small instance of GitSync for TLC. *)
EXTENDS GitSync

CONSTANTS p1, p2
===============================================================================
