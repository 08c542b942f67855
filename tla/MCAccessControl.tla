-------------------------- MODULE MCAccessControl --------------------------
(* Rules of all kinds, which tie on length, or on length and match *)
EXTENDS AccessControl, TLC

CONSTANTS p1, p2

Rule(match, deny, length, pages) == [match |-> match, deny |-> deny, length |-> length, pages |-> pages]
MCRulesOf ==
  <<{Rule("START", TRUE, 0, {p1, p2}), Rule("TAG", FALSE, 3, {p1}), Rule("EXACT", TRUE, 3, {p2})},
    {Rule("START", FALSE, 3, {p1, p2}), Rule("EXACT", FALSE, 3, {p2}), Rule("END", TRUE, 3, {p1})},
    {Rule("REGEX", TRUE, 3, {p1, p2}), Rule("TAG", TRUE, 3, {p1}), Rule("START", TRUE, 4, {p2})}>>
Symmetry == Permutations(Instances) \cup Permutations(Changes) \cup Permutations(Groups)
=============================================================================
