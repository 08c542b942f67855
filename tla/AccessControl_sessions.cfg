SPECIFICATION Spec
CONSTANTS
  Instances = {i1, i2}
  Groups = {g1, g2}
  RulesOf <- MCRulesOf
  Pages = {p1, p2}
  Grace = 1
  Expiration = 3
  Changes = {c1, c2}
  MaxMishaps = 1
  p1 = p1
  p2 = p2
SYMMETRY Symmetry
INVARIANTS
  TypeOK
  StrongestRuleDecides
  GroupsCurrent
  SessionCurrent
CHECK_DEADLOCK FALSE
