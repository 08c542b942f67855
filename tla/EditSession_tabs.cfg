SPECIFICATION Spec
CONSTANTS
  Tabs = {e1, e2}
  Authors = {a1, a2}
  MaxOpens = 3
  MaxTyping = 1
  MaxSaves = 2
  MaxRequests = 3
  e1 = e1
  e2 = e2
  a1 = a1
  a2 = a2
SYMMETRY Symmetry
INVARIANTS
  TypeOK
  NoFalseConflict
  DraftKeepsWork
PROPERTY
  NoSilentOverwrite
CHECK_DEADLOCK FALSE
