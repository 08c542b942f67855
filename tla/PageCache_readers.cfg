SPECIFICATION Spec
CONSTANTS
  Instances = {i1, i2}
  Nowhere = nowhere
  Requests = {r1, r2}
  MaxFailures = 1
  MaxMissed = 1
  i1 = i1
  i2 = i2
  r1 = r1
  r2 = r2
SYMMETRY Symmetry
INVARIANTS
  TypeOK
  CacheCurrent
  RenderCurrent
  LinksCurrent
PROPERTY
  SavedTextIsShown
CHECK_DEADLOCK FALSE
