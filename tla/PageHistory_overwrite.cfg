CONSTANTS
  ann = ann
  bob = bob
  Users = {ann, bob}
  MaxTime = 5
  MaxFailures = 1
SPECIFICATION Spec
SYMMETRY Symmetry
INVARIANTS
  OverwrittenBecomesVersion
CHECK_DEADLOCK FALSE
