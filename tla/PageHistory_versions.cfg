CONSTANTS
  ann = ann
  bob = bob
  Users = {ann, bob}
  MaxTime = 4
  MaxFailures = 1
SPECIFICATION Spec
SYMMETRY Symmetry
INVARIANTS
  TypeOK
  VersionsAreTrue
  OnlyUnseenTextsAreLost
  RevertRestoresBaseline
  RevertKeepsOthers
  PlanMissesNoChange
CHECK_DEADLOCK FALSE
