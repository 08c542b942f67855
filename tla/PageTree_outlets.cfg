SPECIFICATION Spec
CONSTANTS
  Paths <- MCPaths
  Titles = {1, 2}
  Requests = {r1, r2}
  InitialPages = 2
  InitialTitles = {1}
  ChunkSize = 2
  MaxFailures = 1
  r1 = r1
  r2 = r2
SYMMETRY Symmetry
INVARIANTS
  TypeOK
  RebuildIsCorrect
  TreeMatchesPages
  OutletsFollowPages
  PathsAreUnique
CHECK_DEADLOCK FALSE
