SPECIFICATION Spec
CONSTANTS
  Users = {u1, u2}
  Pages = {q1}
  Paths <- MCPaths
  Folders <- MCFolders
  Sees <- MCSees
  Edits <- MCEdits
  Runs = {r1, r2}
  MaxChanges = 2
  MaxWatching = 2
  MaxMishaps = 1
  u1 = u1
  u2 = u2
SYMMETRY Symmetry
INVARIANTS
  TypeOK
  MailedExactlyOnce
CHECK_DEADLOCK FALSE
