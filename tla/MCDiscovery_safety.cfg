CONSTANTS
  n1 = n1
  n2 = n2
  e1 = e1
  Nodes = {n1, n2}
  SpecTypes = {"schema", "governance"}
  Requests = {q1, q2, q3}
  Bodies <- MCBodies
  Importer = Importer
  Imports <- MCImports
  None = None
  OldKeys <- MCOldKeys
  OldEvents = {e1}
  MaxRuns = 2
SPECIFICATION MigrationSpec
SYMMETRY RequestSymmetry
CONSTRAINT FewAtOnce
INVARIANTS FirstCreateWins CreatedNetworkIsComplete OneAdmissionEvent CleanMigrationIsComplete
PROPERTIES ImplementsRegistry
CHECK_DEADLOCK FALSE
