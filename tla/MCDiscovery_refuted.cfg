CONSTANTS
  n1 = n1
  n2 = n2
  e1 = e1
  Nodes = {n1, n2}
  SpecTypes = {"schema", "governance"}
  Requests = {q1, q2, q3}
  Bodies <- ReopeningBodies
  Importer = Importer
  Imports <- MCImports
  None = None
  OldKeys <- MCOldKeys
  OldEvents = {e1}
  MaxRuns = 2
SPECIFICATION MigrationSpec
SYMMETRY RequestSymmetry
CONSTRAINT FewAtOnce
\* Each statement is refuted: keep one of them at a time to see its counterexample.
INVARIANTS CreationIsLogged ManifestsAreTogether EventsAreMigratedOnce
PROPERTIES FromIsAccurate DissolutionIsPermanent
CHECK_DEADLOCK FALSE
