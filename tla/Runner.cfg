CONSTANTS
  Warmups = 1
  Iterations = 2
  LastBlock = 2
  Suites <- MCSuites
SPECIFICATION Spec
INVARIANTS
  TypeOK
  ReadsHitData
  LeftFilesAreExplained
  ReportIsComplete
  NoHandleIsLeft
