CONSTANTS
  Warmups = 0
  Iterations = 1
  LastBlock = 1
  Suites <- MCSuites
SPECIFICATION Spec
INVARIANT
  CancelledRunRetainsNothing
