CONSTANTS
  MaxInt = 31
  KIB = 4
  LargeWorkingSetThreshold = 5
  InitialRequests <- MCRequests
  Proper <- MCProper
  SuiteFiles <- MCSuiteFiles
  Disks <- MCDisks
SPECIFICATION Spec
INVARIANT
  RepeatedRunIsConfirmed
