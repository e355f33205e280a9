CONSTANTS
  Export = {e1, e2}
  Nothing = Nothing
  Other = Other
  Records = 2
  MaxRuns = 2
  MaxCrashes = 1
SPECIFICATION Spec
INVARIANT
  TemporariesAreRemoved
PROPERTY
  ImplementsReportFiles
