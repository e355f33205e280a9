CONSTANTS
  Starts = {s1, s2}
  Cancels = {c1}
  Free = Free
  MaxProgress = 1
  Hasty = FALSE
  SuiteEdited = FALSE
SPECIFICATION DesktopFairSpec
INVARIANTS
  DesktopTypeOK
  PageShowsItsRun
  ShownReportCanBeExported
  StartIsNeverRefused
PROPERTIES
  FinishedStaysFinished
  PageIsReleased
