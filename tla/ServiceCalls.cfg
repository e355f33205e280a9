CONSTANTS
  Starts = {s1, s2, s3}
  Cancels = {c1, c2}
  Free = Free
  MaxProgress = 1
SPECIFICATION Spec
SYMMETRY CallSymmetry
INVARIANTS
  TypeOK
  CallOwnsActiveRun
  CancelIsHonoured
  ResultMatchesEvents
  LastReportIsKept
