CONSTANTS
  Starts = {s1}
  Cancels = {c1}
  Free = Free
  MaxProgress = 1
  Hasty = FALSE
  SuiteEdited = TRUE
SPECIFICATION DesktopSpec
INVARIANT
  ConfirmationCanBeGiven
