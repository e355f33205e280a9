CONSTANTS
  Starts = {s1}
  Cancels = {c1}
  Free = Free
  MaxProgress = 1
SPECIFICATION Spec
INVARIANT
  CleanupFailureIsReported
