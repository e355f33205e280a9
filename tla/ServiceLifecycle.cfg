CONSTANTS
  Starts = {s1, s2}
  Cancels = {c1, c2}
  Free = Free
  MaxProgress = 2
SPECIFICATION FairSpec
PROPERTIES
  ImplementsLifecycle
  EveryRunEnds
