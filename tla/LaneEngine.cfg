CONSTANTS
  Workers = 2
  QueueDepth = 2
  Plans <- MCPlans
  MaxCycles = 2
SPECIFICATION FairSpec
INVARIANTS
  TypeOK
  CancellationIsTheCallers
  FailureIsReported
  SuccessCoversPlan
  SuccessCountsPlan
  LateWorkIsBounded
  ClosedAfterLastLane
PROPERTIES
  ImplementsBatch
  Terminates
