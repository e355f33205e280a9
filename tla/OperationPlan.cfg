CONSTANT
  Inputs <- MCInputs
SPECIFICATION Spec
INVARIANTS
  TypeOK
  OperationsAreDisjoint
  RegionsAscend
  PlanCoversFile
  ReadShareIsRounded
  LanesShareOutPlan
  LoadIsBalanced
