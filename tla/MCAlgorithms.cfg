SPECIFICATION Spec
CONSTANTS
  TopP = 6
  Candidates = 3
  Tolerance = 1
  TopMetric = 3
  Sample = 4
  MaxRows = 5
  Epsilon = 1
  MaxGroups = 3
  MaxBins = 4
  Width = 3
  TopShap = 2
  GlobalRows = 2
  TopMargin = 3
  Factor = 2
  Offset = 10
CHECK_DEADLOCK FALSE
INVARIANTS
  NobodyDominatesTheCandidate
  ComplexityIsPaidFor
  ThresholdIsTheLargestBest
  DecilesFollowRisk
  TablesMirror
  BaselineCountsItself
  BinsAreEquallyFilled
  ExplanationAddsUp
  DriversAreTheStrongest
