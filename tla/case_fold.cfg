SPECIFICATION BuilderSpec
CONSTANTS
  FoldItems <- SomeItems
  Codes <- SomeCodes
  MaxText = 3
  CpropRanges <- SomeRanges
  SomeNodes <- MCNodes
INVARIANTS
  UnfoldInvertsFold
  IterationReportsFolds
  ClassStandsForNode
CHECK_DEADLOCK FALSE
