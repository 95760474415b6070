SPECIFICATION FairSpec
CONSTANTS
  Vocabularies <- PatternTokens
  OptionSets <- TwoOptions
  InitialOptions = "none"
  MaxParseDepth = 12
  MaxCaptureNum = 2
  Addresses <- MCAddresses
  MaxTokens = 5
  MaxCalls = 1
INVARIANTS
  OptionsScoped
  DepthMatchesStack
  HeapHasOneOwner
  NoInternalError
  CapturesNumberedInOrder
  TreeStandsForPattern
  ResultUsesScopedOptions
PROPERTIES
  ParseTerminates
CHECK_DEADLOCK FALSE
