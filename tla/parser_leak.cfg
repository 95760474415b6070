SPECIFICATION Spec
CONSTANTS
  Vocabularies <- NamedTokens
  OptionSets <- PlainOptions
  InitialOptions = "none"
  MaxParseDepth = 12
  MaxCaptureNum = 1
  Addresses <- MCAddresses
  MaxTokens = 2
  MaxCalls = 1
INVARIANT NothingLeaks
CHECK_DEADLOCK FALSE
