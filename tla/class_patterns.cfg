SPECIFICATION FairSpec
CONSTANTS
  Patterns <- MCPatterns
  MaxParseDepth = 6
  Addresses <- MCAddresses
INVARIANTS
  HeapHasOneOwner
  NoInternalError
  PartsStandForText
  WarnedOnce
  ErrorsPointAtCause
PROPERTIES
  ParseTerminates
CHECK_DEADLOCK FALSE
