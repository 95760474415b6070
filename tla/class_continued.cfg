SPECIFICATION Spec
CONSTANTS
  Patterns <- ContinuedPatterns
  MaxParseDepth = 6
  Addresses <- MCAddresses
INVARIANTS
  InternalErrorUnreachable
CHECK_DEADLOCK FALSE
