SPECIFICATION Spec
CONSTANTS
  Inputs <- AllInputs
  PropertyNames <- Properties
  Addresses = {a1, a2}
  range_quantifier_max_repetition_limit = 100
  back_ref_max_num_limit = 100
  bare_back_ref_max_num_limit = 100
  max_capture_depth_limit = 10
INVARIANTS
  NameBufferHasOneOwner
  TokensCoverPattern
  BoundsAreQuantifiers
  ReferencesResolve
  EscapedBytesAreCharacters
  UnicodeCodesAsWritten
  OptionsAsWritten
  NamesAsWritten
PROPERTY LexReturns
CHECK_DEADLOCK FALSE
