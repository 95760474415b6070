SPECIFICATION Spec
CONSTANTS
  MaxCode = 4
  MaxRanges = 2
  SizeBits = 3
INVARIANT MembershipIsRight
CHECK_DEADLOCK FALSE
