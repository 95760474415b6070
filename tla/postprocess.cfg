SPECIFICATION FairSpec
CONSTANTS
  a = a
  b = b
  Names = {a, b}
  NoName = NoName
  Patterns <- MCPatterns
  FirstEntries = 1
  FirstNums = 1
INVARIANTS
  RefsCanBeRead
  TargetsFound
  FirstWrongIsReported
  WarnedOfLaterCaptures
PROPERTIES
  PostprocessReturns
