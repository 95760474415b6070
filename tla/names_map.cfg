SPECIFICATION FairSpec
CONSTANTS
  Names = {a, b, c}
  Indexes <- MCIndexes
  Missing = Missing
  NoName = NoName
  MinBuckets = 2
  MaxBuckets = 8
  MaxHash = 3
PROPERTIES
  IsDictionary
  PutReturns
