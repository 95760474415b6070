SPECIFICATION FairSpec
CONSTANTS
  Ids <- MCIds
  CaptureNums <- MCCaptureNums
  Positions <- MCPositions
  Patterns <- MCPatterns
  ProgramOf <- MCProgramOf
  Arguments <- MCArguments
  Alphabet <- MCAlphabet
  AsciiCodes <- MCAsciiCodes
  WordCodes <- MCWordCodes
  Newline = "LF"
  Nil = Nil
  GetCaseFold <- MCGetCaseFold
  ExpandCaseUnfold <- MCExpandCaseUnfold
INVARIANTS
  OneThreadPerState
  MatchIsFirst
  MatchPIsRight
PROPERTIES
  CapturesAreValues
  MatchReturns
