SPECIFICATION Spec
CONSTANTS
  Texts <- ShortTexts
  MaxCharacters = 4
  Word = 2
INVARIANTS
  HeadBitsAreHeads
  HeadIsRight
