SPECIFICATION Spec
CONSTANTS
  Texts <- ShortTexts
  MaxCharacters = 4
  Word = 2
INVARIANT CachedHeadIsRight
