CONSTANTS
  Keyword <- MCKeyword
  Word <- MCWord
  Spellings <- MCSpellings
  Numeric <- MCNumeric
  Stem <- MCStem
  Digits <- MCDigits
  Common = {"*idn"}
  None <- MCNone
  Default <- MCDefault
  MaxTokens = 6
SPECIFICATION Spec
INVARIANTS MatchesForms NumbersRead
CHECK_DEADLOCK FALSE
