CONSTANTS
  Size = 7
  QueueSize = 3
  Letter <- MCLetter
  Texts <- MCTexts
  Description <- MCDescription
  OutputLimit = 6
SPECIFICATION Spec
INVARIANTS TextsIntact AnswerWithinLimit SpaceAccounted
