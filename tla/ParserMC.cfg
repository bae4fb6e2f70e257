SPECIFICATION FairSpec
CONSTANTS
  Comments <- MCComments
  Texts <- MCTexts
  MaxBrackets = 6
  MaxMixed = 5
INVARIANTS
  TypeOK
  IteratorOnToken
  NestingMatchesText
  RecognisesBalanced
  TreeKeepsText
PROPERTY
  ParseEnds
CHECK_DEADLOCK FALSE
