SPECIFICATION Spec
CONSTANTS
  Comments <- MCComments
  Texts <- MCTexts
  Inputs <- MCInputs
  Platforms = {"linux", "windows"}
  MaxText = 4
  TapeSize = 2
  CellValues = 3
  Slack = 1
  Capacity = 2
INVARIANTS
  BlocksWellFormed
  OpenBlocksArePending
  ModuleMatchesTree
  VisitsMatchNesting
PROPERTY
  ImplementsLanguage
  EveryStepIsProgress
  GoesOnAsTheLanguage
CHECK_DEADLOCK FALSE
