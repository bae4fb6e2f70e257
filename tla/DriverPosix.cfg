SPECIFICATION Spec
CONSTANT TextMode = FALSE
INVARIANTS
  TypeOK
  ExitZeroDelivers
  FormatAsAsked
  OverwritesAfterReading
  RuntimeFitsModule
  NativeTargetsLink
  ListIsHonest
CHECK_DEADLOCK FALSE
