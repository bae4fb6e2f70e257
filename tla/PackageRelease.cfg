SPECIFICATION Spec
CONSTANTS
  Versions = {v1, v2}
  None = None
  NoDir = NoDir
INVARIANTS
  TypeOK
  DistIsWhole
  MissingOnlyBetweenRenames
  BackupIsWhole
PROPERTY
  ReplacesAtomically
