SPECIFICATION Spec
CONSTANTS
  Versions = {v1, v2}
  None = None
  NoDir = NoDir
INVARIANT DistHoldsOneRelease
