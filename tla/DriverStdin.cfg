SPECIFICATION Spec
CONSTANT TextMode = FALSE
INVARIANT SourceIsWhole
CHECK_DEADLOCK FALSE
