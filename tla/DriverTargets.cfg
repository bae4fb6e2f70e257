SPECIFICATION Spec
CONSTANT TextMode = FALSE
INVARIANT AcceptedTargetsLink
CHECK_DEADLOCK FALSE
