SPECIFICATION Spec
CONSTANT TextMode = FALSE
INVARIANT ListIsDelivered
CHECK_DEADLOCK FALSE
