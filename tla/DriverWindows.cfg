SPECIFICATION Spec
CONSTANT TextMode = TRUE
INVARIANT ExitZeroDelivers
CHECK_DEADLOCK FALSE
