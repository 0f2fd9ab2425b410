SPECIFICATION StartupSpec
CONSTANTS
  MaxCrashes = 2
  Inputs = {"call"}
INVARIANT ExitBeforeReadyIsFinal
CHECK_DEADLOCK FALSE
