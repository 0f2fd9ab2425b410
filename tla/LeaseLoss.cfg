SPECIFICATION FairSpec
CONSTANTS
  Attempts = {a1, a2}
  Main = main
  Observer = observer
  None = none
PROPERTIES
  LeaseLossEndsLoop
CHECK_DEADLOCK FALSE
