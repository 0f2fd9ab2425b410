SPECIFICATION Spec
CONSTANTS
  MaxCrashes = 2
  Inputs = {"call", "quit", "last_window", "late"}
CHECK_DEADLOCK FALSE
INVARIANTS
  RevokedBeforeBound
  NoRecoveryBeforeReady
  RestartsTheLost
