SPECIFICATION FairSpec
CONSTANTS
  Baseline = 1
  Candidates = {2, 3}
  StageNames = {s1, s2}
  None = none
  MaxAttempts = 3
  MaxCrashes = 2
  MaxSteps = 8
INVARIANTS
  ActivationInv
  StartAdmitted
  WayBackKept
  RollbackAfterExit
PROPERTIES
  AtomicToReaders
  AttemptsResolve
CHECK_DEADLOCK FALSE
