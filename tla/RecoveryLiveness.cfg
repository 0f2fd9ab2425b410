SPECIFICATION FairSpec
CONSTANTS
  MaxCrashes = 2
  Inputs = {"call"}
PROPERTIES
  LossResolved
  TeardownEnds
CHECK_DEADLOCK FALSE
