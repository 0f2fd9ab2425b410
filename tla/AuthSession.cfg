SPECIFICATION FairSpec
CONSTANTS
  Scopes = {s1, s2}
  MaxAccounts = 1
  CallCapacity = 2
INVARIANTS
  NoOwnerFault
  SingleExchange
  CallersAccountedFor
  QuitAfterDrain
PROPERTIES
  QuitReachesLoop
CHECK_DEADLOCK FALSE
