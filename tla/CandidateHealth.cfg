\* The candidate and one other process that opens the endpoint.
SPECIFICATION FairSpec
CONSTANTS
  Clients = {cand, other}
  Candidate = cand
  None = none
CHECK_DEADLOCK FALSE
INVARIANTS
  CancelOrOneShot
  CommitIsEarned
PROPERTIES
  ExchangeEnds
