\* One window with native state, two generations, close requests.
SPECIFICATION Spec
CONSTANTS
  Owners = {1, 2}
  Correlations = {c1, c2}
  Views = {1}
  Attrs = {a}
  Values = {x, y}
  None = None
  IdLimit = 1
  IncarnationLimit = 1
  CloseSeqLimit = 2
  DropLimit = 1
  MAX_PENDING_DESTROYS_PER_WINDOW = 2
  PROPOSED_MAX_CUMULATIVE_WINDOW_IDS = 1
  FactLimit = 2
  CommandLimit = 2
CHECK_DEADLOCK FALSE
INVARIANTS
  RoleAgreesWithRegistry
PROPERTIES
  StreamImplemented
