\* A fault-free session that is quit while a window is being built.
SPECIFICATION FaultFreeSpec
CONSTANTS
  Owners = {1, 2}
  Correlations = {c1, c2}
  Views = {1, 2}
  Attrs = {}
  Values = {x}
  None = None
  IdLimit = 2
  IncarnationLimit = 2
  CloseSeqLimit = 1
  DropLimit = 1
  MAX_PENDING_DESTROYS_PER_WINDOW = 2
  PROPOSED_MAX_CUMULATIVE_WINDOW_IDS = 2
  FactLimit = 1
  CommandLimit = 1
CHECK_DEADLOCK FALSE
INVARIANTS
  QuitDestroysWindows
