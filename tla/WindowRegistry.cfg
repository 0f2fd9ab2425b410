\* Two windows, two generations, every interleaving of callers and natives.
SPECIFICATION RegistrySpec
CONSTANTS
  Owners = {g1, g2}
  Correlations = {c1, c2}
  Views = {v1, v2}
  Attrs = {a}
  Values = {x, y}
  None = None
  IdLimit = 3
  IncarnationLimit = 3
  CloseSeqLimit = 2
  DropLimit = 1
  MAX_PENDING_DESTROYS_PER_WINDOW = 1
  PROPOSED_MAX_CUMULATIVE_WINDOW_IDS = 2
INVARIANTS
  RegistryInv
  CallsAwaitAReceipt
  CorrelationsParkedOnce
PROPERTIES
  LifecycleOnlyForward
