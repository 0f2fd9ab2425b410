SPECIFICATION FairSpec
CONSTANTS
  Attempts = {a1, a2}
  Main = main
  Observer = observer
  None = none
CHECK_DEADLOCK FALSE
INVARIANTS
  OneTail
  AdmittedQuitKeepsClaim
  FsRepliesPrecedeQuitReply
  LoopQuitsOnce
  TeardownAfterTail
PROPERTIES
  HandoverEnds
  QuitEndsLoop
