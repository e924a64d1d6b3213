CONSTANTS
  SyncOp = {}
  SpawnOp = {s1}
  UiOp = {}
  MaxSpawns = {0}
  TmpFails = FALSE
  NoOp = NoOp
SPECIFICATION Spec
INVARIANTS
  BlockingStirCompletes
CHECK_DEADLOCK FALSE
