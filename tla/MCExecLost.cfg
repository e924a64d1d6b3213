CONSTANTS
  SyncOp = {}
  SpawnOp = {s1}
  UiOp = {s1}
  MaxSpawns = {1}
  TmpFails = TRUE
  NoOp = NoOp
SPECIFICATION Spec
PROPERTIES
  NoneIfComplete
CHECK_DEADLOCK FALSE
