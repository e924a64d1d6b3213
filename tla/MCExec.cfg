CONSTANTS
  SyncOp = {r1}
  SpawnOp = {s1, s2, s3}
  UiOp = {s1}
  MaxSpawns <- SpawnBounds
  TmpFails = TRUE
  NoOp = NoOp
SPECIFICATION FairSpec
INVARIANTS
  CountsProcesses
  AtMostMaxSpawn
  InOnePlace
  WaitsForAProcess
PROPERTIES
  NoneWhenDone
  Completes
\* A fault ends the handler.
CHECK_DEADLOCK FALSE
