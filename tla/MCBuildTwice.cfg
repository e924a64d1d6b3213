CONSTANTS
  u1 = u1
  u2 = u2
  f1 = f1
  Unit = {u1, u2}
  OnlyBuild = {u1}
  File = {f1}
  Setting <- Twice
SPECIFICATION Spec
INVARIANT PendingOpsOfLiveUnits
CHECK_DEADLOCK FALSE
