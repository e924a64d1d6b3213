CONSTANTS
  u1 = u1
  u2 = u2
  f1 = f1
  Unit = {u1, u2}
  OnlyBuild = {}
  File = {f1}
  Setting <- Stopped
SPECIFICATION Spec
INVARIANT AwaitedHaveStopped
CHECK_DEADLOCK FALSE
