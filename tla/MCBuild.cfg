CONSTANTS
  u1 = u1
  u2 = u2
  f1 = f1
  Unit = {u1, u2}
  OnlyBuild = {}
  File = {f1}
  Setting <- Settings
SPECIFICATION FairSpec
INVARIANTS
  ActivityExact
  PendingOpsOfLiveUnits
  FinishedIsDone
  AwaitedAreOver
  EndsSettled
PROPERTIES
  OutcomesStay
  Terminates
\* The build is done.
CHECK_DEADLOCK FALSE
