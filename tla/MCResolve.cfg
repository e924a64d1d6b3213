CONSTANTS
  Unit = {u1, u2, u3}
  File = {f1}
  Shape <- Shapes
  N = 3
SPECIFICATION FairSpec
INVARIANTS
  AssertedStatuses
  AllSettled
  AbortedHasCause
PROPERTIES
  OutcomesStay
  Terminates
\* The resolution is over.
CHECK_DEADLOCK FALSE
