CONSTANTS
  Unit = {u1, u2}
  File = {f1}
  Shape <- Shapes
  N = 2
SPECIFICATION Spec
INVARIANTS
  MutualAwaitIsCycle
CHECK_DEADLOCK FALSE
