CONSTANTS
  Proc = {p1}
  Version = {v1, v2}
  MaxEdits = 2
  MaxCreates = 1
  Scenes = {"driver"}
SPECIFICATION Spec
INVARIANT StampIsValid
CHECK_DEADLOCK FALSE
