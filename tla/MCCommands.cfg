CONSTANTS
  Proc = {p1, p2}
  Version = {v1, v2}
  MaxEdits = 2
  MaxCreates = 2
  Scenes = {"driver", "variant"}
SPECIFICATION Spec
INVARIANTS
  WritesAreWhole
  InstanceIsCurrent
  CommandsAreWhole
SYMMETRY Symmetry
CHECK_DEADLOCK FALSE
