SPECIFICATION Spec
CONSTANTS
  Mod32 = 32
  Handle = {h1, h2}
  Seed = {s1, s2}
  MaxInput = 66
  Segment <- MCSegment
SYMMETRY Symmetry
INVARIANTS LanesInOrder AbsorbsInput
PROPERTY DigestIsOneShot
