CONSTANTS
  a = a
  b = b
  s = s
  x = x
  y = y
  z = z
  Op = {a, b}
  Reads <- ReadsOf
  Writes <- WritesOf
  Source = {s}
  Content = {v1, v2}
  Bad = Bad
  None = None
  Setting <- Settings
  Proc = {p, q}
  NoSize = NoSize
  Listing <- Names
  Size <- Sizes
  Atime <- Atimes
  Options <- CommandLinesTried
  Scenes = {"build", "bzsize"}
SPECIFICATION MCSpec
SYMMETRY Symmetry
INVARIANTS
  RevivedIsSuccessful
  CachedIsRevived
  CacheSound
  MissLeavesNothing
PROPERTIES
  EntriesImmutable
  TrimmedToBudget
  DeletesByPolicy
