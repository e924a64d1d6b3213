CONSTANTS
  a = a
  b = b
  s = s
  x = x
  y = y
  z = z
  Op = {a, b}
  Reads <- ReadsOf
  Writes <- WritesOf
  Source = {s}
  Content = {v1, v2}
  Bad = Bad
  None = None
  Setting <- Settings
  Proc = {p}
  NoSize = NoSize
  Listing <- SmallNames
  Size <- SmallSizes
  Atime <- SmallSizes
  Options <- AtMostOneMB
  Scenes = {"bzsize"}
SPECIFICATION MCSpec
PROPERTIES
  NothingIfItFits
