CONSTANTS
  Platform = {"posix", "windows", "other"}
  Impl = {"xxhash", "murmur3"}
  IntMax = 2
  MaxSize = 4
  MaxWrites = 2
  MaxCalls = 2
SPECIFICATION FileSpec
INVARIANTS
  OkIsTheContent
  LeftByRaised
PROPERTY ReadsTheMapping
CHECK_DEADLOCK FALSE
