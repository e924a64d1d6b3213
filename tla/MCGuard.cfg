CONSTANTS
  Op = {o1, o2, o3}
  File = {f1, f2}
  Unit = {u1}
  NoEvent = NoEvent
SPECIFICATION FairSpec
INVARIANTS
  GuardsMatchAwaiting
  StatusMatchesPlace
PROPERTIES
  EmptyForever
  KeepsPromise
  ReleasesAll
\* The build stops when all is handed out.
CHECK_DEADLOCK FALSE
