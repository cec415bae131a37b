\* Three processes, with deaths and failing statements.
SPECIFICATION FairSpec
CONSTANTS
  N = 3
  Processes = {p1, p2, p3}
  MaxCrashes = 2
INVARIANTS
  AppliedInOrder
  UpIsCurrent
PROPERTIES
  NoopOnceCurrent
  StartsUp
