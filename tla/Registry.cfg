SPECIFICATION FairSpec
CONSTANTS
  b1 = b1
  b2 = b2
  c1 = c1
  c2 = c2
  Calls <- MCCalls
  Bodies <- MCBodies
  Digests <- MCDigests
  Sha <- MCSha
  KeyPos <- MCKeyPos
  Partial = Partial
  Absent = Absent
  MaxStuck = 1
  NoRow = NoRow
  p1 = p1
  p2 = p2
  Paths = {p1, p2}
  Manifests = {p1}
  Wanted <- MCWanted
  Readers = {r1}
  PageLimit = 2
INVARIANTS
  ContentIntegrity
  NoLeftovers
  RowsKeepBlobs
PROPERTIES
  ImplementsContentStore
  CollectsAllOrphans
  GcTerminates
