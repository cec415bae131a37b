\* Two clients that upload and push files beside freely, with deaths and failing
\* statements.
SPECIFICATION Spec
CONSTANTS
  Versions = {v1, v2}
  Bodies = {b1, b2}
  Clients = {c1, c2}
  None = None
  MaxUploads = 3
SYMMETRY Symmetric
CHECK_DEADLOCK FALSE
INVARIANTS
  MetadataIsSound
  AnsweredIsListed
  AnsweredHasChecksum
