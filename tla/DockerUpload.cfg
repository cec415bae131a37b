\* One server: four requests over one session, with failing bodies, failing
\* writes and restarts. Every request is made once, so that a behaviour may end.
SPECIFICATION UploadSpec
CONSTANTS
  x = x
  Servers = {p1}
  Sessions = {s1}
  Requests = {r1, r2, r3, r4}
  Names = {n1}
  Bytes = {x}
  MaxBody = 2
  Claims <- MCClaims
  NoValue = NoValue
SYMMETRY Symmetric
CHECK_DEADLOCK FALSE
INVARIANTS
  UploadTypeOK
  RecordedIsStored
  SizeIsFileLength
  SessionLifecycle
