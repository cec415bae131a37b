\* A publish answered 201 whose version is taken out again.
SPECIFICATION Spec
CONSTANTS
  Publishers = {q1, q2, q3}
  Installers = {i1}
  Versions = {v1, v2}
  Tags = {latest}
  Tarballs = {b1, b2}
  None = None
SYMMETRY Symmetric
CHECK_DEADLOCK FALSE
PROPERTY VersionsStay
