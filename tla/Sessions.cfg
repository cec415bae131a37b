\* Two requests and a change of password, with one failing statement or death,
\* and pages of two records of at most four.
SPECIFICATION Spec
CONSTANTS
  Users = {root, ann}
  Admins = {root}
  Tokens = {t1, t2}
  Requests = {r1, r2}
  Operators = {o1}
  MaxGen = 2
  MaxFaults = 1
  MaxWork = 5
  PageSize = 2
  MaxTime = 3
  MaxRecords = 4
  None = None
CHECK_DEADLOCK FALSE
SYMMETRY Symmetric
INVARIANTS
  SurvivorsWereInFlight
  LoggedOutStaysOut
  PagesMissOnlyTies
