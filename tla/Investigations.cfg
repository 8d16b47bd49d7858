SPECIFICATION Spec
CONSTANTS
  Requests = {q1, q2}
  NoRequest = NoRequest
  Operators = {p1, p2}
  MaxVersions = 6
  MaxCloud = 3
SYMMETRY Symmetry
INVARIANTS
  SubmittedOnce
  HistoryLinear
  SnapshotTrue
CHECK_DEADLOCK FALSE
