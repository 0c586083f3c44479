SPECIFICATION MCSpec
CONSTANTS
  p1 = p1
  p2 = p2
  p3 = p3
  v1 = v1
  v2 = v2
  Runs = {p1, p2, p3}
  Versions = {v1, v2}
  Last = 3
  MaxEdits = 2
  Absent = Absent
  Partial = Partial
SYMMETRY Symmetric
INVARIANTS
  OneCreator
  BundleMatchesSnapshot
  SealedUntilSnapshot
  ReportedIsThere
  ReadersPublishNothing
PROPERTIES
  Immutable
CHECK_DEADLOCK FALSE
