SPECIFICATION MCSpec
CONSTANTS
  e1 = e1
  e2 = e2
  p1 = p1
  v1 = v1
  v2 = v2
  d1 = d1
  d2 = d2
  d3 = d3
  Events = {e1, e2}
  Runs = {p1}
  Releases <- SomeReleases
  MaxClock = 2
  MaxReplaced = 2
  Hours = {1, 2}
  Absent = Absent
  Torn = Torn
SYMMETRY Symmetric
INVARIANTS
  MissedOnlyInFlight
  SummaryIsOfOneVersion
