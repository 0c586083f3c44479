SPECIFICATION BothSpec
CONSTANTS
  p1 = p1
  p2 = p2
  p3 = p3
  r1 = r1
  r2 = r2
  Procs = {p1, p2, p3}
  Runs = {r1, r2}
  Versions = {"reviewed", "changed"}
  Reviewed = "reviewed"
  Absent = Absent
  Unreadable = Unreadable
  Null = Null
  Earlier = Earlier
  Partial = Partial
SYMMETRY Symmetric
CONSTRAINT Bounded
CHECK_DEADLOCK FALSE
INVARIANTS
  DoneMeansVerified
  TimeIsOfTheDownload
  DataIsReviewed
  ReportedIsLoadable
  TimeIsOfTheContent
PROPERTIES
  RawIsKept
