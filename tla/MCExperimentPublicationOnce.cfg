SPECIFICATION Spec
CONSTANTS
  p1 = p1
  p2 = p2
  p3 = p3
  m1 = m1
  m2 = m2
  c1 = c1
  c2 = c2
  o1 = o1
  o2 = o2
  Runs = {p1, p2}
  Models = {m1, m2}
  Contexts = {c1, c2}
  Outcomes = {o1, o2}
  Reports = 2
  HasTable = TRUE
  OneAtATime = FALSE
  Earlier = Earlier
  Absent = Absent
  Partial = Partial
SYMMETRY Symmetric
CHECK_DEADLOCK FALSE
PROPERTIES
  RecordIsKept
