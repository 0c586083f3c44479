SPECIFICATION Spec
CONSTANTS
  p1 = p1
  p2 = p2
  p3 = p3
  Procs = {p1, p2}
  Absent = Absent
  Unreadable = Unreadable
  Null = Null
  Earlier = Earlier
SYMMETRY Symmetric
CHECK_DEADLOCK FALSE
PROPERTIES
  TimeIsKept
