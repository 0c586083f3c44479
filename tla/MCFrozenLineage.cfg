SPECIFICATION MCSpec
CONSTANTS
  r1 = r1
  r2 = r2
  m1 = m1
  m2 = m2
  s1 = s1
  s2 = s2
  o1 = o1
  o2 = o2
  Runs = {r1}
  Models = {m1, m2}
  Settings = {s1, s2}
  Options = {o1, o2}
  OneAtATime = TRUE
  Absent = Absent
SYMMETRY Symmetric
INVARIANTS
  ServedIsOneChain
  GainIsOfTheModel
  ServedWasSelected
