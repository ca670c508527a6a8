SPECIFICATION Spec
CONSTANTS
  p1 = p1
  p2 = p2
  p3 = p3
  e1 = e1
  e2 = e2
  m1 = m1
  m2 = m2
  Posts = {p1, p2, p3}
  Events = {e1, e2}
  Models = {m1, m2}
  EventOf <- OneAndTwo
  Keyed = {p1, p2, p3}
  ModelOf <- EachItsModel
  Limit = 2
  Faults = TRUE
SYMMETRY RepeatSymmetry
CHECK_DEADLOCK FALSE
INVARIANTS
  WindowsMatchRows
  StoredOncePerKey
  GapsAnnouncedOnce
PROPERTY KeepsContract
