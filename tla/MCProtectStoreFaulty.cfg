SPECIFICATION Spec
CONSTANTS
  r1 = r1
  r2 = r2
  c1 = c1
  c2 = c2
  c3 = c3
  Requests <- MCOneRequest
  Calls <- MCCalls
  Payloads <- MCFewPayloads
  NoRequest = NoRequest
  NoPayload = NoPayload
  Overlap = TRUE
  Faults = TRUE
  Aging = TRUE
SYMMETRY MCCallSymmetry
INVARIANT NeverOverCounted
INVARIANT CountersExpire
CHECK_DEADLOCK FALSE
