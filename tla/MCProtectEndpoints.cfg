SPECIFICATION Spec
CONSTANTS
  r1 = r1
  r2 = r2
  NoRequest = NoRequest
  Requests = {r1, r2}
  CapReasons = {"req_cap_breach", "tok_cap_breach"}
  FailModes = {"open", "closed"}
SYMMETRY RequestSymmetry
CHECK_DEADLOCK FALSE
INVARIANTS
  
  
  OneOpenPerReason
  SupersededIsResolved
PROPERTY DeletesOnlyOwn
