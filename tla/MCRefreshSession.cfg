SPECIFICATION Spec
CONSTANTS
  j1 = j1
  j2 = j2
  j3 = j3
  j4 = j4
  c1 = c1
  c2 = c2
  c3 = c3
  NoJti = NoJti
  Jtis <- MCJtis
  Calls <- MCCalls
SYMMETRY MCSymmetry
INVARIANTS OneLiveSession TokenUsedOnce LogoutEndsLogin
PROPERTY KeepsContract
CHECK_DEADLOCK FALSE
