SPECIFICATION Spec
CONSTANTS
  r1 = r1
  r2 = r2
  c1 = c1
  c2 = c2
  c3 = c3
  Requests <- MCRequests
  Calls <- MCCalls
  Payloads <- MCPayloads
  NoRequest = NoRequest
  NoPayload = NoPayload
  Overlap = FALSE
  Faults = FALSE
  Aging = FALSE
INVARIANT CountersExact
PROPERTY FallbackPrevails
PROPERTY ImplementsContract
CHECK_DEADLOCK FALSE
