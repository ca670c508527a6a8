SPECIFICATION FairSpec
CONSTANTS
  NoEvent = NoEvent
  Worker = worker
  Events = {e1, e2}
  Flushers = {}
  Closers = {closer}
  MaxQueueSize = 1
  DropOldest = TRUE
INVARIANTS TypeOK EveryEventAccountedFor SentIsStored
  
CHECK_DEADLOCK FALSE
