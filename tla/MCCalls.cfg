SPECIFICATION MCSpec
CONSTANTS
  t1 = t1
  t2 = t2
  n1 = n1
  n2 = n2
  n3 = n3
  Worker = Worker
  None = None
  Threads <- MCThreads
  ShortOf70 <- MCShortOf70
  Requests <- MCRequests
  Workloads <- MCWorkloads
  SettingsKinds <- MCSettings
  CooldownTicks = 1
  UncappedUse = 40
  MaxCalls = 4
  MaxEdits = 1
  MaxNow = 1
  KeyIds = {k1, k2, k3}
  Owners = {o1, o2}
  NoKey = NoKey
  MaxBroken = 1
  RecentLimit = 3
  RetryCount = 2
  RetryWindow = 1
  LoopCount = 2
  LoopWindow = 1
  LoopGap = 1
  LoopConcurrency = 4
  Abs = 75
  GrowthCount = 2
  GrowthFloor = 20
  GrowthConcurrency = 4
  NoTokens = NoTokens
  Ingesters = {w1, w2}
  EventKinds <- MCEventKinds
  CounterWindow = 2
  Episode <- MCEpisode
  BlockWindow = 0
  AutoCloseAfter = 1
  MaxEvents = 3
  MaxClock = 2
  NoRow = NoRow
  Notifiers = {n1, n2, n3}
  Reported = {r1}
  TicksPerSecond = 2
  CooldownSeconds = 2
  DedupSeconds = 1
  MaxTick = 4
  NoTime = NoTime
INVARIANTS
  CallsTypeOK
  
  BudgetKept
  FallbackModeCurrent
  FailClosedHolds
  KeysBalance
  
  OneEpisode
  SignalsCounted
  AnnouncedOnce
CHECK_DEADLOCK FALSE
