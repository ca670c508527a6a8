SPECIFICATION FairSpec
CONSTANTS
  hook = hook
  test = test
  alarm = alarm
  note = note
  c1 = c1
  c2 = c2
  c3 = c3
  w1 = w1
  w2 = w2
  NoNotice = NoNotice
  Webhooks <- MCHooks
  Emails <- MCAlarm
  FailureEmail <- MCFailureEmail
  Calls <- MCTwoCalls
  Workers <- MCWorkers
  WebhookAttempts = 3
  EmailAttempts = 1
  Promotion = TRUE
  Faults = FALSE
  Skew = FALSE
INVARIANT NothingStranded
PROPERTIES  DeathReported
CHECK_DEADLOCK FALSE
