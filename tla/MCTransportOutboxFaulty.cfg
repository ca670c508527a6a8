SPECIFICATION Spec
CONSTANTS
  hook = hook
  test = test
  alarm = alarm
  note = note
  c1 = c1
  c2 = c2
  c3 = c3
  w1 = w1
  w2 = w2
  NoNotice = NoNotice
  Webhooks <- MCHook
  Emails <- MCMails
  FailureEmail <- MCFailureEmail
  Calls <- MCCalls
  Workers <- MCWorkers
  WebhookAttempts = 3
  EmailAttempts = 1
  Promotion = TRUE
  Faults = TRUE
  Skew = TRUE
SYMMETRY MCSymmetry
INVARIANTS ExclusiveDelivery AttemptsBounded
PROPERTIES FinalRowsStay KeepsContract
CHECK_DEADLOCK FALSE
