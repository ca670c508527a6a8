----------------------- MODULE TransportOutboxProofs -----------------------
(***************************************************************************)
(* What holds of the transport outbox for any rows, calls and workers,     *)
(* whatever crashes or fails.  The argument: each row has at most one      *)
(* token, the right to deliver it, which moves from the call that inserted *)
(* the row to the queue, to a worker, to the scheduled registry and back;  *)
(* only the holder of the token changes the row.                           *)
(***************************************************************************)
EXTENDS TransportOutbox, TLAPS

LocalInv ==
  /\ \A c \in Calls : call[c] = "enqueue" => target[c] \in Notices
  /\ \A w \in Workers : work[w] # "idle" => job[w] \in Notices
  /\ \A w \in Workers :
       /\ work[w] \in Reporting => job[w] \in Webhooks
       /\ work[w] = "report_enqueue" => job[w] \in DOMAIN FailureEmail

Enqueuing(c, n) == call[c] = "enqueue" /\ target[c] = n
Holds(w, n) == work[w] \in Holding /\ job[w] = n
Enlists(w, n) == work[w] = "report_enqueue" /\ FailureEmail[job[w]] = n

(* Row n has no token in the hands of a call or a worker.                   *)
InHand(n) ==
  \/ \E c \in Calls : Enqueuing(c, n)
  \/ \E w \in Workers : Holds(w, n) \/ Enlists(w, n)

(* At most one token per row: in the queue, in the registry or in a hand.   *)
OneToken ==
  \A n \in Notices :
    /\ queued[n] + scheduled[n] <= 1
    /\ InHand(n) => queued[n] = 0 /\ scheduled[n] = 0
    /\ \A b, c \in Calls : Enqueuing(b, n) /\ Enqueuing(c, n) => b = c
    /\ \A c \in Calls, w \in Workers : Enqueuing(c, n) => ~Holds(w, n) /\ ~Enlists(w, n)
    /\ \A v, w \in Workers :
         /\ Holds(v, n) /\ Holds(w, n) => v = w
         /\ Enlists(v, n) /\ Enlists(w, n) => v = w
         /\ Holds(v, n) => ~Enlists(w, n)

(* What the holder of a token knows of its row.                             *)
HeldRow ==
  \A w \in Workers :
    LET n == job[w] IN
    /\ work[w] = "update" => /\ status[n] \in {"pending", "failed"}
                             /\ tried[w] = attempts[n] + 1
    /\ work[w] = "deliver" => /\ status[n] = "sending"
                              /\ tried[w] = attempts[n]
                              /\ accepted[n] < attempts[n]
    /\ work[w] = "mark_delivered" => status[n] = "sending" /\ tried[w] = attempts[n]
    /\ work[w] = "mark_failed" =>
         /\ status[n] = "sending" \/ (Faults /\ status[n] = "delivered")
         /\ tried[w] = attempts[n]
    /\ work[w] = "retry" => status[n] = "failed"
    /\ work[w] \in Reporting => status[n] = "dead"

(* A row that is not there, or done with, has no token; only a worker whose *)
(* mark_delivered raised still holds that of a delivered row.               *)
NoTokenLeft ==
  \A n \in Notices :
    /\ status[n] \in {"none"} \cup Final => queued[n] = 0 /\ scheduled[n] = 0
    /\ status[n] \in {"none", "dead"} => ~InHand(n)
    /\ status[n] = "delivered" =>
         /\ \A c \in Calls : ~Enqueuing(c, n)
         /\ \A w \in Workers : ~Enlists(w, n) /\ (Holds(w, n) => work[w] = "mark_failed")

AttemptsLeft ==
  \A n \in Notices :
    /\ accepted[n] <= attempts[n] /\ attempts[n] <= MaxAttempts(n)
    /\ status[n] \in {"none", "pending", "failed"} => attempts[n] < MaxAttempts(n)

TokenInv == OneToken /\ HeldRow /\ NoTokenLeft /\ AttemptsLeft

LEMMA ReportIsEmail ==
  ASSUME NEW n \in DOMAIN FailureEmail
  PROVE  FailureEmail[n] \in Notices
BY NoticesAssumption DEF Notices

LEMMA InsertType ==
  ASSUME TypeOK, NEW n \in Notices, Insert(n)
  PROVE  /\ status' \in [Notices -> {"none", "pending", "sending", "failed"} \cup Final]
         /\ attempts' \in [Notices -> Nat]
         /\ due' \in [Notices -> BOOLEAN]
<1>1. PICK d \in BOOLEAN : due' = [due EXCEPT ![n] = d]
  BY OutboxSwitchAssumption DEF Insert
<1>2. due' \in [Notices -> BOOLEAN]
  BY <1>1 DEF TypeOK
<1> QED BY <1>2 DEF Insert, TypeOK, Final

LEMMA InitLocal == Init => TypeOK /\ LocalInv
BY DEF Init, TypeOK, LocalInv, Notices, Final, Holding, Reporting

LEMMA CallLocal ==
  ASSUME TypeOK, LocalInv, NEW c \in Calls, CallStep(c)
  PROVE  TypeOK' /\ LocalInv'
<1> USE DEF TypeOK, LocalInv, Final, Holding, Reporting, rows, jobs, callers
<1>1. CASE CreateRow(c)
  <2>1. PICK n \in Notices : Insert(n) /\ target' = [target EXCEPT ![c] = n]
    BY <1>1 DEF CreateRow, Requested
  <2> QED BY <1>1, <2>1, InsertType DEF CreateRow
<1>2. CASE FindRow(c)
  BY <1>2 DEF FindRow, Requested
<1>3. CASE EnqueueJob(c)
  BY <1>3 DEF EnqueueJob, AddJob
<1>4. CASE AbandonCall(c)
  BY <1>4 DEF AbandonCall
<1> QED BY <1>1, <1>2, <1>3, <1>4 DEF CallStep

LEMMA WorkerLocal ==
  ASSUME TypeOK, LocalInv, NEW w \in Workers, Progress(w) \/ AbandonJob(w)
  PROVE  TypeOK' /\ LocalInv'
<1> USE DEF TypeOK, LocalInv, Final, Holding, Reporting, rows, jobs, callers, Goto
<1>1. CASE TakeJob(w)
  BY <1>1 DEF TakeJob
<1>2. CASE SelectRow(w)
  BY <1>2 DEF SelectRow
<1>3. CASE UpdateRow(w)
  BY <1>3 DEF UpdateRow
<1>4. CASE Deliver(w)
  BY <1>4 DEF Deliver
<1>5. CASE DeliveryRaises(w)
  BY <1>5 DEF DeliveryRaises
<1>6. CASE MarkDelivered(w)
  BY <1>6 DEF MarkDelivered
<1>7. CASE MarkDeliveredRaises(w)
  BY <1>7 DEF MarkDeliveredRaises
<1>8. CASE MarkFailed(w)
  <2>1. AfterFailure(w) \in {"retry", "report", "idle"}
    BY DEF AfterFailure
  <2>2. AfterFailure(w) = "report" => job[w] \in Webhooks
    BY DEF AfterFailure
  <2>3. LastAttempt(w) \in BOOLEAN
    BY DEF LastAttempt
  <2> QED BY <1>8, <2>1, <2>2, <2>3 DEF MarkFailed
<1>9. CASE ScheduleRetry(w)
  BY <1>9 DEF ScheduleRetry
<1>10. CASE Report(w)
  <2>1. FailureEmail[job[w]] \in Notices /\ Insert(FailureEmail[job[w]])
    BY <1>10, ReportIsEmail DEF Report
  <2> QED BY <1>10, <2>1, InsertType DEF Report
<1>11. CASE NoReport(w)
  BY <1>11 DEF NoReport
<1>12. CASE EnqueueReport(w)
  BY <1>12, ReportIsEmail DEF EnqueueReport, AddJob
<1>13. CASE AbandonJob(w)
  BY <1>13 DEF AbandonJob
<1> QED
  BY <1>1, <1>2, <1>3, <1>4, <1>5, <1>6, <1>7, <1>8, <1>9, <1>10, <1>11, <1>12, <1>13
  DEF Progress

LEMMA TimeLocal ==
  ASSUME TypeOK, LocalInv, NEW n \in Notices, BecomesDue(n) \/ Promote(n)
  PROVE  TypeOK' /\ LocalInv'
<1> USE DEF TypeOK, LocalInv, rows, jobs, callers, Final, Holding, Reporting
<1>1. CASE BecomesDue(n)
  <2>1. due' \in [Notices -> BOOLEAN]
    BY <1>1 DEF BecomesDue
  <2> QED BY <1>1, <2>1 DEF BecomesDue
<1>2. CASE Promote(n)
  BY <1>2 DEF Promote
<1> QED BY <1>1, <1>2

LEMMA StutterLocal ==
  ASSUME TypeOK, LocalInv, UNCHANGED vars
  PROVE  TypeOK' /\ LocalInv'
BY DEF TypeOK, LocalInv, vars, rows, jobs, callers

(* Every state is well typed, and callers and workers that are under way    *)
(* know their row.                                                          *)
THEOREM OutboxTypeCorrect == Spec => [](TypeOK /\ LocalInv)
<1>1. Init => TypeOK /\ LocalInv
  BY InitLocal
<1>2. TypeOK /\ LocalInv /\ [Next]_vars => TypeOK' /\ LocalInv'
  BY CallLocal, WorkerLocal, TimeLocal, StutterLocal DEF Next
<1> QED BY <1>1, <1>2, PTL DEF Spec

LEMMA InitToken == Init => TokenInv
BY AttemptsAssumption
DEF Init, TokenInv, OneToken, HeldRow, NoTokenLeft, AttemptsLeft, InHand, Enqueuing, Holds,
    Enlists, Holding, Reporting, Final, MaxAttempts

LEMMA CallToken ==
  ASSUME TypeOK, LocalInv, TokenInv, NEW c \in Calls, CallStep(c)
  PROVE  TokenInv'
<1> USE DEF TypeOK, LocalInv, TokenInv, rows, jobs, callers, Goto, Holding, Reporting, Final
<1>1. CASE CreateRow(c)
  <2>1. OneToken'
    BY <1>1, NoticesAssumption DEF CreateRow, Insert, Requested, OneToken, NoTokenLeft, InHand, Enqueuing, Holds, Enlists
  <2>2. HeldRow'
    BY <1>1, NoticesAssumption DEF CreateRow, Insert, Requested, HeldRow, OneToken, NoTokenLeft, AttemptsLeft, InHand, Holds, Enlists, Enqueuing
  <2>3. NoTokenLeft'
    BY <1>1, NoticesAssumption DEF CreateRow, Insert, Requested, NoTokenLeft, OneToken, HeldRow, InHand, Enqueuing, Holds, Enlists
  <2>4. AttemptsLeft'
    BY <1>1, NoticesAssumption DEF CreateRow, Insert, Requested, AttemptsLeft, HeldRow, MaxAttempts
  <2> QED BY <2>1, <2>2, <2>3, <2>4
<1>2. CASE FindRow(c)
  <2>1. OneToken'
    BY <1>2 DEF FindRow, Requested, OneToken, NoTokenLeft, InHand, Enqueuing, Holds, Enlists
  <2>2. HeldRow'
    BY <1>2 DEF FindRow, Requested, HeldRow, OneToken, NoTokenLeft, AttemptsLeft, InHand, Holds, Enlists, Enqueuing
  <2>3. NoTokenLeft'
    BY <1>2 DEF FindRow, Requested, NoTokenLeft, OneToken, HeldRow, InHand, Enqueuing, Holds, Enlists
  <2>4. AttemptsLeft'
    BY <1>2 DEF FindRow, Requested, AttemptsLeft, HeldRow, MaxAttempts
  <2> QED BY <2>1, <2>2, <2>3, <2>4
<1>3. CASE EnqueueJob(c)
  <2>5. target[c] \in Notices /\ Enqueuing(c, target[c])
    BY <1>3 DEF EnqueueJob, Enqueuing
  <2>6. \A b \in Calls, m \in Notices : Enqueuing(b, m)' <=> Enqueuing(b, m) /\ b # c
    BY <1>3 DEF EnqueueJob, Enqueuing
  <2>7. \A v \in Workers, m \in Notices :
          (Holds(v, m)' <=> Holds(v, m)) /\ (Enlists(v, m)' <=> Enlists(v, m))
    BY <1>3 DEF EnqueueJob, Holds, Enlists
  <2>8. /\ queued' = [queued EXCEPT ![target[c]] = @ + 1]
        /\ UNCHANGED <<scheduled, status, work>>
    BY <1>3 DEF EnqueueJob, AddJob
  <2>9. LET n == target[c] IN
          /\ queued[n] = 0 /\ scheduled[n] = 0
          /\ \A v \in Workers : ~Enlists(v, n) /\ ~Holds(v, n)
          /\ \A b \in Calls : Enqueuing(b, n) => b = c
    BY <2>5 DEF OneToken, InHand
  <2>10. \A m \in Notices : InHand(m)' => InHand(m) /\ m # target[c]
    BY <2>6, <2>7, <2>9 DEF InHand
  <2>11. \A m \in Notices : queued'[m] + scheduled'[m] <= 1
    BY <2>5, <2>8, <2>9 DEF OneToken
  <2>12. \A m \in Notices : InHand(m)' => queued'[m] = 0 /\ scheduled'[m] = 0
    BY <2>8, <2>10 DEF OneToken
  <2>1. OneToken'
    BY <2>6, <2>7, <2>11, <2>12 DEF OneToken
  <2>2. HeldRow'
    BY <1>3 DEF EnqueueJob, AddJob, HeldRow, OneToken, NoTokenLeft, AttemptsLeft, InHand, Holds, Enlists, Enqueuing
  <2>3. NoTokenLeft'
    BY <2>5, <2>6, <2>7, <2>8 DEF NoTokenLeft, InHand
  <2>4. AttemptsLeft'
    BY <1>3 DEF EnqueueJob, AddJob, AttemptsLeft, HeldRow, MaxAttempts
  <2> QED BY <2>1, <2>2, <2>3, <2>4
<1>4. CASE AbandonCall(c)
  <2>1. OneToken'
    BY <1>4 DEF AbandonCall, OneToken, NoTokenLeft, InHand, Enqueuing, Holds, Enlists
  <2>2. HeldRow'
    BY <1>4 DEF AbandonCall, HeldRow, OneToken, NoTokenLeft, AttemptsLeft, InHand, Holds, Enlists, Enqueuing
  <2>3. NoTokenLeft'
    BY <1>4 DEF AbandonCall, NoTokenLeft, OneToken, HeldRow, InHand, Enqueuing, Holds, Enlists
  <2>4. AttemptsLeft'
    BY <1>4 DEF AbandonCall, AttemptsLeft, HeldRow, MaxAttempts
  <2> QED BY <2>1, <2>2, <2>3, <2>4
<1> QED BY <1>1, <1>2, <1>3, <1>4 DEF CallStep

LEMMA WorkerToken ==
  ASSUME TypeOK, LocalInv, TokenInv, NEW w \in Workers, Progress(w) \/ AbandonJob(w)
  PROVE  TokenInv'
<1> USE DEF TypeOK, LocalInv, TokenInv, rows, jobs, callers, Goto, Holding, Reporting, Final
<1>1. CASE TakeJob(w)
  <2>5. PICK n \in Notices : /\ queued[n] > 0
                             /\ queued' = [queued EXCEPT ![n] = @ - 1]
                             /\ job' = [job EXCEPT ![w] = n]
    BY <1>1 DEF TakeJob
  <2>6. \A v \in Workers, m \in Notices :
          /\ Holds(v, m)' <=> Holds(v, m) \/ (v = w /\ m = n)
          /\ Enlists(v, m)' <=> Enlists(v, m)
    BY <1>1, <2>5 DEF TakeJob, Holds, Enlists
  <2>7. \A c \in Calls, m \in Notices : Enqueuing(c, m)' <=> Enqueuing(c, m)
    BY <1>1 DEF TakeJob, Enqueuing
  <2>8. UNCHANGED scheduled
    BY <1>1 DEF TakeJob
  <2>14. ~InHand(n)
    BY <2>5 DEF OneToken
  <2>15. queued[n] = 1 /\ scheduled[n] = 0
    <3>1. queued[n] + scheduled[n] <= 1
      BY DEF OneToken
    <3>2. queued[n] \in Nat /\ scheduled[n] \in Nat
      OBVIOUS
    <3> QED BY ONLY <2>5, <3>1, <3>2
  <2>9. queued[n] = 1 /\ scheduled[n] = 0 /\ ~InHand(n)
    BY <2>14, <2>15
  <2>10. \A m \in Notices : InHand(m)' => InHand(m) \/ m = n
    BY <2>6, <2>7 DEF InHand
  <2>11. \A m \in Notices : queued'[m] + scheduled'[m] <= 1
    BY <2>5, <2>8, <2>9 DEF OneToken
  <2>12. \A m \in Notices : InHand(m)' => queued'[m] = 0 /\ scheduled'[m] = 0
    BY <2>5, <2>8, <2>9, <2>10 DEF OneToken
  <2>13. /\ \A c \in Calls : ~Enqueuing(c, n)
         /\ \A v \in Workers : ~Holds(v, n) /\ ~Enlists(v, n)
    BY <2>9 DEF InHand
  <2>1. OneToken'
    BY <2>6, <2>7, <2>11, <2>12, <2>13 DEF OneToken
  <2>2. HeldRow'
    BY <1>1 DEF TakeJob, HeldRow, OneToken, NoTokenLeft, AttemptsLeft, InHand, Holds, Enlists, Enqueuing
  <2>3. NoTokenLeft'
    BY <1>1 DEF TakeJob, NoTokenLeft, OneToken, HeldRow, InHand, Enqueuing, Holds, Enlists
  <2>4. AttemptsLeft'
    BY <1>1 DEF TakeJob, AttemptsLeft, HeldRow, MaxAttempts
  <2> QED BY <2>1, <2>2, <2>3, <2>4
<1>2. CASE SelectRow(w)
  <2>5. \A v \in Workers, m \in Notices :
          (Holds(v, m)' => Holds(v, m)) /\ (Enlists(v, m)' => Enlists(v, m))
    BY <1>2 DEF SelectRow, Holds, Enlists
  <2>6. \A c \in Calls, m \in Notices : Enqueuing(c, m)' <=> Enqueuing(c, m)
    BY <1>2 DEF SelectRow, Enqueuing
  <2>7. UNCHANGED <<queued, scheduled>>
    BY <1>2 DEF SelectRow
  <2>1. OneToken'
    BY <2>5, <2>6, <2>7 DEF OneToken, InHand
  <2>2. HeldRow'
    BY <1>2 DEF SelectRow, HeldRow, OneToken, NoTokenLeft, AttemptsLeft, InHand, Holds, Enlists, Enqueuing
  <2>3. NoTokenLeft'
    BY <1>2 DEF SelectRow, NoTokenLeft, OneToken, HeldRow, InHand, Enqueuing, Holds, Enlists
  <2>4. AttemptsLeft'
    BY <1>2 DEF SelectRow, AttemptsLeft, HeldRow, MaxAttempts
  <2> QED BY <2>1, <2>2, <2>3, <2>4
<1>3. CASE UpdateRow(w)
  <2>1. OneToken'
    BY <1>3 DEF UpdateRow, OneToken, NoTokenLeft, InHand, Enqueuing, Holds, Enlists
  <2>2. HeldRow'
    BY <1>3 DEF UpdateRow, HeldRow, OneToken, NoTokenLeft, AttemptsLeft, InHand, Holds, Enlists, Enqueuing
  <2>3. NoTokenLeft'
    BY <1>3 DEF UpdateRow, NoTokenLeft, OneToken, HeldRow, InHand, Enqueuing, Holds, Enlists
  <2>5. job[w] \in Notices /\ attempts[job[w]] < MaxAttempts(job[w])
    BY <1>3 DEF UpdateRow, HeldRow, AttemptsLeft
  <2>6. \A m \in Notices : MaxAttempts(m) \in Nat
    BY AttemptsAssumption DEF MaxAttempts
  <2>7. /\ tried[w] = attempts[job[w]] + 1
        /\ status' = [status EXCEPT ![job[w]] = "sending"]
        /\ attempts' = [attempts EXCEPT ![job[w]] = tried[w]]
        /\ UNCHANGED accepted
    BY <1>3 DEF UpdateRow, HeldRow
  <2>8. \A m \in Notices : MaxAttempts(m)' = MaxAttempts(m)
    BY DEF MaxAttempts
  <2>4. AttemptsLeft'
    BY <2>5, <2>6, <2>7, <2>8 DEF AttemptsLeft
  <2> QED BY <2>1, <2>2, <2>3, <2>4
<1>4. CASE Deliver(w)
  <2>1. OneToken'
    BY <1>4 DEF Deliver, OneToken, NoTokenLeft, InHand, Enqueuing, Holds, Enlists
  <2>2. HeldRow'
    BY <1>4 DEF Deliver, HeldRow, OneToken, NoTokenLeft, AttemptsLeft, InHand, Holds, Enlists, Enqueuing
  <2>3. NoTokenLeft'
    BY <1>4 DEF Deliver, NoTokenLeft, OneToken, HeldRow, InHand, Enqueuing, Holds, Enlists
  <2>4. AttemptsLeft'
    BY <1>4 DEF Deliver, AttemptsLeft, HeldRow, MaxAttempts
  <2> QED BY <2>1, <2>2, <2>3, <2>4
<1>5. CASE DeliveryRaises(w)
  <2>1. OneToken'
    BY <1>5 DEF DeliveryRaises, OneToken, NoTokenLeft, InHand, Enqueuing, Holds, Enlists
  <2>2. HeldRow'
    BY <1>5 DEF DeliveryRaises, HeldRow, OneToken, NoTokenLeft, AttemptsLeft, InHand, Holds, Enlists, Enqueuing
  <2>3. NoTokenLeft'
    BY <1>5 DEF DeliveryRaises, NoTokenLeft, OneToken, HeldRow, InHand, Enqueuing, Holds, Enlists
  <2>4. AttemptsLeft'
    BY <1>5 DEF DeliveryRaises, AttemptsLeft, HeldRow, MaxAttempts
  <2> QED BY <2>1, <2>2, <2>3, <2>4
<1>6. CASE MarkDelivered(w)
  <2>1. OneToken'
    BY <1>6 DEF MarkDelivered, OneToken, NoTokenLeft, InHand, Enqueuing, Holds, Enlists
  <2>2. HeldRow'
    BY <1>6 DEF MarkDelivered, HeldRow, OneToken, NoTokenLeft, AttemptsLeft, InHand, Holds, Enlists, Enqueuing
  <2>3. NoTokenLeft'
    BY <1>6 DEF MarkDelivered, NoTokenLeft, OneToken, HeldRow, InHand, Enqueuing, Holds, Enlists
  <2>4. AttemptsLeft'
    BY <1>6 DEF MarkDelivered, AttemptsLeft, HeldRow, MaxAttempts
  <2> QED BY <2>1, <2>2, <2>3, <2>4
<1>7. CASE MarkDeliveredRaises(w)
  <2>1. OneToken'
    BY <1>7 DEF MarkDeliveredRaises, OneToken, NoTokenLeft, InHand, Enqueuing, Holds, Enlists
  <2>2. HeldRow'
    BY <1>7 DEF MarkDeliveredRaises, HeldRow, OneToken, NoTokenLeft, AttemptsLeft, InHand, Holds, Enlists, Enqueuing
  <2>3. NoTokenLeft'
    BY <1>7 DEF MarkDeliveredRaises, NoTokenLeft, OneToken, HeldRow, InHand, Enqueuing, Holds, Enlists
  <2>4. AttemptsLeft'
    BY <1>7 DEF MarkDeliveredRaises, AttemptsLeft, HeldRow, MaxAttempts
  <2> QED BY <2>1, <2>2, <2>3, <2>4
<1>8. CASE MarkFailed(w)
  <2>1. OneToken'
    BY <1>8 DEF MarkFailed, AfterFailure, LastAttempt, MaxAttempts, OneToken, NoTokenLeft, InHand, Enqueuing, Holds, Enlists
  <2>2. HeldRow'
    BY <1>8 DEF MarkFailed, AfterFailure, LastAttempt, MaxAttempts, HeldRow, OneToken, NoTokenLeft, AttemptsLeft, InHand, Holds, Enlists, Enqueuing
  <2>5. /\ work[w] = "mark_failed" /\ job[w] \in Notices
        /\ UNCHANGED <<queued, scheduled, attempts, accepted, call, target, job>>
    BY <1>8 DEF MarkFailed
  <2>6. tried[w] = attempts[job[w]] /\ status[job[w]] \in {"sending", "delivered"}
    BY <2>5 DEF HeldRow
  <2>7. \/ /\ LastAttempt(w)
           /\ work'[w] \in {"report", "idle"} /\ status' = [status EXCEPT ![job[w]] = "dead"]
        \/ /\ ~LastAttempt(w)
           /\ work'[w] = "retry" /\ status' = [status EXCEPT ![job[w]] = "failed"]
    BY <1>8 DEF MarkFailed, AfterFailure
  <2>8. \A v \in Workers, m \in Notices :
          /\ Holds(v, m)' <=> Holds(v, m) /\ (v = w => ~LastAttempt(w))
          /\ Enlists(v, m)' <=> Enlists(v, m)
          /\ v # w => work'[v] = work[v]
    BY <1>8, <2>5, <2>7 DEF MarkFailed, Holds, Enlists
  <2>9. Holds(w, job[w])
    BY <2>5 DEF Holds
  <2>10. \A c \in Calls, m \in Notices : Enqueuing(c, m)' <=> Enqueuing(c, m)
    BY <2>5 DEF Enqueuing
  <2>13. \A m \in Notices : InHand(m)' => InHand(m)
    BY <2>8, <2>10 DEF InHand
  <2>14. LET n == job[w] IN
           /\ queued[n] = 0 /\ scheduled[n] = 0
           /\ \A c \in Calls : ~Enqueuing(c, n)
           /\ \A v \in Workers : ~Enlists(v, n) /\ (Holds(v, n) => v = w)
    BY <2>5, <2>9 DEF OneToken, InHand
  <2>15. LastAttempt(w) => ~InHand(job[w])'
    BY <2>5, <2>8, <2>10, <2>14 DEF InHand
  <2>16. ASSUME NEW m \in Notices, m # job[w]
         PROVE  status'[m] = status[m]
    BY <2>7, <2>16
  <2>18. ASSUME NEW m \in Notices, m # job[w]
         PROVE  \A v \in Workers : Holds(v, m) => v # w
    BY <2>18 DEF Holds
  <2>17. status'[job[w]] = IF LastAttempt(w) THEN "dead" ELSE "failed"
    BY <2>5, <2>7
  <2>3. NoTokenLeft'
    BY <2>5, <2>8, <2>10, <2>13, <2>14, <2>15, <2>16, <2>17, <2>18 DEF NoTokenLeft
  <2>11. ~LastAttempt(w) => attempts[job[w]] < MaxAttempts(job[w])
    <3>1. MaxAttempts(job[w]) \in Nat
      BY AttemptsAssumption DEF MaxAttempts
    <3> QED BY <2>5, <2>6, <3>1 DEF LastAttempt
  <2>12. \A m \in Notices : MaxAttempts(m)' = MaxAttempts(m)
    BY DEF MaxAttempts
  <2>4. AttemptsLeft'
    BY <2>5, <2>7, <2>11, <2>12 DEF AttemptsLeft
  <2> QED BY <2>1, <2>2, <2>3, <2>4
<1>9. CASE ScheduleRetry(w)
  <2>5. /\ work[w] = "retry" /\ job[w] \in Notices /\ Holds(w, job[w])
        /\ status[job[w]] = "failed"
    BY <1>9 DEF ScheduleRetry, Holds, HeldRow
  <2>6. \A v \in Workers, m \in Notices :
          /\ Holds(v, m)' <=> Holds(v, m) /\ v # w
          /\ Enlists(v, m)' <=> Enlists(v, m)
          /\ v # w => work'[v] = work[v]
    BY <1>9, <2>5 DEF ScheduleRetry, Holds, Enlists
  <2>7. \A c \in Calls, m \in Notices : Enqueuing(c, m)' <=> Enqueuing(c, m)
    BY <1>9 DEF ScheduleRetry, Enqueuing
  <2>8. /\ scheduled' = [scheduled EXCEPT ![job[w]] = @ + 1]
        /\ UNCHANGED <<queued, status>>
    BY <1>9 DEF ScheduleRetry
  <2>9. LET n == job[w] IN
          /\ queued[n] = 0 /\ scheduled[n] = 0
          /\ \A c \in Calls : ~Enqueuing(c, n)
          /\ \A v \in Workers : ~Enlists(v, n) /\ (Holds(v, n) => v = w)
    BY <2>5 DEF OneToken, InHand
  <2>10. \A m \in Notices : InHand(m)' => InHand(m) /\ m # job[w]
    BY <2>6, <2>7, <2>9 DEF InHand
  <2>11. \A m \in Notices : queued'[m] + scheduled'[m] <= 1
    BY <2>5, <2>8, <2>9 DEF OneToken
  <2>12. \A m \in Notices : InHand(m)' => queued'[m] = 0 /\ scheduled'[m] = 0
    BY <2>8, <2>10 DEF OneToken
  <2>1. OneToken'
    BY <2>6, <2>7, <2>11, <2>12 DEF OneToken
  <2>2. HeldRow'
    BY <1>9 DEF ScheduleRetry, HeldRow, OneToken, NoTokenLeft, AttemptsLeft, InHand, Holds, Enlists, Enqueuing
  <2>3. NoTokenLeft'
    BY <2>5, <2>6, <2>7, <2>8 DEF NoTokenLeft, InHand
  <2>4. AttemptsLeft'
    BY <1>9 DEF ScheduleRetry, AttemptsLeft, HeldRow, MaxAttempts
  <2> QED BY <2>1, <2>2, <2>3, <2>4
<1>10. CASE Report(w)
  <2>1. OneToken'
    BY <1>10, ReportIsEmail, NoticesAssumption DEF Report, Insert, OneToken, NoTokenLeft, InHand, Enqueuing, Holds, Enlists
  <2>2. HeldRow'
    BY <1>10, ReportIsEmail, NoticesAssumption DEF Report, Insert, HeldRow, OneToken, NoTokenLeft, AttemptsLeft, InHand, Holds, Enlists, Enqueuing
  <2>3. NoTokenLeft'
    BY <1>10, ReportIsEmail, NoticesAssumption DEF Report, Insert, NoTokenLeft, OneToken, HeldRow, InHand, Enqueuing, Holds, Enlists
  <2>4. AttemptsLeft'
    BY <1>10, ReportIsEmail, NoticesAssumption DEF Report, Insert, AttemptsLeft, HeldRow, MaxAttempts
  <2> QED BY <2>1, <2>2, <2>3, <2>4
<1>11. CASE NoReport(w)
  <2>1. OneToken'
    BY <1>11 DEF NoReport, OneToken, NoTokenLeft, InHand, Enqueuing, Holds, Enlists
  <2>2. HeldRow'
    BY <1>11 DEF NoReport, HeldRow, OneToken, NoTokenLeft, AttemptsLeft, InHand, Holds, Enlists, Enqueuing
  <2>3. NoTokenLeft'
    BY <1>11 DEF NoReport, NoTokenLeft, OneToken, HeldRow, InHand, Enqueuing, Holds, Enlists
  <2>4. AttemptsLeft'
    BY <1>11 DEF NoReport, AttemptsLeft, HeldRow, MaxAttempts
  <2> QED BY <2>1, <2>2, <2>3, <2>4
<1>12. CASE EnqueueReport(w)
  <2>5. /\ FailureEmail[job[w]] \in Notices
        /\ Enlists(w, FailureEmail[job[w]])
    BY <1>12, ReportIsEmail DEF EnqueueReport, Enlists
  <2>6. \A v \in Workers, m \in Notices :
          /\ Holds(v, m)' <=> Holds(v, m)
          /\ Enlists(v, m)' <=> Enlists(v, m) /\ v # w
          /\ v # w => work'[v] = work[v]
          /\ ~Holds(w, m)
    BY <1>12 DEF EnqueueReport, Holds, Enlists
  <2>7. \A c \in Calls, m \in Notices : Enqueuing(c, m)' <=> Enqueuing(c, m)
    BY <1>12 DEF EnqueueReport, Enqueuing
  <2>8. /\ queued' = [queued EXCEPT ![FailureEmail[job[w]]] = @ + 1]
        /\ UNCHANGED <<scheduled, status>>
    BY <1>12 DEF EnqueueReport, AddJob
  <2>9. LET n == FailureEmail[job[w]] IN
          /\ queued[n] = 0 /\ scheduled[n] = 0
          /\ \A c \in Calls : ~Enqueuing(c, n)
          /\ \A v \in Workers : ~Holds(v, n) /\ (Enlists(v, n) => v = w)
    BY <2>5 DEF OneToken, InHand
  <2>10. \A m \in Notices : InHand(m)' => InHand(m) /\ m # FailureEmail[job[w]]
    BY <2>6, <2>7, <2>9 DEF InHand
  <2>11. \A m \in Notices : queued'[m] + scheduled'[m] <= 1
    BY <2>5, <2>8, <2>9 DEF OneToken
  <2>12. \A m \in Notices : InHand(m)' => queued'[m] = 0 /\ scheduled'[m] = 0
    BY <2>8, <2>10 DEF OneToken
  <2>1. OneToken'
    BY <2>6, <2>7, <2>11, <2>12 DEF OneToken
  <2>2. HeldRow'
    BY <1>12, ReportIsEmail DEF EnqueueReport, AddJob, HeldRow, OneToken, NoTokenLeft, AttemptsLeft, InHand, Holds, Enlists, Enqueuing
  <2>3. NoTokenLeft'
    BY <2>5, <2>6, <2>7, <2>8 DEF NoTokenLeft, InHand
  <2>4. AttemptsLeft'
    BY <1>12, ReportIsEmail DEF EnqueueReport, AddJob, AttemptsLeft, HeldRow, MaxAttempts
  <2> QED BY <2>1, <2>2, <2>3, <2>4
<1>13. CASE AbandonJob(w)
  <2>1. OneToken'
    BY <1>13 DEF AbandonJob, OneToken, NoTokenLeft, InHand, Enqueuing, Holds, Enlists
  <2>2. HeldRow'
    BY <1>13 DEF AbandonJob, HeldRow, OneToken, NoTokenLeft, AttemptsLeft, InHand, Holds, Enlists, Enqueuing
  <2>3. NoTokenLeft'
    BY <1>13 DEF AbandonJob, NoTokenLeft, OneToken, HeldRow, InHand, Enqueuing, Holds, Enlists
  <2>4. AttemptsLeft'
    BY <1>13 DEF AbandonJob, AttemptsLeft, HeldRow, MaxAttempts
  <2> QED BY <2>1, <2>2, <2>3, <2>4
<1> QED BY <1>1, <1>2, <1>3, <1>4, <1>5, <1>6, <1>7, <1>8, <1>9, <1>10, <1>11, <1>12, <1>13 DEF Progress

LEMMA TimeToken ==
  ASSUME TypeOK, LocalInv, TokenInv, NEW n \in Notices, BecomesDue(n) \/ Promote(n)
  PROVE  TokenInv'
<1> USE DEF TypeOK, LocalInv, TokenInv, rows, jobs, callers, Goto, Holding, Reporting, Final
<1>1. CASE BecomesDue(n)
  <2>1. OneToken'
    BY <1>1 DEF BecomesDue, OneToken, NoTokenLeft, InHand, Enqueuing, Holds, Enlists
  <2>2. HeldRow'
    BY <1>1 DEF BecomesDue, HeldRow, OneToken, NoTokenLeft, AttemptsLeft, InHand, Holds, Enlists, Enqueuing
  <2>3. NoTokenLeft'
    BY <1>1 DEF BecomesDue, NoTokenLeft, OneToken, HeldRow, InHand, Enqueuing, Holds, Enlists
  <2>4. AttemptsLeft'
    BY <1>1 DEF BecomesDue, AttemptsLeft, HeldRow, MaxAttempts
  <2> QED BY <2>1, <2>2, <2>3, <2>4
<1>2. CASE Promote(n)
  <2>1. OneToken'
    BY <1>2 DEF Promote, OneToken, NoTokenLeft, InHand, Enqueuing, Holds, Enlists
  <2>2. HeldRow'
    BY <1>2 DEF Promote, HeldRow, OneToken, NoTokenLeft, AttemptsLeft, InHand, Holds, Enlists, Enqueuing
  <2>3. NoTokenLeft'
    BY <1>2 DEF Promote, NoTokenLeft, OneToken, HeldRow, InHand, Enqueuing, Holds, Enlists
  <2>4. AttemptsLeft'
    BY <1>2 DEF Promote, AttemptsLeft, HeldRow, MaxAttempts
  <2> QED BY <2>1, <2>2, <2>3, <2>4
<1> QED BY <1>1, <1>2

LEMMA StutterToken ==
  ASSUME TypeOK, LocalInv, TokenInv, UNCHANGED vars
  PROVE  TokenInv'
BY DEF TokenInv, OneToken, HeldRow, NoTokenLeft, AttemptsLeft, InHand, Enqueuing, Holds, Enlists,
       vars, rows, jobs, callers, MaxAttempts

(* A row has one token, and only its holder touches the row.                *)
THEOREM TokenInvariant == Spec => [](TypeOK /\ LocalInv /\ TokenInv)
<1>1. Init => TokenInv
  BY InitToken
<1>2. TypeOK /\ LocalInv /\ TokenInv /\ [Next]_vars => TokenInv'
  BY CallToken, WorkerToken, TimeToken, StutterToken DEF Next
<1> QED BY <1>1, <1>2, OutboxTypeCorrect, PTL DEF Spec

(* No two workers are past the unlocked SELECT of claim_for_send for the    *)
(* same row, for any number of workers and whatever crashes.                *)
THEOREM ExclusiveDeliveryHolds == Spec => []ExclusiveDelivery
<1>1. TypeOK /\ LocalInv /\ TokenInv => ExclusiveDelivery
  BY DEF TokenInv, OneToken, Holds, Holding, Sending, ExclusiveDelivery, LocalInv
<1> QED BY <1>1, TokenInvariant, PTL

(* attempts never passes max_attempts and bounds what the receiver is sent. *)
THEOREM AttemptsBoundedHolds == Spec => []AttemptsBounded
<1>1. TokenInv => AttemptsBounded
  BY DEF TokenInv, AttemptsLeft, AttemptsBounded
<1> QED BY <1>1, TokenInvariant, PTL

(* A settled row is never taken up again.                                   *)
THEOREM FinalRowsStayHolds == Spec => FinalRowsStay
<1> DEFINE Stays == \A n \in Notices :
                      status[n] = "dead" \/ (status[n] = "delivered" /\ ~Faults) => status'[n] = status[n]
<1>1. TypeOK /\ LocalInv /\ TokenInv /\ [Next]_vars => [Stays]_vars
  <2> SUFFICES ASSUME TypeOK, LocalInv, TokenInv, Next PROVE Stays
    OBVIOUS
  <2> USE DEF TypeOK, LocalInv, TokenInv, HeldRow, rows, Holding, Reporting
  <2>1. CASE \E c \in Calls : CallStep(c)
    BY <2>1 DEF CallStep, CreateRow, FindRow, EnqueueJob, AbandonCall, Insert, Requested
  <2>2. ASSUME NEW w \in Workers, Progress(w) \/ AbandonJob(w) PROVE Stays
    <3>1. CASE UNCHANGED status
      BY <3>1
    <3>2. CASE UpdateRow(w)
      BY <3>2 DEF UpdateRow
    <3>3. CASE MarkDelivered(w) \/ MarkDeliveredRaises(w)
      BY <3>3 DEF MarkDelivered, MarkDeliveredRaises
    <3>4. CASE MarkFailed(w)
      BY <3>4 DEF MarkFailed
    <3>5. CASE Report(w)
      BY <3>5, ReportIsEmail DEF Report, Insert
    <3> QED
      BY <2>2, <3>1, <3>2, <3>3, <3>4, <3>5
      DEF Progress, TakeJob, SelectRow, Deliver, DeliveryRaises, ScheduleRetry, NoReport,
          EnqueueReport, AbandonJob
  <2>3. CASE \E n \in Notices : BecomesDue(n) \/ Promote(n)
    BY <2>3 DEF BecomesDue, Promote
  <2> QED BY <2>1, <2>2, <2>3 DEF Next
<1> QED BY <1>1, TokenInvariant, PTL DEF Spec, FinalRowsStay

-----------------------------------------------------------------------------
(* Nothing is stranded.                                                     *)

Unsettled == {"pending", "sending", "failed"}

(* Without failures and with clocks that agree, a token that is not being   *)
(* acted on belongs to a row the SELECT of claim_for_send finds: whoever    *)
(* takes the job does not drop it.                                          *)
ReadyInv ==
  \A n \in Notices :
    /\ status[n] = "pending" => due[n]
    /\ queued[n] > 0 => due[n] /\ status[n] \in {"pending", "failed"}
    /\ scheduled[n] > 0 => status[n] = "failed"
    /\ \A c \in Calls : Enqueuing(c, n) => status[n] = "pending"
    /\ \A w \in Workers :
         /\ Enlists(w, n) => status[n] = "pending"
         /\ work[w] = "claim" /\ job[w] = n => due[n] /\ status[n] \in {"pending", "failed"}

Reachable == \A n \in Notices : status[n] \in Unsettled => HasJob(n)

(* The steps of a caller keep it.                                           *)
LEMMA CallReady ==
  ASSUME ~Faults, ~Skew, TypeOK, LocalInv, TokenInv, ReadyInv, NEW c \in Calls, CallStep(c)
  PROVE  ReadyInv'
<1> USE DEF TypeOK, LocalInv, rows, jobs, callers
<1>1. CASE CreateRow(c)
  BY <1>1 DEF CreateRow, Insert, Requested, ReadyInv, TokenInv, NoTokenLeft, InHand, Enqueuing, Holds, Enlists, Holding
<1>2. CASE FindRow(c)
  BY <1>2 DEF FindRow, ReadyInv, Enqueuing, Holds, Enlists
<1>3. CASE EnqueueJob(c)
  BY <1>3 DEF EnqueueJob, AddJob, ReadyInv, Enqueuing, Holds, Enlists
<1> QED BY <1>1, <1>2, <1>3 DEF CallStep, AbandonCall

(* So do the clock and the promotion of a due retry.                        *)
LEMMA TimeReady ==
  ASSUME ~Faults, ~Skew, TypeOK, LocalInv, TokenInv, ReadyInv,
         NEW n \in Notices, BecomesDue(n) \/ Promote(n)
  PROVE  ReadyInv'
<1> USE DEF TypeOK, LocalInv, rows, jobs, callers
<1>1. CASE BecomesDue(n)
  BY <1>1 DEF BecomesDue, ReadyInv, Enqueuing, Holds, Enlists
<1>2. CASE Promote(n)
  BY <1>2 DEF Promote, ReadyInv, Enqueuing, Holds, Enlists
<1> QED BY <1>1, <1>2

(* A worker that writes to a row holds its token, so nobody else is about  *)
(* to use the row.                                                         *)
LEMMA WorkerReady ==
  ASSUME ~Faults, ~Skew, TypeOK, LocalInv, TokenInv, ReadyInv,
         NEW w \in Workers, Progress(w)
  PROVE  ReadyInv'
<1> USE DEF TypeOK, LocalInv, rows, jobs, callers, Goto
<1>1. CASE TakeJob(w)
  BY <1>1 DEF TakeJob, ReadyInv, Enqueuing, Enlists
<1>2. CASE SelectRow(w)
  BY <1>2 DEF SelectRow, ReadyInv, Enqueuing, Enlists
<1>3. CASE UpdateRow(w) \/ MarkDelivered(w) \/ MarkFailed(w)
  <2>1. /\ job[w] \in Notices /\ Holds(w, job[w])
        /\ \A n \in Notices : n # job[w] => status'[n] = status[n] /\ due'[n] = due[n]
        /\ status'[job[w]] # "pending"
        /\ work'[w] \notin {"claim", "report_enqueue"}
        /\ \A v \in Workers : v # w => work'[v] = work[v]
        /\ UNCHANGED <<queued, scheduled, call, target, job>>
    BY <1>3 DEF UpdateRow, MarkDelivered, MarkFailed, AfterFailure, Holds, Holding
  <2>2. LET n == job[w] IN
          /\ queued[n] = 0 /\ scheduled[n] = 0
          /\ \A c \in Calls : ~Enqueuing(c, n)
          /\ \A v \in Workers : ~Enlists(v, n) /\ (Holds(v, n) => v = w)
    BY <2>1 DEF TokenInv, OneToken, InHand
  <2>3. \A v \in Workers, n \in Notices : work[v] = "claim" /\ job[v] = n => Holds(v, n)
    BY DEF Holds, Holding
  <2> QED BY <2>1, <2>2, <2>3 DEF ReadyInv, Enqueuing, Enlists
<1>4. CASE Deliver(w) \/ DeliveryRaises(w)
  BY <1>4 DEF Deliver, DeliveryRaises, ReadyInv, Enqueuing, Enlists
<1>5. CASE ScheduleRetry(w)
  BY <1>5 DEF ScheduleRetry, ReadyInv, Enqueuing, Enlists, TokenInv, HeldRow
<1>6. CASE Report(w)
  <2>1. FailureEmail[job[w]] \in Notices
    BY <1>6, ReportIsEmail DEF Report
  <2> QED BY <1>6, <2>1
          DEF Report, Insert, ReadyInv, TokenInv, NoTokenLeft, InHand, Enqueuing, Holds, Enlists, Holding
<1>7. CASE NoReport(w)
  BY <1>7 DEF NoReport, ReadyInv, Enqueuing, Enlists
<1>8. CASE EnqueueReport(w)
  BY <1>8, ReportIsEmail DEF EnqueueReport, AddJob, ReadyInv, Enqueuing, Enlists
<1> QED BY <1>1, <1>2, <1>3, <1>4, <1>5, <1>6, <1>7, <1>8 DEF Progress, MarkDeliveredRaises

(* No step drops a token of a row that is to be delivered.                  *)
LEMMA CallReaches ==
  ASSUME ~Faults, TypeOK, LocalInv, Reachable, NEW c \in Calls, CallStep(c)
  PROVE  Reachable'
<1> USE DEF TypeOK, LocalInv, rows, jobs, callers, Reachable, Unsettled, HasJob
<1>1. CASE CreateRow(c)
  BY <1>1 DEF CreateRow, Insert, Requested
<1>2. CASE FindRow(c)
  BY <1>2 DEF FindRow
<1>3. CASE EnqueueJob(c)
  BY <1>3 DEF EnqueueJob, AddJob
<1> QED BY <1>1, <1>2, <1>3 DEF CallStep, AbandonCall

LEMMA WorkerReaches ==
  ASSUME ~Faults, TypeOK, LocalInv, TokenInv, ReadyInv, Reachable, NEW w \in Workers, Progress(w)
  PROVE  Reachable'
<1> USE DEF TypeOK, LocalInv, rows, jobs, callers, Goto, Reachable, Unsettled, HasJob, Holding
<1>1. CASE TakeJob(w)
  BY <1>1 DEF TakeJob
<1>2. CASE SelectRow(w)
  BY <1>2 DEF SelectRow, ReadyInv
<1>3. CASE UpdateRow(w)
  BY <1>3 DEF UpdateRow
<1>4. CASE Deliver(w) \/ DeliveryRaises(w)
  BY <1>4 DEF Deliver, DeliveryRaises
<1>5. CASE MarkDelivered(w)
  BY <1>5 DEF MarkDelivered
<1>6. CASE MarkFailed(w)
  BY <1>6 DEF MarkFailed, AfterFailure
<1>7. CASE ScheduleRetry(w)
  BY <1>7 DEF ScheduleRetry
<1>8. CASE Report(w)
  BY <1>8, ReportIsEmail DEF Report, Insert
<1>9. CASE NoReport(w)
  BY <1>9 DEF NoReport
<1>10. CASE EnqueueReport(w)
  BY <1>10, ReportIsEmail DEF EnqueueReport, AddJob
<1> QED BY <1>1, <1>2, <1>3, <1>4, <1>5, <1>6, <1>7, <1>8, <1>9, <1>10
        DEF Progress, MarkDeliveredRaises

LEMMA TimeReaches ==
  ASSUME TypeOK, Reachable, NEW n \in Notices, BecomesDue(n) \/ Promote(n)
  PROVE  Reachable'
BY DEF BecomesDue, Promote, TypeOK, Reachable, Unsettled, HasJob, rows, jobs, callers

(* Nothing polls the table, and still every row that is to be delivered has  *)
(* a job somewhere, for any number of rows, callers and workers, as long as  *)
(* no process dies, no command fails and the clocks agree.                   *)
THEOREM NothingStrandedHolds == Spec => []NothingStranded
<1>1. CASE Faults \/ Skew
  <2>1. NothingStranded
    BY <1>1 DEF NothingStranded
  <2> QED BY <2>1, PTL
<1>2. CASE ~Faults /\ ~Skew
  <2> DEFINE Inv == ReadyInv /\ Reachable
  <2>1. Init => Inv
    BY DEF Init, ReadyInv, Reachable, Unsettled, Enqueuing, Enlists
  <2>2. TypeOK /\ LocalInv /\ TokenInv /\ Inv /\ [Next]_vars => Inv'
    <3> SUFFICES ASSUME TypeOK, LocalInv, TokenInv, ReadyInv, Reachable, [Next]_vars PROVE Inv'
      OBVIOUS
    <3>1. CASE \E c \in Calls : CallStep(c)
      BY <1>2, <3>1, CallReady, CallReaches
    <3>2. CASE \E w \in Workers : Progress(w) \/ AbandonJob(w)
      BY <1>2, <3>2, WorkerReady, WorkerReaches DEF AbandonJob
    <3>3. CASE \E n \in Notices : BecomesDue(n) \/ Promote(n)
      BY <1>2, <3>3, TimeReady, TimeReaches
    <3>4. CASE UNCHANGED vars
      BY <3>4 DEF vars, rows, jobs, callers, ReadyInv, Reachable, HasJob, Enqueuing, Enlists
    <3> QED BY <3>1, <3>2, <3>3, <3>4 DEF Next
  <2>3. Inv => NothingStranded
    BY DEF Reachable, Unsettled, NothingStranded
  <2> QED BY <2>1, <2>2, <2>3, TokenInvariant, PTL DEF Spec
<1> QED BY <1>1, <1>2

-----------------------------------------------------------------------------
(* The contract of the outbox.                                              *)

(* A row that is being sent, or was, has an attempt to its name.            *)
AttemptMade == \A n \in Notices : status[n] \in {"sending", "delivered"} => attempts[n] > 0

OutboxInv == TypeOK /\ LocalInv /\ TokenInv /\ AttemptMade

LEMMA OutboxInvariant == Spec => []OutboxInv
<1>1. Init => AttemptMade
  BY DEF Init, AttemptMade
<1>2. ASSUME TypeOK, LocalInv, TokenInv, AttemptMade, [Next]_vars PROVE AttemptMade'
  <2> USE <1>2 DEF TypeOK, LocalInv, AttemptMade, rows, Holding
  <2>1. ASSUME NEW c \in Calls, CallStep(c) PROVE AttemptMade'
    BY <2>1 DEF CallStep, CreateRow, FindRow, EnqueueJob, AbandonCall, Insert, Requested
  <2>2. ASSUME NEW w \in Workers, UpdateRow(w) PROVE AttemptMade'
    BY <2>2 DEF UpdateRow, TokenInv, HeldRow
  <2>3. ASSUME NEW w \in Workers, MarkDelivered(w) \/ MarkDeliveredRaises(w) PROVE AttemptMade'
    BY <2>3 DEF MarkDelivered, MarkDeliveredRaises, TokenInv, HeldRow
  <2>4. ASSUME NEW w \in Workers, MarkFailed(w) PROVE AttemptMade'
    BY <2>4 DEF MarkFailed
  <2>5. ASSUME NEW w \in Workers, Report(w) PROVE AttemptMade'
    BY <2>5, ReportIsEmail DEF Report, Insert
  <2>6. ASSUME UNCHANGED <<status, attempts>> PROVE AttemptMade'
    BY <2>6
  <2>7. ASSUME NEW w \in Workers, Progress(w) \/ AbandonJob(w) PROVE AttemptMade'
    BY <2>2, <2>3, <2>4, <2>5, <2>6, <2>7
    DEF Progress, AbandonJob, TakeJob, SelectRow, Deliver, DeliveryRaises, ScheduleRetry,
        NoReport, EnqueueReport
  <2>8. ASSUME NEW n \in Notices, BecomesDue(n) \/ Promote(n) PROVE AttemptMade'
    BY <2>6, <2>8 DEF BecomesDue, Promote
  <2> QED BY <2>1, <2>6, <2>7, <2>8 DEF Next, vars
<1> QED BY <1>1, <1>2, TokenInvariant, PTL DEF Spec, OutboxInv

(* What the contract sees of a step.                                        *)
Seen == <<status, attempts, accepted>>

LEMMA UnseenStutters ==
  ASSUME UNCHANGED Seen
  PROVE  UNCHANGED Contract!contract
BY DEF Seen, Contract!contract, Standing

(* A row whose status changes, its attempts and its receiver left alone.    *)
LEMMA StatusChanges ==
  ASSUME NEW n \in Notices, NEW to, TypeOK, status' = [status EXCEPT ![n] = to]
  PROVE  [m \in Notices |-> Standing(m)]' =
         [[m \in Notices |-> Standing(m)] EXCEPT
            ![n] = IF to \in {"pending", "sending", "failed"} THEN "open" ELSE to]
BY DEF TypeOK, Standing

(* The API's rows are no reports, and a report has only one subject.        *)
LEMMA CallSubmits ==
  ASSUME OutboxInv, NEW c \in Calls, CallStep(c)
  PROVE  Contract!Next \/ UNCHANGED Contract!contract
<1>1. CASE CreateRow(c)
  <2>1. PICK n \in Requested : Insert(n)
    BY <1>1 DEF CreateRow
  <2>2. n \in Notices /\ \A m \in DOMAIN FailureEmail : FailureEmail[m] # n
    BY DEF Requested
  <2>3. Contract!Submit(n)
    BY <1>1, <2>1, <2>2, StatusChanges
    DEF CreateRow, Insert, OutboxInv, Contract!Submit, Contract!Become, Standing
  <2> QED BY <2>2, <2>3 DEF Contract!Next
<1>2. CASE UNCHANGED Seen
  BY <1>2, UnseenStutters
<1> QED BY <1>1, <1>2 DEF CallStep, FindRow, EnqueueJob, AbandonCall, rows, Seen

LEMMA AttemptBegins ==
  ASSUME OutboxInv, NEW w \in Workers, UpdateRow(w)
  PROVE  Contract!Next
<1>1. PICK n \in Notices : n = job[w]
  BY DEF OutboxInv, LocalInv, UpdateRow
<1>2. /\ status[n] \in {"pending", "failed"} /\ tried[w] = attempts[n] + 1
      /\ attempts[n] < MaxAttempts(n)
  BY <1>1 DEF OutboxInv, TokenInv, HeldRow, AttemptsLeft, UpdateRow
<1>3. [m \in Notices |-> Standing(m)]' = [m \in Notices |-> Standing(m)]
  BY <1>1, <1>2 DEF UpdateRow, OutboxInv, TypeOK, Standing
<1>4. Contract!Attempt(n)
  BY <1>1, <1>2, <1>3 DEF Contract!Attempt, UpdateRow, Standing
<1> QED BY <1>4 DEF Contract!Next

LEMMA ReceiverAccepts ==
  ASSUME OutboxInv, NEW w \in Workers, Deliver(w) \/ DeliveryRaises(w)
  PROVE  Contract!Next \/ UNCHANGED Contract!contract
<1>1. PICK n \in Notices : n = job[w]
  BY DEF OutboxInv, LocalInv, Deliver, DeliveryRaises
<1>2. PICK taken \in {0, 1} : accepted' = [accepted EXCEPT ![n] = @ + taken]
  BY <1>1 DEF Deliver, DeliveryRaises
<1>3. status[n] = "sending" /\ accepted[n] < attempts[n]
  BY <1>1 DEF OutboxInv, TokenInv, HeldRow, Deliver, DeliveryRaises
<1>4. UNCHANGED <<status, attempts>> /\ UNCHANGED [m \in Notices |-> Standing(m)]
  BY DEF Deliver, DeliveryRaises, rows, Standing
<1>5. CASE taken = 1
  <2>1. Contract!Accept(n)
    BY <1>2, <1>3, <1>4, <1>5 DEF Contract!Accept, Standing
  <2> QED BY <2>1 DEF Contract!Next
<1>6. CASE taken = 0
  <2>1. accepted' = accepted
    BY <1>2, <1>6 DEF OutboxInv, TypeOK
  <2> QED BY <1>4, <2>1, UnseenStutters DEF Seen
<1> QED BY <1>5, <1>6

LEMMA DeliverySucceeds ==
  ASSUME OutboxInv, NEW w \in Workers, MarkDelivered(w) \/ MarkDeliveredRaises(w)
  PROVE  Contract!Next \/ UNCHANGED Contract!contract
<1>1. PICK n \in Notices : n = job[w]
  BY DEF OutboxInv, LocalInv, MarkDelivered, MarkDeliveredRaises
<1>2. status[n] = "sending" /\ attempts[n] > 0
  BY <1>1 DEF OutboxInv, TokenInv, HeldRow, AttemptMade, MarkDelivered, MarkDeliveredRaises
<1>3. CASE status' = [status EXCEPT ![n] = "delivered"]
  <2>1. Contract!Succeed(n)
    BY <1>2, <1>3, StatusChanges
    DEF MarkDelivered, MarkDeliveredRaises, OutboxInv, Contract!Succeed, Contract!Become, Standing
  <2> QED BY <2>1 DEF Contract!Next
<1>4. CASE status' = status
  BY <1>4, UnseenStutters DEF MarkDelivered, MarkDeliveredRaises, Seen
<1>5. status' = status \/ status' = [status EXCEPT ![n] = "delivered"]
  BY <1>1 DEF MarkDelivered, MarkDeliveredRaises, OutboxInv, TypeOK
<1> QED BY <1>3, <1>4, <1>5

(* The worker gives a row up when its attempts are spent; if the record of  *)
(* the delivery had been committed, the failure overwrites it.              *)
LEMMA FailureSettles ==
  ASSUME OutboxInv, NEW w \in Workers, MarkFailed(w)
  PROVE  Contract!Next \/ UNCHANGED Contract!contract
<1>1. PICK n \in Notices : n = job[w]
  BY DEF OutboxInv, LocalInv, MarkFailed
<1>2. /\ status[n] = "sending" \/ (Faults /\ status[n] = "delivered")
      /\ tried[w] = attempts[n] /\ attempts[n] > 0 /\ attempts[n] <= MaxAttempts(n)
  BY <1>1 DEF OutboxInv, TokenInv, HeldRow, AttemptsLeft, AttemptMade, MarkFailed
<1>3. UNCHANGED <<attempts, accepted>>
  BY DEF MarkFailed
<1>4. CASE LastAttempt(w)
  <2>1. status' = [status EXCEPT ![n] = "dead"]
    BY <1>1, <1>4 DEF MarkFailed
  <2>2. [m \in Notices |-> Standing(m)]' = [[m \in Notices |-> Standing(m)] EXCEPT ![n] = "dead"]
    BY <2>1, StatusChanges DEF OutboxInv
  <2>3. MaxAttempts(n) \in Nat /\ attempts[n] \in Nat
    BY AttemptsAssumption DEF MaxAttempts, OutboxInv, TypeOK
  <2>4. Contract!Spent(n)
    BY <1>1, <1>2, <1>4, <2>3 DEF Contract!Spent, LastAttempt
  <2>5. Contract!GiveUp(n) \/ Contract!Forget(n)
    BY <1>2, <1>3, <2>2, <2>4 DEF Contract!GiveUp, Contract!Forget, Contract!Become, Standing
  <2> QED BY <2>5 DEF Contract!Next
<1>5. CASE ~LastAttempt(w)
  <2>1. status' = [status EXCEPT ![n] = "failed"]
    BY <1>1, <1>5 DEF MarkFailed
  <2>2. [m \in Notices |-> Standing(m)]' = [[m \in Notices |-> Standing(m)] EXCEPT ![n] = "open"]
    BY <2>1, StatusChanges DEF OutboxInv
  <2>3. CASE status[n] = "sending"
    <3>1. UNCHANGED [m \in Notices |-> Standing(m)]
      BY <2>2, <2>3 DEF Standing
    <3> QED BY <1>3, <3>1 DEF Contract!contract
  <2>4. CASE Faults /\ status[n] = "delivered"
    <3>1. Contract!Forget(n)
      BY <1>3, <2>2, <2>4 DEF Contract!Forget, Contract!Become, Standing
    <3> QED BY <3>1 DEF Contract!Next
  <2> QED BY <1>2, <2>3, <2>4
<1> QED BY <1>4, <1>5

LEMMA DeathIsReported ==
  ASSUME OutboxInv, NEW w \in Workers, Report(w)
  PROVE  Contract!Next
<1>1. PICK n \in Notices : n = FailureEmail[job[w]]
  BY ReportIsEmail DEF Report
<1>2. Insert(n) /\ UNCHANGED accepted
  BY <1>1 DEF Report
<1>3. \A m \in DOMAIN FailureEmail : FailureEmail[m] = n => Standing(m) = "dead"
  BY <1>1, NoticesAssumption
  DEF Report, Reporting, OutboxInv, TokenInv, HeldRow, Standing
<1>4. \A m \in DOMAIN FailureEmail : m \in Notices
  BY NoticesAssumption DEF Notices
<1>5. Contract!Submit(n)
  BY <1>2, <1>3, <1>4, StatusChanges
  DEF Insert, OutboxInv, Contract!Submit, Contract!Become, Standing
<1> QED BY <1>5 DEF Contract!Next

(* For any number of rows, callers and workers, whatever crashes, and with  *)
(* clocks that disagree: a notification is sent once per attempt and given  *)
(* up only when its attempts are spent, a failure email is written only for *)
(* a dead webhook, and what is settled stays settled unless the record of   *)
(* the delivery itself failed.                                              *)
THEOREM KeepsContractHolds == Spec => KeepsContract
<1>1. Init => Contract!Init
  BY DEF Init, Contract!Init, Standing
<1>2. ASSUME OutboxInv, [Next]_vars PROVE [Contract!Next]_(Contract!contract)
  <2>1. CASE \E c \in Calls : CallStep(c)
    BY <1>2, <2>1, CallSubmits
  <2>2. ASSUME NEW w \in Workers, Progress(w) \/ AbandonJob(w)
        PROVE  Contract!Next \/ UNCHANGED Contract!contract
    <3>1. CASE UNCHANGED Seen
      BY <3>1, UnseenStutters
    <3> QED
      BY <1>2, <2>2, <3>1, AttemptBegins, ReceiverAccepts, DeliverySucceeds, FailureSettles,
         DeathIsReported
      DEF Progress, AbandonJob, TakeJob, SelectRow, ScheduleRetry, NoReport, EnqueueReport,
          rows, Seen
  <2>3. ASSUME UNCHANGED Seen PROVE UNCHANGED Contract!contract
    BY <2>3, UnseenStutters
  <2>4. CASE \E n \in Notices : BecomesDue(n) \/ Promote(n)
    BY <2>3, <2>4 DEF BecomesDue, Promote, rows, Seen
  <2>5. CASE UNCHANGED vars
    BY <2>3, <2>5 DEF vars, rows, Seen
  <2> QED BY <1>2, <2>1, <2>2, <2>4, <2>5 DEF Next
<1> QED BY <1>1, <1>2, OutboxInvariant, PTL DEF Spec, KeepsContract, Contract!Spec
=============================================================================
