-------------------------- MODULE TransportOutbox --------------------------
(***************************************************************************)
(* The transport outbox: notifications are rows of a database table, and   *)
(* jobs of a Redis queue name the row a worker is to deliver.  An action is *)
(* one database transaction, one queue command or one delivery; the row    *)
(* claim is a SELECT and an UPDATE with no lock between them.               *)
(***************************************************************************)
EXTENDS Integers, FiniteSets

CONSTANTS
  Webhooks,         (* rows of kind "webhook", one per dedupe key            *)
  Emails,           (* rows of kind "email", one per dedupe key              *)
  FailureEmail,     (* FailureEmail[n]: the email that reports dead webhook n *)
  Calls,            (* calls of TransportService.enqueue by the API          *)
  Workers,          (* RQ worker processes                                   *)
  NoNotice,
  WebhookAttempts,  (* webhook_retry_max_attempts                            *)
  EmailAttempts,    (* email_retry_max_attempts                              *)
  Promotion,        (* some process moves scheduled jobs to the queue        *)
  Faults,           (* processes crash, database and Redis commands raise    *)
  Skew              (* the hosts' clocks disagree                            *)

Notices == Webhooks \cup Emails
MaxAttempts(n) == IF n \in Webhooks THEN WebhookAttempts ELSE EmailAttempts

ASSUME NoticesAssumption ==
  /\ IsFiniteSet(Notices) /\ Webhooks \cap Emails = {} /\ NoNotice \notin Notices
  /\ DOMAIN FailureEmail \subseteq Webhooks
  /\ \A n \in DOMAIN FailureEmail : FailureEmail[n] \in Emails
  /\ \A m, n \in DOMAIN FailureEmail : FailureEmail[m] = FailureEmail[n] => m = n
ASSUME AttemptsAssumption == {WebhookAttempts, EmailAttempts} \subseteq Nat \ {0}
ASSUME OutboxSwitchAssumption == {Promotion, Faults, Skew} \subseteq BOOLEAN

(* The notifications the API itself enqueues.                               *)
Requested == Notices \ {FailureEmail[n] : n \in DOMAIN FailureEmail}

VARIABLES
  status,     (* status[n]: the row's status, "none" before it is inserted  *)
  attempts,   (* attempts[n]: the row's attempts column                     *)
  due,        (* due[n]: next_attempt_at <= now, on the clock of a worker   *)
  queued,     (* queued[n]: jobs for row n in the RQ queue                  *)
  scheduled,  (* scheduled[n]: jobs for n in the queue's scheduled registry *)
  accepted,   (* accepted[n]: times the receiver took the notification      *)
  call,       (* call[c]: "idle", "enqueue", "done" or "failed"             *)
  target,     (* target[c]: the row call c inserts                          *)
  work,       (* work[w]: what worker w does next                           *)
  job,        (* job[w]: the row worker w delivers                          *)
  tried       (* tried[w]: the attempts worker w read with the row          *)

rows == <<status, attempts, due>>
jobs == <<queued, scheduled>>
callers == <<call, target>>
vars == <<rows, jobs, accepted, callers, work, job, tried>>

Holding == {"claim", "update", "deliver", "mark_delivered", "mark_failed", "retry"}
Reporting == {"report", "report_enqueue"}
Final == {"delivered", "dead"}

TypeOK ==
  /\ status \in [Notices -> {"none", "pending", "sending", "failed"} \cup Final]
  /\ attempts \in [Notices -> Nat]
  /\ due \in [Notices -> BOOLEAN]
  /\ queued \in [Notices -> Nat]
  /\ scheduled \in [Notices -> Nat]
  /\ accepted \in [Notices -> Nat]
  /\ call \in [Calls -> {"idle", "enqueue", "done", "failed"}]
  /\ target \in [Calls -> Notices \cup {NoNotice}]
  /\ work \in [Workers -> {"idle"} \cup Holding \cup Reporting]
  /\ job \in [Workers -> Notices \cup {NoNotice}]
  /\ tried \in [Workers -> Nat]

Init ==
  /\ status = [n \in Notices |-> "none"]
  /\ attempts = [n \in Notices |-> 0]
  /\ due = [n \in Notices |-> FALSE]
  /\ queued = [n \in Notices |-> 0]
  /\ scheduled = [n \in Notices |-> 0]
  /\ accepted = [n \in Notices |-> 0]
  /\ call = [c \in Calls |-> "idle"]
  /\ target = [c \in Calls |-> NoNotice]
  /\ work = [w \in Workers |-> "idle"]
  /\ job = [w \in Workers |-> NoNotice]
  /\ tried = [w \in Workers |-> 0]

-----------------------------------------------------------------------------
(* TransportService.enqueue.                                                *)

(* create_or_get_deduped: the unique key lets the first insertion create    *)
(* the row; with skewed clocks its next_attempt_at may lie ahead of a       *)
(* worker's clock.                                                          *)
Insert(n) ==
  /\ status[n] = "none"
  /\ status' = [status EXCEPT ![n] = "pending"]
  /\ \E d \in IF Skew THEN BOOLEAN ELSE {TRUE} : due' = [due EXCEPT ![n] = d]
  /\ UNCHANGED attempts

AddJob(n) == queued' = [queued EXCEPT ![n] = @ + 1] /\ UNCHANGED scheduled

CreateRow(c) ==
  /\ call[c] = "idle"
  /\ \E n \in Requested :
       /\ Insert(n)
       /\ target' = [target EXCEPT ![c] = n]
  /\ call' = [call EXCEPT ![c] = "enqueue"]
  /\ UNCHANGED <<jobs, accepted, work, job, tried>>

(* Faulty form: the caller that found the row enqueues a job too.            *)
FindRowAndEnqueue(c) ==
  /\ call[c] = "idle"
  /\ \E n \in Requested :
       /\ status[n] # "none"
       /\ target' = [target EXCEPT ![c] = n]
  /\ call' = [call EXCEPT ![c] = "enqueue"]
  /\ UNCHANGED <<rows, jobs, accepted, work, job, tried>>

(* The unique key refuses the insertion: the caller gets the existing row,  *)
(* and leaves its job to whoever created it.                                *)
FindRow(c) ==
  /\ call[c] = "idle"
  /\ \E n \in Requested :
       /\ status[n] # "none"
       /\ target' = [target EXCEPT ![c] = n]
  /\ call' = [call EXCEPT ![c] = "done"]
  /\ UNCHANGED <<rows, jobs, accepted, work, job, tried>>

EnqueueJob(c) ==
  /\ call[c] = "enqueue"
  /\ AddJob(target[c])
  /\ call' = [call EXCEPT ![c] = "done"]
  /\ UNCHANGED <<rows, accepted, target, work, job, tried>>

(* The API process dies, or Redis raises, between the insertion and the job. *)
AbandonCall(c) ==
  /\ Faults
  /\ call[c] = "enqueue"
  /\ call' = [call EXCEPT ![c] = "failed"]
  /\ UNCHANGED <<rows, jobs, accepted, target, work, job, tried>>

-----------------------------------------------------------------------------
(* process_outbox_delivery, run by an RQ worker.                            *)

Goto(w, to) == work' = [work EXCEPT ![w] = to]

TakeJob(w) ==
  /\ work[w] = "idle"
  /\ \E n \in Notices :
       /\ queued[n] > 0
       /\ queued' = [queued EXCEPT ![n] = @ - 1]
       /\ job' = [job EXCEPT ![w] = n]
  /\ Goto(w, "claim")
  /\ UNCHANGED <<rows, scheduled, accepted, callers, tried>>

(* Faulty form: the SELECT looks for pending rows only.                      *)
SelectPendingRow(w) ==
  /\ work[w] = "claim"
  /\ IF status[job[w]] = "pending" /\ due[job[w]]
     THEN /\ tried' = [tried EXCEPT ![w] = attempts[job[w]] + 1]
          /\ Goto(w, "update")
     ELSE /\ Goto(w, "idle")
          /\ UNCHANGED tried
  /\ UNCHANGED <<rows, jobs, accepted, callers, job>>

(* The SELECT of claim_for_send.                                            *)
SelectRow(w) ==
  /\ work[w] = "claim"
  /\ IF status[job[w]] \in {"pending", "failed"} /\ due[job[w]]
     THEN /\ tried' = [tried EXCEPT ![w] = attempts[job[w]] + 1]
          /\ Goto(w, "update")
     ELSE /\ Goto(w, "idle")
          /\ UNCHANGED tried
  /\ UNCHANGED <<rows, jobs, accepted, callers, job>>

(* The UPDATE of claim_for_send, by primary key, with the values computed   *)
(* from the SELECT.                                                         *)
UpdateRow(w) ==
  /\ work[w] = "update"
  /\ status' = [status EXCEPT ![job[w]] = "sending"]
  /\ attempts' = [attempts EXCEPT ![job[w]] = tried[w]]
  /\ Goto(w, "deliver")
  /\ UNCHANGED <<due, jobs, accepted, callers, job, tried>>

(* Taken, or skipped because the project no longer wants it: either way the *)
(* row is then marked delivered.                                            *)
Deliver(w) ==
  /\ work[w] = "deliver"
  /\ \E taken \in {0, 1} : accepted' = [accepted EXCEPT ![job[w]] = @ + taken]
  /\ Goto(w, "mark_delivered")
  /\ UNCHANGED <<rows, jobs, callers, job, tried>>

(* Refused, or taken by a receiver whose answer is lost or late.            *)
DeliveryRaises(w) ==
  /\ work[w] = "deliver"
  /\ \E taken \in {0, 1} : accepted' = [accepted EXCEPT ![job[w]] = @ + taken]
  /\ Goto(w, "mark_failed")
  /\ UNCHANGED <<rows, jobs, callers, job, tried>>

MarkDelivered(w) ==
  /\ work[w] = "mark_delivered"
  /\ status' = [status EXCEPT ![job[w]] = "delivered"]
  /\ Goto(w, "idle")
  /\ UNCHANGED <<attempts, due, jobs, accepted, callers, job, tried>>

(* mark_delivered raises, before or after its commit: the call is inside    *)
(* the try block whose handler marks the row failed.                        *)
MarkDeliveredRaises(w) ==
  /\ Faults
  /\ work[w] = "mark_delivered"
  /\ \E s \in {status[job[w]], "delivered"} : status' = [status EXCEPT ![job[w]] = s]
  /\ Goto(w, "mark_failed")
  /\ UNCHANGED <<attempts, due, jobs, accepted, callers, job, tried>>

(* Faulty form: off by one in the comparison with max_attempts.              *)
LastAttemptPlusOne(w) == tried[w] > MaxAttempts(job[w])

(* No attempt is left; emails have no retry intervals.                      *)
LastAttempt(w) == tried[w] >= MaxAttempts(job[w]) \/ job[w] \in Emails

(* Faulty form: every failed attempt is reported, and not only the last.     *)
AfterFailureReports(w) ==
  IF job[w] \in Webhooks THEN "report" ELSE "idle"

(* Faulty form: the retry is never scheduled.                                *)
AfterFailureForgetsRetry(w) ==
  IF LastAttempt(w) /\ job[w] \in Webhooks THEN "report" ELSE "idle"

AfterFailure(w) ==
  IF ~LastAttempt(w) THEN "retry" ELSE IF job[w] \in Webhooks THEN "report" ELSE "idle"

MarkFailed(w) ==
  /\ work[w] = "mark_failed"
  /\ status' = [status EXCEPT ![job[w]] = IF LastAttempt(w) THEN "dead" ELSE "failed"]
  /\ due' = [due EXCEPT ![job[w]] = LastAttempt(w)]
  /\ Goto(w, AfterFailure(w))
  /\ UNCHANGED <<attempts, jobs, accepted, callers, job, tried>>

(* queue.enqueue_in: the job waits in the scheduled registry.               *)
ScheduleRetry(w) ==
  /\ work[w] = "retry"
  /\ scheduled' = [scheduled EXCEPT ![job[w]] = @ + 1]
  /\ Goto(w, "idle")
  /\ UNCHANGED <<rows, queued, accepted, callers, job, tried>>

(* Faulty form: the email row gets no job.                                   *)
ReportWithoutJob(w) ==
  /\ work[w] = "report"
  /\ job[w] \in DOMAIN FailureEmail
  /\ Insert(FailureEmail[job[w]])
  /\ Goto(w, "idle")
  /\ UNCHANGED <<jobs, accepted, callers, job, tried>>

(* _enqueue_webhook_failure_email: its dedupe key has the dead row's id.    *)
Report(w) ==
  /\ work[w] = "report"
  /\ job[w] \in DOMAIN FailureEmail
  /\ Insert(FailureEmail[job[w]])
  /\ Goto(w, "report_enqueue")
  /\ UNCHANGED <<jobs, accepted, callers, job, tried>>

(* A webhook test, or a project whose switches are off, reports nothing.    *)
NoReport(w) ==
  /\ work[w] = "report"
  /\ job[w] \in DOMAIN FailureEmail => status[FailureEmail[job[w]]] # "none"
  /\ Goto(w, "idle")
  /\ UNCHANGED <<rows, jobs, accepted, callers, job, tried>>

EnqueueReport(w) ==
  /\ work[w] = "report_enqueue"
  /\ AddJob(FailureEmail[job[w]])
  /\ Goto(w, "idle")
  /\ UNCHANGED <<rows, accepted, callers, job, tried>>

(* The worker dies or a command outside the try block, or in its handler,   *)
(* raises: RQ keeps the job in the failed registry and never runs it again. *)
AbandonJob(w) ==
  /\ Faults
  /\ work[w] # "idle"
  /\ Goto(w, "idle")
  /\ UNCHANGED <<rows, jobs, accepted, callers, job, tried>>

-----------------------------------------------------------------------------
(* Time and the scheduled registry.                                         *)

BecomesDue(n) ==
  /\ status[n] \in {"pending", "failed"}
  /\ ~due[n]
  /\ due' = [due EXCEPT ![n] = TRUE]
  /\ UNCHANGED <<status, attempts, jobs, accepted, callers, work, job, tried>>

(* enqueue_in counts its delay from a moment after next_attempt_at was      *)
(* computed from the same delay on the same clock.                          *)
Promote(n) ==
  /\ Promotion
  /\ scheduled[n] > 0
  /\ due[n] \/ Skew
  /\ scheduled' = [scheduled EXCEPT ![n] = @ - 1]
  /\ queued' = [queued EXCEPT ![n] = @ + 1]
  /\ UNCHANGED <<rows, accepted, callers, work, job, tried>>

-----------------------------------------------------------------------------
CallStep(c) == CreateRow(c) \/ FindRow(c) \/ EnqueueJob(c) \/ AbandonCall(c)

Progress(w) ==
  \/ TakeJob(w) \/ SelectRow(w) \/ UpdateRow(w)
  \/ Deliver(w) \/ DeliveryRaises(w)
  \/ MarkDelivered(w) \/ MarkDeliveredRaises(w) \/ MarkFailed(w)
  \/ ScheduleRetry(w)
  \/ Report(w) \/ NoReport(w) \/ EnqueueReport(w)

Next ==
  \/ \E c \in Calls : CallStep(c)
  \/ \E w \in Workers : Progress(w) \/ AbandonJob(w)
  \/ \E n \in Notices : BecomesDue(n) \/ Promote(n)

Spec == Init /\ [][Next]_vars

(* A call that created a row goes on to enqueue its job, the worker loop    *)
(* takes jobs and runs each to its end, time passes, and whoever promotes   *)
(* scheduled jobs keeps doing so.                                           *)
FairSpec ==
  /\ Spec
  /\ \A c \in Calls : WF_vars(EnqueueJob(c))
  /\ \A w \in Workers : WF_vars(Progress(w))
  /\ \A n \in Notices : WF_vars(BecomesDue(n)) /\ WF_vars(Promote(n))
-----------------------------------------------------------------------------
(* Properties.                                                              *)

Sending == {"update", "deliver", "mark_delivered", "mark_failed"}

(* claim_for_send selects and updates without a lock, and still two workers *)
(* never are past the SELECT for the same row: the row's only job is the    *)
(* lock.                                                                    *)
ExclusiveDelivery ==
  \A v, w \in Workers :
    work[v] \in Sending /\ work[w] \in Sending /\ job[v] = job[w] => v = w

(* Across retries, crashes and failed updates a receiver is sent a          *)
(* notification no more often than the row's attempts say, and attempts     *)
(* never passes max_attempts.                                               *)
AttemptsBounded ==
  \A n \in Notices : accepted[n] <= attempts[n] /\ attempts[n] <= MaxAttempts(n)

(* A dead row stays dead, and a delivered row stays delivered unless the    *)
(* worker's own mark_delivered raised.                                      *)
FinalRowsStay ==
  [][\A n \in Notices :
       status[n] = "dead" \/ (status[n] = "delivered" /\ ~Faults) => status'[n] = status[n]]_vars

Standing(n) == IF status[n] \in {"pending", "sending", "failed"} THEN "open" ELSE status[n]

Contract == INSTANCE DeliveryContract WITH
  Single <- Emails,
  Limit <- MaxAttempts,
  ReportOf <- FailureEmail,
  Forgetful <- Faults,
  state <- [n \in Notices |-> Standing(n)]

(* Racing workers, crashes and lost commits included, the outbox does what  *)
(* it promises of each notification: a webhook dies only after all of its   *)
(* attempts, and its failure email is only ever written for a dead webhook. *)
KeepsContract == Contract!Spec

HasJob(n) ==
  \/ queued[n] > 0 \/ scheduled[n] > 0
  \/ \E c \in Calls : call[c] = "enqueue" /\ target[c] = n
  \/ \E w \in Workers :
       \/ work[w] \in Holding /\ job[w] = n
       \/ work[w] = "report_enqueue" /\ FailureEmail[job[w]] = n

(* Nothing polls the table: a row that still is to be delivered must have   *)
(* a job somewhere, or it is never looked at again.                         *)
NothingStranded ==
  ~Faults /\ ~Skew =>
    \A n \in Notices : status[n] \in {"pending", "sending", "failed"} => HasJob(n)

(* Every row that was inserted ends delivered or dead.                      *)
EveryRowSettles == \A n \in Notices : status[n] = "pending" ~> status[n] \in Final

(* The death of a webhook is reported: the email row is settled in the end. *)
DeathReported ==
  \A n \in DOMAIN FailureEmail : status[n] = "dead" ~> status[FailureEmail[n]] \in Final

(* rq_webhook_dispatcher.py: "worker applies delivery + retries/backoff     *)
(* policy": a failed attempt is followed by another one.                    *)
FailedIsRetried == \A n \in Notices : status[n] = "failed" ~> status[n] = "sending"
=============================================================================
