--------------------------- MODULE EventPipeline ---------------------------
(***************************************************************************)
(* The SDK client and the ingest endpoint, the latter by its contract.  A   *)
(* post the client put on the wire may be received, late or never; the       *)
(* client may give up on an answer while the handler goes on.  The SDK sends *)
(* no Idempotency-Key.                                                       *)
(***************************************************************************)
EXTENDS SdkClient

VARIABLES rows, status

Posts == Events \X {1, 2}

API == INSTANCE IngestContract WITH Keyed <- {}

api == <<rows, status>>
vars == <<client, api>>

TypeOK ==
  /\ ClientTypeOK
  /\ rows \subseteq Posts
  /\ status \in [Posts -> {"unsent", "open", "stored", "accepted", "refused", "failed"}]

Init == ClientInit /\ API!Init

CaptureEvent(e) == Capture(e) /\ UNCHANGED api

ExitWorker == StopWorker /\ UNCHANGED api

RunThread(t) == Run(t) /\ UNCHANGED api

Deliver(p) == p \in wire /\ API!Take(p) /\ UNCHANGED client

Serve(p) ==
  /\ API!Refuse(p) \/ API!Store(p) \/ API!Accept(p) \/ API!Fail(p)
  /\ UNCHANGED client

AnswerOf(t) == status[<<holding[t], Attempt(t)>>]

(* The client reads the status of its post.                                  *)
TakeAnswer(t) ==
  /\ holding[t] # NoEvent
  /\ \/ AnswerOf(t) = "accepted" /\ Accepted(t)
     \/ AnswerOf(t) = "refused" /\ Refused(t)
     \/ AnswerOf(t) = "failed" /\ Transient(t)
  /\ UNCHANGED api

(* The request timed out, or the connection could not be made or broke.      *)
GiveUp(t) == Transient(t) /\ UNCHANGED api

Next ==
  \/ \E e \in Events : CaptureEvent(e)
  \/ \E t \in Threads : RunThread(t) \/ TakeAnswer(t) \/ GiveUp(t)
  \/ ExitWorker
  \/ \E p \in Posts : Deliver(p) \/ Serve(p)

Spec == Init /\ [][Next]_vars

(* A thread that runs keeps running, and its requests time out; the worker    *)
(* wakes up, and its half second is not always over before it takes an event. *)
Move(t) == RunThread(t) \/ TakeAnswer(t) \/ GiveUp(t)

FairSpec ==
  /\ Spec
  /\ \A t \in Threads : WF_vars(pc[t] # "idle" /\ Move(t))
  /\ WF_vars(Move(Worker)) /\ WF_vars(ExitWorker)
  /\ SF_vars(TakeEvent(Worker) /\ UNCHANGED api)

-----------------------------------------------------------------------------
(* Properties.                                                               *)

(* What the client counts as sent is in the events table: no more events are *)
(* counted as sent than have a row, though answers are late or lost, posts    *)
(* are repeated and handlers fail half way.                                   *)
SentIsStored == sent <= Cardinality({e \in Events : \E n \in {1, 2} : <<e, n>> \in rows})
=============================================================================
