----------------------------- MODULE SdkClient -----------------------------
(***************************************************************************)
(* The Python SDK's event client: capture_event puts an event into a bounded *)
(* queue; a background thread and the application's calls of flush take      *)
(* events from it and post each to the backend, twice at most; close stops   *)
(* the thread, flushes what it can and closes the HTTP client.  An action is *)
(* one critical section of the client's lock, one HTTP request put on the    *)
(* wire, or one answer.                                                      *)
(***************************************************************************)
EXTENDS Integers, Sequences, FiniteSets

CONSTANTS
  Events,        (* what the application captures                            *)
  Worker,        (* the background thread                                    *)
  Flushers,      (* application threads that call flush                      *)
  Closers,       (* threads that call close: create_client, atexit           *)
  NoEvent,
  MaxQueueSize,
  DropOldest     (* overflow_policy; otherwise drop_newest                   *)

Threads == {Worker} \cup Flushers \cup Closers

ASSUME ThreadsAssumption ==
  /\ IsFiniteSet(Events) /\ NoEvent \notin Events
  /\ IsFiniteSet(Threads)
  /\ Worker \notin Flushers \cup Closers /\ Flushers \cap Closers = {}
ASSUME QueueAssumption == MaxQueueSize \in Nat \ {0} /\ DropOldest \in BOOLEAN

VARIABLES
  captured,  (* events handed to capture_event                               *)
  queue,     (* _queue                                                       *)
  dropped,   (* _dropped                                                     *)
  sent,      (* _sent                                                        *)
  failed,    (* _failed                                                      *)
  closed,    (* _is_closed, and the stop event                               *)
  http,      (* the HTTP client is open                                      *)
  pc,        (* pc[t]: what thread t does next                               *)
  holding,   (* holding[t]: the event thread t took from the queue           *)
  wire       (* <<e, n>>: the nth post of event e has left the process       *)

counters == <<dropped, sent, failed>>
client == <<captured, queue, counters, closed, http, pc, holding, wire>>

Sending == {"first", "first_sent", "retry", "retry_sent"}

ClientTypeOK ==
  /\ captured \subseteq Events
  /\ queue \in Seq(Events) /\ Len(queue) <= MaxQueueSize
  /\ dropped \in Nat /\ sent \in Nat /\ failed \in Nat
  /\ closed \in BOOLEAN /\ http \in BOOLEAN
  /\ pc \in [Threads -> {"idle", "flush", "stop", "join", "close_http", "done"} \cup Sending]
  /\ holding \in [Threads -> Events \cup {NoEvent}]
  /\ wire \subseteq Events \X {1, 2}

ClientInit ==
  /\ captured = {}
  /\ queue = <<>>
  /\ dropped = 0 /\ sent = 0 /\ failed = 0
  /\ closed = FALSE /\ http = TRUE
  /\ pc = [t \in Threads |-> "idle"]
  /\ holding = [t \in Threads |-> NoEvent]
  /\ wire = {}

Goto(t, to) == pc' = [pc EXCEPT ![t] = to]

-----------------------------------------------------------------------------
(* capture_event                                                             *)

(* Faulty form: the bound is checked after the event was added.               *)
CaptureThenDrop(e) ==
  /\ e \notin captured
  /\ captured' = captured \cup {e}
  /\ queue' = IF Len(queue) < MaxQueueSize THEN Append(queue, e) ELSE Append(Tail(queue), e)
  /\ UNCHANGED <<counters, closed, http, pc, holding, wire>>

(* Faulty form: the bound is off by one.                                      *)
CaptureOneTooMany(e) ==
  /\ e \notin captured
  /\ captured' = captured \cup {e}
  /\ IF Len(queue) <= MaxQueueSize
       THEN queue' = Append(queue, e) /\ UNCHANGED dropped
       ELSE queue' = Append(Tail(queue), e) /\ dropped' = dropped + 1
  /\ UNCHANGED <<sent, failed, closed, http, pc, holding, wire>>

Capture(e) ==
  /\ e \notin captured
  /\ captured' = captured \cup {e}
  /\ IF Len(queue) < MaxQueueSize
       THEN queue' = Append(queue, e) /\ UNCHANGED dropped
       ELSE /\ queue' = IF DropOldest THEN Append(Tail(queue), e) ELSE queue
            /\ dropped' = dropped + 1
  /\ UNCHANGED <<sent, failed, closed, http, pc, holding, wire>>

-----------------------------------------------------------------------------
(* flush                                                                     *)

(* The worker's wait timed out, or the application calls flush.              *)
StartFlush(t) ==
  /\ t \in {Worker} \cup Flushers
  /\ pc[t] = "idle"
  /\ t = Worker => ~ closed
  /\ Goto(t, "flush")
  /\ UNCHANGED <<captured, queue, counters, closed, http, holding, wire>>

TakeEvent(t) ==
  /\ pc[t] = "flush"
  /\ queue # <<>>
  /\ holding' = [holding EXCEPT ![t] = Head(queue)]
  /\ queue' = Tail(queue)
  /\ Goto(t, "first")
  /\ UNCHANGED <<captured, counters, closed, http, wire>>

(* Faulty form: the worker's loop ends with its first flush.                  *)
WorkerReturns(t) ==
  IF t \in Closers THEN "close_http" ELSE IF t = Worker THEN "done" ELSE "idle"

AfterFlush(t) == IF t \in Closers THEN "close_http" ELSE "idle"

(* The queue is empty, or the time given to flush is over.                    *)
EndFlush(t) ==
  /\ pc[t] = "flush"
  /\ Goto(t, AfterFlush(t))
  /\ UNCHANGED <<captured, queue, counters, closed, http, holding, wire>>

-----------------------------------------------------------------------------
(* _send_event and _send_event_once                                          *)

Attempt(t) == IF pc[t] \in {"first", "first_sent"} THEN 1 ELSE 2

(* The request leaves, unless the HTTP client is closed and raises.           *)
Post(t) ==
  /\ pc[t] \in {"first", "retry"}
  /\ http
  /\ wire' = wire \cup {<<holding[t], Attempt(t)>>}
  /\ Goto(t, IF pc[t] = "first" THEN "first_sent" ELSE "retry_sent")
  /\ UNCHANGED <<captured, queue, counters, closed, http, holding>>

Settle(t) ==
  /\ holding' = [holding EXCEPT ![t] = NoEvent]
  /\ Goto(t, "flush")

(* 2xx                                                                        *)
Accepted(t) ==
  /\ pc[t] \in {"first_sent", "retry_sent"}
  /\ sent' = sent + 1
  /\ Settle(t)
  /\ UNCHANGED <<captured, queue, dropped, failed, closed, http, wire>>

(* An answer that is neither 2xx nor 5xx is not worth a retry.                *)
Refused(t) ==
  /\ pc[t] \in {"first_sent", "retry_sent"}
  /\ failed' = failed + 1
  /\ Settle(t)
  /\ UNCHANGED <<captured, queue, dropped, sent, closed, http, wire>>

(* Faulty form: whatever comes of the retry, the event counts as sent.         *)
RetrySucceeds(t) ==
  /\ pc[t] \in Sending
  /\ \/ /\ pc[t] \in {"first", "first_sent"}
        /\ Goto(t, "retry")
        /\ UNCHANGED <<sent, holding>>
     \/ /\ pc[t] \in {"retry", "retry_sent"}
        /\ sent' = sent + 1
        /\ Settle(t)
  /\ UNCHANGED <<captured, queue, dropped, failed, closed, http, wire>>

(* Faulty form: a transient failure is retried as long as it lasts.           *)
RetryForever(t) ==
  /\ pc[t] \in Sending
  /\ Goto(t, "retry")
  /\ UNCHANGED <<captured, queue, counters, closed, http, holding, wire>>

(* 5xx, or the request raised: it did not leave, timed out, or its answer was *)
(* lost.  The second time the event has failed.                               *)
Transient(t) ==
  /\ pc[t] \in Sending
  /\ \/ /\ pc[t] \in {"first", "first_sent"}
        /\ Goto(t, "retry")
        /\ UNCHANGED <<failed, holding>>
     \/ /\ pc[t] \in {"retry", "retry_sent"}
        /\ failed' = failed + 1
        /\ Settle(t)
  /\ UNCHANGED <<captured, queue, dropped, sent, closed, http, wire>>

-----------------------------------------------------------------------------
(* close                                                                     *)

(* Two threads that both read _is_closed before either sets it both go on.    *)
StartClose(t) ==
  /\ t \in Closers
  /\ pc[t] = "idle"
  /\ Goto(t, IF closed THEN "done" ELSE "stop")
  /\ UNCHANGED <<captured, queue, counters, closed, http, holding, wire>>

Stop(t) ==
  /\ pc[t] = "stop"
  /\ closed' = TRUE
  /\ Goto(t, "join")
  /\ UNCHANGED <<captured, queue, counters, http, holding, wire>>

(* _run_flush_loop ends                                                      *)
StopWorker ==
  /\ closed
  /\ pc[Worker] = "idle"
  /\ Goto(Worker, "done")
  /\ UNCHANGED <<captured, queue, counters, closed, http, holding, wire>>

(* join waits one flush interval at most, then close flushes.                 *)
Join(t) ==
  /\ pc[t] = "join"
  /\ Goto(t, "flush")
  /\ UNCHANGED <<captured, queue, counters, closed, http, holding, wire>>

(* httpx closes its pool; the urllib transport's close does nothing.          *)
CloseHttp(t) ==
  /\ pc[t] = "close_http"
  /\ http' \in {http, FALSE}
  /\ Goto(t, "done")
  /\ UNCHANGED <<captured, queue, counters, closed, holding, wire>>

Run(t) ==
  \/ StartFlush(t) \/ TakeEvent(t) \/ EndFlush(t) \/ Post(t)
  \/ StartClose(t) \/ Stop(t) \/ Join(t) \/ CloseHttp(t)

Answer(t) == Accepted(t) \/ Refused(t) \/ Transient(t)

ClientNext ==
  \/ \E e \in Events : Capture(e)
  \/ \E t \in Threads : Run(t) \/ Answer(t)
  \/ StopWorker

ClientSpec == ClientInit /\ [][ClientNext]_client
-----------------------------------------------------------------------------
(* Properties.                                                               *)

Holders == {t \in Threads : holding[t] # NoEvent}
Waiting == {queue[i] : i \in 1 .. Len(queue)}
Held == {holding[t] : t \in Holders}

(* No event is lost or counted twice: every captured event is queued, in the *)
(* hands of one thread, or counted once as dropped, sent or failed, whatever *)
(* the captures, flushes, the worker and close do to one another.            *)
EveryEventAccountedFor ==
  /\ Cardinality(captured) = Len(queue) + Cardinality(Holders) + dropped + sent + failed
  /\ \A i, j \in 1 .. Len(queue) : queue[i] = queue[j] => i = j
  /\ \A t, u \in Holders : holding[t] = holding[u] => t = u
  /\ Waiting \cap Held = {}
  /\ Waiting \cup Held \subseteq captured

(* An event in a thread's hands is settled, even while close shuts the HTTP  *)
(* client; an event captured before close does not stay in the queue.        *)
Settles ==
  \A e \in Events :
    /\ e \in Held ~> e \notin Held
    /\ e \in captured ~> e \notin Waiting \/ closed

(* close comes to an end in every thread that calls it.                      *)
CloseReturns == \A t \in Closers : pc[t] = "stop" ~> pc[t] = "done"
=============================================================================
