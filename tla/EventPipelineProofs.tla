------------------------ MODULE EventPipelineProofs ------------------------
(***************************************************************************)
(* Conservation of events in the SDK client, and that what it counts as     *)
(* sent is stored, for any number of events, threads and any queue size.     *)
(***************************************************************************)
EXTENDS EventPipeline, FiniteSetTheorems, TLAPS

(* A thread holds an event from taking it to settling it.                     *)
HoldInv == \A t \in Threads : holding[t] # NoEvent <=> pc[t] \in Sending

ClientInv == ClientTypeOK /\ HoldInv /\ EveryEventAccountedFor

LEMMA ThreadKinds ==
  /\ Worker \in Threads /\ Flushers \subseteq Threads /\ Closers \subseteq Threads
  /\ IsFiniteSet(Threads) /\ IsFiniteSet(Events) /\ NoEvent \notin Events
BY ThreadsAssumption DEF Threads

LEMMA Counts ==
  ASSUME ClientTypeOK
  PROVE  /\ IsFiniteSet(captured) /\ Cardinality(captured) \in Nat
         /\ IsFiniteSet(Holders) /\ Cardinality(Holders) \in Nat
<1>1. captured \subseteq Events /\ Holders \subseteq Threads
  BY DEF ClientTypeOK, Holders
<1> QED
  BY <1>1, ThreadKinds, FS_Subset, FS_CardinalityType

LEMMA ClientInitInv == ClientInit => ClientInv
<1> SUFFICES ASSUME ClientInit PROVE ClientInv
  OBVIOUS
<1>1. Holders = {} /\ Waiting = {} /\ Held = {} /\ captured = {}
  BY DEF ClientInit, Holders, Waiting, Held
<1>2. ClientTypeOK
  <2>1. queue \in Seq(Events) /\ Len(queue) = 0
    BY DEF ClientInit
  <2>2. /\ pc \in [Threads -> {"idle"}] /\ holding \in [Threads -> {NoEvent}]
        /\ wire = {} /\ captured = {}
    BY DEF ClientInit
  <2>3. closed \in BOOLEAN /\ http \in BOOLEAN /\ dropped \in Nat /\ sent \in Nat /\ failed \in Nat
    BY DEF ClientInit
  <2> QED
    BY <2>1, <2>2, <2>3, QueueAssumption DEF ClientTypeOK
<1>3. HoldInv
  BY DEF ClientInit, HoldInv, Sending
<1>4. EveryEventAccountedFor
  BY <1>1, FS_EmptySet DEF ClientInit, EveryEventAccountedFor
<1> QED BY <1>2, <1>3, <1>4 DEF ClientInv

-----------------------------------------------------------------------------
(* capture_event                                                             *)

(* The elements of a sequence with one more at its end, and with one less at   *)
(* its front.                                                                *)
LEMMA Appended ==
  ASSUME NEW S, NEW q \in Seq(S), NEW x \in S
  PROVE  /\ Append(q, x) \in Seq(S) /\ Len(Append(q, x)) = Len(q) + 1
         /\ \A i \in 1 .. Len(q) : Append(q, x)[i] = q[i]
         /\ Append(q, x)[Len(q) + 1] = x
OBVIOUS

LEMMA Shortened ==
  ASSUME NEW S, NEW q \in Seq(S), q # <<>>
  PROVE  /\ Tail(q) \in Seq(S) /\ Len(Tail(q)) = Len(q) - 1 /\ Len(q) \in Nat \ {0}
         /\ \A i \in 1 .. Len(q) - 1 : Tail(q)[i] = q[i + 1]
         /\ Head(q) = q[1] /\ q[1] \in S
OBVIOUS

LEMMA CaptureStep ==
  ASSUME ClientInv, NEW e \in Events, Capture(e)
  PROVE  ClientInv' /\ Waiting' \cup Held' \subseteq Waiting \cup Held \cup {e}
<1> USE DEF ClientInv
<1>1. Holders' = Holders /\ Held' = Held /\ HoldInv'
  BY DEF Capture, Holders, Held, HoldInv
<1>2. Cardinality(captured') = Cardinality(captured) + 1
  BY Counts, FS_AddElement DEF Capture
<1>3. e \notin Waiting /\ e \notin Held
  BY DEF Capture, EveryEventAccountedFor
<1>n. /\ queue \in Seq(Events) /\ Len(queue) \in Nat /\ MaxQueueSize \in Nat \ {0}
      /\ Len(queue) <= MaxQueueSize
      /\ dropped \in Nat /\ sent \in Nat /\ failed \in Nat
      /\ Cardinality(captured) \in Nat /\ Cardinality(Holders) \in Nat
      /\ \A i, j \in 1 .. Len(queue) : queue[i] = queue[j] => i = j
      /\ \A i \in 1 .. Len(queue) : queue[i] # e /\ queue[i] \in Waiting
  BY <1>3, Counts, QueueAssumption DEF ClientTypeOK, EveryEventAccountedFor, Waiting
<1>u. /\ captured' = captured \cup {e}
      /\ UNCHANGED <<sent, failed, closed, http, pc, holding, wire>>
  BY DEF Capture
<1>4. CASE Len(queue) < MaxQueueSize
  <2>1. queue' = Append(queue, e) /\ dropped' = dropped
    BY <1>4 DEF Capture
  <2>2. /\ queue' \in Seq(Events)
        /\ Len(queue') = Len(queue) + 1
        /\ \A i \in 1 .. Len(queue) : queue'[i] = queue[i]
        /\ queue'[Len(queue) + 1] = e
    BY <1>n, <2>1, Appended
  <2>3. ClientTypeOK'
    BY <1>4, <1>n, <1>u, <2>1, <2>2 DEF ClientTypeOK
  <2>4. Waiting' \subseteq Waiting \cup {e}
    BY <1>n, <2>2 DEF Waiting
  <2>5. \A i, j \in 1 .. Len(queue') : queue'[i] = queue'[j] => i = j
    BY <1>n, <2>2
  <2>6. EveryEventAccountedFor'
    <3>1. Cardinality(captured') =
            Len(queue') + Cardinality(Holders') + dropped' + sent' + failed'
      BY <1>1, <1>2, <1>n, <1>u, <2>1, <2>2 DEF EveryEventAccountedFor
    <3>2. Waiting' \cap Held' = {} /\ Waiting' \cup Held' \subseteq captured'
      BY <1>1, <1>3, <1>u, <2>4 DEF EveryEventAccountedFor
    <3>3. \A t, u \in Holders' : holding'[t] = holding'[u] => t = u
      BY <1>1, <1>u DEF EveryEventAccountedFor
    <3> QED
      BY <3>1, <3>2, <3>3, <2>5 DEF EveryEventAccountedFor
  <2> QED
    BY <1>1, <2>3, <2>4, <2>6
<1>5. CASE ~ (Len(queue) < MaxQueueSize) /\ DropOldest
  <2>1. queue' = Append(Tail(queue), e) /\ dropped' = dropped + 1
    BY <1>5 DEF Capture
  <2>2. Len(queue) = MaxQueueSize /\ queue # <<>>
    BY <1>5, <1>n
  <2>3. /\ Tail(queue) \in Seq(Events) /\ Len(Tail(queue)) = Len(queue) - 1
        /\ \A i \in 1 .. Len(queue) - 1 : Tail(queue)[i] = queue[i + 1]
    BY <1>n, <2>2, Shortened
  <2>4. /\ queue' \in Seq(Events)
        /\ Len(queue') = Len(queue)
        /\ \A i \in 1 .. Len(queue) - 1 : queue'[i] = queue[i + 1]
        /\ queue'[Len(queue)] = e
    BY <1>n, <2>1, <2>3, Appended
  <2>5. ClientTypeOK'
    BY <1>n, <1>u, <2>1, <2>4 DEF ClientTypeOK
  <2>6. Waiting' \subseteq Waiting \cup {e}
    BY <1>n, <2>2, <2>4 DEF Waiting
  <2>7. \A i, j \in 1 .. Len(queue') : queue'[i] = queue'[j] => i = j
    BY <1>n, <2>2, <2>4
  <2>8. EveryEventAccountedFor'
    <3>1. Cardinality(captured') =
            Len(queue') + Cardinality(Holders') + dropped' + sent' + failed'
      BY <1>1, <1>2, <1>n, <1>u, <2>1, <2>4 DEF EveryEventAccountedFor
    <3>2. Waiting' \cap Held' = {} /\ Waiting' \cup Held' \subseteq captured'
      BY <1>1, <1>3, <1>u, <2>6 DEF EveryEventAccountedFor
    <3>3. \A t, u \in Holders' : holding'[t] = holding'[u] => t = u
      BY <1>1, <1>u DEF EveryEventAccountedFor
    <3> QED
      BY <3>1, <3>2, <3>3, <2>7 DEF EveryEventAccountedFor
  <2> QED
    BY <1>1, <2>5, <2>6, <2>8
<1>6. CASE ~ (Len(queue) < MaxQueueSize) /\ ~ DropOldest
  <2>1. queue' = queue /\ dropped' = dropped + 1
    BY <1>6 DEF Capture
  <2>2. ClientTypeOK' /\ Waiting' = Waiting
    BY <1>n, <1>u, <2>1 DEF ClientTypeOK, Waiting
  <2>3. EveryEventAccountedFor'
    BY <1>1, <1>2, <1>3, <1>n, <1>u, <2>1, <2>2 DEF EveryEventAccountedFor
  <2> QED
    BY <1>1, <2>2, <2>3
<1> QED BY <1>4, <1>5, <1>6

-----------------------------------------------------------------------------
(* The threads                                                               *)

LEMMA TakeStep ==
  ASSUME ClientInv, NEW t \in Threads, TakeEvent(t)
  PROVE  ClientInv' /\ Waiting' \cup Held' \subseteq Waiting \cup Held
<1> USE DEF ClientInv
<1> DEFINE e == queue[1]
<1>1. /\ queue \in Seq(Events) /\ Len(queue) > 0 /\ e = Head(queue) /\ e \in Events
      /\ queue' \in Seq(Events) /\ Len(queue') = Len(queue) - 1
      /\ \A i \in 1 .. Len(queue') : queue'[i] = queue[i + 1]
  BY Shortened DEF TakeEvent, ClientTypeOK
<1>2. holding[t] = NoEvent /\ holding' = [holding EXCEPT ![t] = e] /\ e # NoEvent
  BY <1>1, ThreadKinds DEF TakeEvent, HoldInv, Sending
<1>3. t \notin Holders /\ Holders' = Holders \cup {t}
  BY <1>2 DEF Holders, ClientTypeOK
<1>4. Cardinality(Holders') = Cardinality(Holders) + 1
  BY <1>3, Counts, FS_AddElement
<1>5. ClientTypeOK' /\ HoldInv'
  <2>1. pc' = [pc EXCEPT ![t] = "first"] /\ UNCHANGED <<captured, counters, closed, http, wire>>
    BY DEF TakeEvent, Goto
  <2>2. Len(queue') <= MaxQueueSize
    BY <1>1, QueueAssumption DEF ClientTypeOK
  <2>3. ClientTypeOK'
    BY <1>1, <1>2, <2>1, <2>2 DEF ClientTypeOK, counters, Sending
  <2>4. HoldInv'
    BY <1>2, <2>1 DEF ClientTypeOK, HoldInv, Sending
  <2> QED BY <2>3, <2>4
<1>6. e \in Waiting /\ Waiting' = Waiting \ {e} /\ Held' = Held \cup {e}
  <2>1. e \in Waiting /\ Waiting' \subseteq Waiting
    BY <1>1 DEF Waiting
  <2>2. e \notin Waiting'
    BY <1>1 DEF Waiting, EveryEventAccountedFor
  <2>3. ASSUME NEW x \in Waiting, x # e PROVE x \in Waiting'
    <3>1. PICK i \in 1 .. Len(queue) : x = queue[i]
      BY <2>3 DEF Waiting
    <3>2. i - 1 \in 1 .. Len(queue') /\ queue'[i - 1] = x
      BY <1>1, <2>3, <3>1
    <3> QED BY <3>2 DEF Waiting
  <2>4. Held' = Held \cup {e}
    BY <1>2, <1>3 DEF Held, ClientTypeOK, Holders
  <2> QED BY <2>1, <2>2, <2>3, <2>4
<1>7. \A i, j \in 1 .. Len(queue') : queue'[i] = queue'[j] => i = j
  BY <1>1 DEF EveryEventAccountedFor
<1>8. \A u, v \in Holders' : holding'[u] = holding'[v] => u = v
  BY <1>2, <1>3, <1>6 DEF EveryEventAccountedFor, Held, ClientTypeOK, Holders
<1>9. EveryEventAccountedFor'
  BY <1>1, <1>4, <1>6, <1>7, <1>8, Counts DEF TakeEvent, EveryEventAccountedFor, ClientTypeOK, counters
<1> QED BY <1>5, <1>6, <1>9

LEMMA SettleStep ==
  ASSUME ClientInv, NEW t \in Threads, pc[t] \in Sending, Settle(t),
         UNCHANGED <<captured, queue, dropped, closed, http, wire>>,
         \/ sent' = sent + 1 /\ failed' = failed
         \/ sent' = sent /\ failed' = failed + 1
  PROVE  /\ ClientInv'
         /\ Waiting' = Waiting /\ Held' = Held \ {holding[t]}
         /\ holding[t] \in Held
<1> USE DEF ClientInv
<1>1. t \in Holders /\ Holders' = Holders \ {t} /\ holding' = [holding EXCEPT ![t] = NoEvent]
  BY DEF Settle, HoldInv, Holders, ClientTypeOK
<1>2. Cardinality(Holders') = Cardinality(Holders) - 1
  BY <1>1, Counts, FS_RemoveElement
<1>3. ClientTypeOK' /\ HoldInv'
  BY <1>1 DEF Settle, Goto, ClientTypeOK, HoldInv, Sending
<1>4. holding[t] \in Held /\ Waiting' = Waiting /\ Held' = Held \ {holding[t]}
  BY <1>1 DEF EveryEventAccountedFor, Held, Waiting, Holders, ClientTypeOK
<1>5. \A u, v \in Holders' : holding'[u] = holding'[v] => u = v
  BY <1>1 DEF EveryEventAccountedFor, ClientTypeOK, Holders
<1>6. EveryEventAccountedFor'
  <2>1. /\ Cardinality(Holders) \in Nat /\ Len(queue) \in Nat
        /\ dropped \in Nat /\ sent \in Nat /\ failed \in Nat
    BY Counts DEF ClientTypeOK
  <2>2. Cardinality(captured') =
          Len(queue') + Cardinality(Holders') + dropped' + sent' + failed'
    BY <1>2, <2>1 DEF EveryEventAccountedFor
  <2> QED
    BY <1>4, <1>5, <2>2 DEF EveryEventAccountedFor
<1> QED BY <1>3, <1>4, <1>6

LEMMA OtherStep ==
  ASSUME ClientInv, ClientTypeOK', HoldInv',
         UNCHANGED <<captured, queue, counters, holding>>
  PROVE  ClientInv' /\ Waiting' = Waiting /\ Held' = Held
<1>1. Holders' = Holders /\ Held' = Held /\ Waiting' = Waiting
  BY DEF Holders, Held, Waiting
<1>2. EveryEventAccountedFor'
  BY <1>1 DEF ClientInv, EveryEventAccountedFor, counters
<1> QED
  BY <1>1, <1>2 DEF ClientInv

LEMMA RunStep ==
  ASSUME ClientInv, NEW t \in Threads, Run(t)
  PROVE  ClientInv' /\ Waiting' \cup Held' \subseteq Waiting \cup Held
<1>1. CASE TakeEvent(t)
  BY <1>1, TakeStep
<1>2. ASSUME \/ StartFlush(t) \/ EndFlush(t) \/ StartClose(t) \/ Stop(t) \/ Join(t)
             \/ CloseHttp(t)
      PROVE  ClientTypeOK' /\ HoldInv' /\ UNCHANGED <<captured, queue, counters, holding>>
  BY <1>2
  DEF ClientInv, ClientTypeOK, HoldInv, Sending, Goto, counters, StartFlush, EndFlush,
      AfterFlush, StartClose, Stop, Join, CloseHttp
<1>3. ASSUME Post(t)
      PROVE  ClientTypeOK' /\ HoldInv' /\ UNCHANGED <<captured, queue, counters, holding>>
  <2>1. holding[t] \in Events /\ Attempt(t) \in {1, 2}
    BY <1>3 DEF Post, ClientInv, ClientTypeOK, HoldInv, Sending, Attempt
  <2> QED
    BY <1>3, <2>1 DEF Post, ClientInv, ClientTypeOK, HoldInv, Sending, Goto, counters
<1> QED
  BY <1>1, <1>2, <1>3, OtherStep DEF Run

LEMMA AnswerStep ==
  ASSUME ClientInv, NEW t \in Threads, Answer(t)
  PROVE  /\ ClientInv' /\ Waiting' \cup Held' \subseteq Waiting \cup Held
         /\ captured' = captured
<1>1. CASE Accepted(t)
  BY <1>1, SettleStep DEF Accepted, Sending
<1>2. CASE Refused(t)
  BY <1>2, SettleStep DEF Refused, Sending
<1>3. CASE Transient(t)
  <2>1. CASE pc[t] \in {"first", "first_sent"}
    <3>1. ClientTypeOK' /\ HoldInv' /\ UNCHANGED <<captured, queue, counters, holding>>
      BY <1>3, <2>1 DEF Transient, ClientInv, ClientTypeOK, HoldInv, Sending, Goto, counters
    <3> QED
      BY <3>1, OtherStep
  <2>2. CASE pc[t] \in {"retry", "retry_sent"}
    BY <1>3, <2>2, SettleStep DEF Transient, Sending
  <2> QED BY <1>3, <2>1, <2>2 DEF Transient, Sending
<1> QED BY <1>1, <1>2, <1>3 DEF Answer

LEMMA ExitStep ==
  ASSUME ClientInv, StopWorker \/ UNCHANGED client
  PROVE  ClientInv' /\ Waiting' = Waiting /\ Held' = Held
<1>1. ClientTypeOK' /\ HoldInv' /\ UNCHANGED <<captured, queue, counters, holding>>
  BY ThreadKinds
  DEF StopWorker, client, ClientInv, ClientTypeOK, HoldInv, Sending, Goto, counters
<1> QED
  BY <1>1, OtherStep

LEMMA ClientStepInv == ClientInv /\ [ClientNext]_client => ClientInv'
BY CaptureStep, RunStep, AnswerStep, ExitStep DEF ClientNext

(* Conservation of events, in the client alone: whatever the backend answers  *)
(* or does not, each captured event is queued, held by one thread, or counted *)
(* once.                                                                      *)
THEOREM ClientConserves == ClientSpec => []EveryEventAccountedFor
<1>1. ClientInv => EveryEventAccountedFor
  BY DEF ClientInv
<1> QED
  BY <1>1, ClientInitInv, ClientStepInv, PTL DEF ClientSpec

-----------------------------------------------------------------------------
(* The pipeline: client and endpoint together.                               *)

StoredEvents == {e \in Events : \E n \in {1, 2} : <<e, n>> \in rows}

(* Events that are still to be captured, sent or given up.                    *)
Unsettled == Waiting \cup Held \cup (Events \ captured)

(* What the endpoint answered as accepted is stored.                          *)
ApiInv ==
  /\ rows \subseteq Posts
  /\ status \in [Posts -> {"unsent", "open", "stored", "accepted", "refused", "failed"}]
  /\ \A p \in Posts : status[p] \in {"stored", "accepted"} => p \in rows

(* The events counted as sent are among those stored and settled.             *)
SentInv == sent \in Nat /\ sent <= Cardinality(StoredEvents \ Unsettled)

PipelineInv == ClientInv /\ ApiInv /\ SentInv

LEMMA SettledFinite ==
  /\ IsFiniteSet(StoredEvents \ Unsettled)
  /\ Cardinality(StoredEvents \ Unsettled) \in Nat
<1>1. StoredEvents \ Unsettled \subseteq Events
  BY DEF StoredEvents
<1> QED
  BY <1>1, ThreadKinds, FS_Subset, FS_CardinalityType

LEMMA SentKept ==
  ASSUME SentInv, sent' = sent,
         StoredEvents \subseteq StoredEvents', Unsettled' \subseteq Unsettled
  PROVE  SentInv'
<1>1. StoredEvents \ Unsettled \subseteq StoredEvents' \ Unsettled'
  OBVIOUS
<1>2. /\ IsFiniteSet(StoredEvents' \ Unsettled')
      /\ Cardinality(StoredEvents' \ Unsettled') \in Nat
  <2>1. StoredEvents' \ Unsettled' \subseteq Events
    BY DEF StoredEvents
  <2> QED
    BY <2>1, ThreadKinds, FS_Subset, FS_CardinalityType
<1>3. Cardinality(StoredEvents \ Unsettled) <= Cardinality(StoredEvents' \ Unsettled')
  BY <1>1, <1>2, FS_Subset
<1> QED
  BY <1>2, <1>3, SettledFinite DEF SentInv

LEMMA ApiStep ==
  ASSUME PipelineInv, NEW p \in Posts, Deliver(p) \/ Serve(p)
  PROVE  PipelineInv'
<1>1. ClientInv' /\ Waiting' = Waiting /\ Held' = Held /\ UNCHANGED <<sent, captured>>
  BY ExitStep DEF Deliver, Serve, PipelineInv, client, counters
<1>2. ApiInv' /\ rows \subseteq rows'
  BY DEF PipelineInv, ApiInv, Deliver, Serve, API!Take, API!Refuse, API!Store, API!Accept,
         API!Fail, API!Become
<1>3. StoredEvents \subseteq StoredEvents' /\ Unsettled' = Unsettled
  BY <1>1, <1>2 DEF StoredEvents, Unsettled
<1> QED
  BY <1>1, <1>2, <1>3, SentKept DEF PipelineInv

LEMMA ClientKeepsSent ==
  ASSUME PipelineInv, ClientInv', UNCHANGED <<api, sent>>, Unsettled' \subseteq Unsettled
  PROVE  PipelineInv'
<1>1. ApiInv' /\ StoredEvents' = StoredEvents
  BY DEF PipelineInv, ApiInv, api, StoredEvents
<1> QED
  BY <1>1, SentKept DEF PipelineInv

LEMMA CapturePipeline ==
  ASSUME PipelineInv, NEW e \in Events, CaptureEvent(e)
  PROVE  PipelineInv'
<1>1. /\ ClientInv' /\ Waiting' \cup Held' \subseteq Waiting \cup Held \cup {e}
      /\ captured' = captured \cup {e} /\ e \notin captured /\ UNCHANGED <<api, sent>>
  BY CaptureStep DEF CaptureEvent, Capture, PipelineInv
<1>2. Unsettled' \subseteq Unsettled
  BY <1>1 DEF Unsettled
<1> QED
  BY <1>1, <1>2, ClientKeepsSent

LEMMA RunPipeline ==
  ASSUME PipelineInv, NEW t \in Threads, RunThread(t)
  PROVE  PipelineInv'
<1>1. /\ ClientInv' /\ Waiting' \cup Held' \subseteq Waiting \cup Held
      /\ UNCHANGED <<api, sent, captured>>
  BY RunStep
  DEF RunThread, PipelineInv, Run, StartFlush, TakeEvent, EndFlush, Post, Join, CloseHttp,
      StartClose, Stop, counters
<1>2. Unsettled' \subseteq Unsettled
  BY <1>1 DEF Unsettled
<1> QED
  BY <1>1, <1>2, ClientKeepsSent

(* A 2xx: the event leaves the thread's hands, and has a row.                  *)
LEMMA AcceptedPipeline ==
  ASSUME PipelineInv, NEW t \in Threads, Accepted(t), AnswerOf(t) = "accepted", UNCHANGED api
  PROVE  PipelineInv'
<1> DEFINE e == holding[t]
<1>1. /\ ClientInv' /\ Waiting' = Waiting /\ Held' = Held \ {e} /\ e \in Held
      /\ sent' = sent + 1 /\ captured' = captured
  BY SettleStep DEF Accepted, Sending, PipelineInv
<1>2. e \in Events /\ Attempt(t) \in {1, 2} /\ e \in captured /\ e \notin Waiting
  <2>1. e \in captured /\ e \notin Waiting
    BY <1>1 DEF PipelineInv, ClientInv, EveryEventAccountedFor
  <2> QED
    BY <2>1 DEF PipelineInv, ClientInv, ClientTypeOK, Attempt
<1>3. e \in StoredEvents
  <2>1. <<e, Attempt(t)>> \in Posts /\ status[<<e, Attempt(t)>>] = "accepted"
    BY <1>2 DEF Posts, AnswerOf
  <2>2. <<e, Attempt(t)>> \in rows
    BY <2>1 DEF PipelineInv, ApiInv
  <2> QED
    BY <1>2, <2>2 DEF StoredEvents
<1>4. StoredEvents' = StoredEvents /\ Unsettled' = Unsettled \ {e} /\ e \in Unsettled
  BY <1>1, <1>2 DEF StoredEvents, Unsettled, api
<1>5. /\ StoredEvents' \ Unsettled' = (StoredEvents \ Unsettled) \cup {e}
      /\ e \notin StoredEvents \ Unsettled
  BY <1>3, <1>4
<1>6. Cardinality(StoredEvents' \ Unsettled') = Cardinality(StoredEvents \ Unsettled) + 1
  BY <1>5, SettledFinite, FS_AddElement
<1>7. SentInv'
  BY <1>1, <1>6, SettledFinite DEF PipelineInv, SentInv
<1>8. ApiInv'
  BY DEF PipelineInv, ApiInv, api
<1> QED BY <1>1, <1>7, <1>8 DEF PipelineInv

LEMMA AnswerPipeline ==
  ASSUME PipelineInv, NEW t \in Threads, TakeAnswer(t) \/ GiveUp(t)
  PROVE  PipelineInv'
<1>1. CASE AnswerOf(t) = "accepted" /\ Accepted(t) /\ UNCHANGED api
  BY <1>1, AcceptedPipeline
<1>2. CASE (Refused(t) \/ Transient(t)) /\ UNCHANGED api
  <2>1. /\ ClientInv' /\ Waiting' \cup Held' \subseteq Waiting \cup Held
        /\ UNCHANGED <<captured, sent>>
    BY <1>2, AnswerStep DEF PipelineInv, Answer, Refused, Transient
  <2>2. Unsettled' \subseteq Unsettled
    BY <2>1 DEF Unsettled
  <2> QED
    BY <1>2, <2>1, <2>2, ClientKeepsSent
<1> QED
  BY <1>1, <1>2 DEF TakeAnswer, GiveUp

LEMMA PipelineStep == PipelineInv /\ [Next]_vars => PipelineInv'
<1> SUFFICES ASSUME PipelineInv, [Next]_vars PROVE PipelineInv'
  OBVIOUS
<1>1. ASSUME ExitWorker \/ UNCHANGED vars PROVE PipelineInv'
  <2>1. ClientInv' /\ Waiting' = Waiting /\ Held' = Held /\ UNCHANGED <<api, sent, captured>>
    BY <1>1, ExitStep DEF ExitWorker, vars, PipelineInv, StopWorker, client, counters
  <2>2. Unsettled' \subseteq Unsettled
    BY <2>1 DEF Unsettled
  <2> QED
    BY <2>1, <2>2, ClientKeepsSent
<1> QED
  BY <1>1, ApiStep, CapturePipeline, RunPipeline, AnswerPipeline DEF Next

LEMMA PipelineInit == Init => PipelineInv
<1> SUFFICES ASSUME Init PROVE PipelineInv
  OBVIOUS
<1>1. ClientInv
  BY ClientInitInv DEF Init
<1>2. ApiInv
  BY DEF Init, API!Init, ApiInv
<1>3. SentInv
  BY SettledFinite DEF Init, ClientInit, SentInv
<1> QED BY <1>1, <1>2, <1>3 DEF PipelineInv

(* What the client counts as sent is stored, for any number of events, threads *)
(* and lost answers: the events that an accepted post settled are stored and   *)
(* leave the client's hands for good, so each is counted for a row of its own. *)
THEOREM SentIsStoredHolds == Spec => []SentIsStored
<1>1. PipelineInv => SentIsStored
  <2> SUFFICES ASSUME PipelineInv PROVE sent <= Cardinality(StoredEvents)
    BY DEF SentIsStored, StoredEvents
  <2>1. StoredEvents \subseteq Events
    BY DEF StoredEvents
  <2>2. IsFiniteSet(StoredEvents) /\ Cardinality(StoredEvents) \in Nat
    BY <2>1, ThreadKinds, FS_Subset, FS_CardinalityType
  <2>3. Cardinality(StoredEvents \ Unsettled) <= Cardinality(StoredEvents)
    BY <2>2, FS_Subset
  <2> QED
    BY <2>2, <2>3, SettledFinite DEF PipelineInv, SentInv
<1> QED
  BY <1>1, PipelineInit, PipelineStep, PTL DEF Spec

(* Type correctness of client and endpoint, the bound of the queue included:  *)
(* it never holds more than max_queue_size events, whoever captures and        *)
(* flushes at once.                                                           *)
THEOREM PipelineTyped == Spec => []TypeOK
<1>1. PipelineInv => TypeOK
  BY DEF PipelineInv, ClientInv, ApiInv, TypeOK
<1> QED
  BY <1>1, PipelineInit, PipelineStep, PTL DEF Spec

(* Conservation of events holds in the composition as well.                   *)
THEOREM PipelineConserves == Spec => []EveryEventAccountedFor
<1>1. PipelineInv => EveryEventAccountedFor
  BY DEF PipelineInv, ClientInv
<1> QED
  BY <1>1, PipelineInit, PipelineStep, PTL DEF Spec
=============================================================================
