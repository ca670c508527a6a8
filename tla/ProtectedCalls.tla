--------------------------- MODULE ProtectedCalls ---------------------------
(***************************************************************************)
(* Provider calls under protect mode: threads of one process call through  *)
(* the SDK's wrappers, which ask the backend first, clamp or refuse the    *)
(* call, make it, and post an event of it that moves the project's rolling *)
(* counters.  The threads share one ProtectEngine without a lock; answers  *)
(* get lost or overtake each other; the dashboard edits the project's      *)
(* settings meanwhile.                                                     *)
(***************************************************************************)
EXTENDS ProviderAdapters, FiniteSets

CONSTANTS
  Threads,        (* threads that make wrapped calls, one call at a time     *)
  Worker,         (* the client's background flush thread                    *)
  Requests,       (* the requests they make                                  *)
  Workloads,      (* which request each thread repeats                       *)
  SettingsKinds,  (* what the dashboard may save                             *)
  UncappedUse,    (* tokens a response takes when its call carried no cap    *)
  MaxCalls,       (* bound on the calls of a behaviour                       *)
  MaxEdits,       (* bound on the saves                                      *)
  MaxNow          (* bound on the clock                                      *)

(* The form takes no cap below one.                                         *)
OptCap == (Nat \ {0}) \cup {None}
SettingsType ==
  [enabled : BOOLEAN, failMode : Modes, applyClamp : BOOLEAN,
   maxReq : OptCap, maxTok : OptCap]

ASSUME ThreadsAssumption == IsFiniteSet(Threads)
ASSUME WorkerAssumption == Worker \notin Threads
ASSUME RequestsAssumption == Requests \subseteq RequestType
ASSUME WorkloadsAssumption == Workloads \subseteq [Threads -> Requests]
ASSUME SettingsAssumption == SettingsKinds \subseteq SettingsType
ASSUME UseAssumption == UncappedUse \in Nat
ASSUME BoundsAssumption == {MaxCalls, MaxEdits, MaxNow} \subseteq Nat

Flushers == Threads \cup {Worker}

VARIABLES
  project,      (* the project row's protect settings                         *)
  points,       (* points[p]: the token points in p's window, oldest first    *)
  tokens,       (* tokens[p]: their sum                                       *)
  cooldown,     (* cooldown[p]: until when p is blocked, or None              *)
  work,         (* work[t]: the request thread t makes                        *)
  constructor,  (* protect_fail_mode as the client was constructed            *)
  engineMode,   (* ProtectEngine._fail_mode                                   *)
  engineUntil,  (* ProtectEngine._cooldown_until_ms                           *)
  pc,           (* pc[t]: where thread t's call is                            *)
  call,         (* call[t]: the time it read, its decision, the cap it sent   *)
  queue,        (* events captured, not yet taken to be posted                *)
  held,         (* held[f]: the event f is posting, or None                   *)
  now,
  calls, edits, (* counters of the bounds                                     *)
  outdated,     (* history: the calls whose answer has a replaced fail mode   *)
  settled,      (* history: an answer was learnt after every outdated one     *)
  unmetered,    (* history: a call went out that no request cap was held to   *)
  everOpen      (* history: some party had the fail mode open                 *)

backend == <<project, points, tokens, cooldown>>
client == <<work, constructor>>
engine == <<engineMode, engineUntil>>
threads == <<pc, call>>
outbox == <<queue, held>>
bounds == <<now, calls, edits>>
modeHistory == <<outdated, settled, everOpen>>
callsVars == <<backend, client, engine, threads, outbox, bounds, modeHistory, unmetered>>

Phases == {"idle", "compare", "post", "answer", "elapse", "clear", "report",
           "fall", "decided", "provider", "flush"}
EventType == [provider : Providers, tokens : Nat]
AnswerType ==
  [decision : {"allow", "clamp", "block"}, failMode : Modes, applyClamp : BOOLEAN,
   reason : {"ok", "token_clamp", "cooldown_active", "tok_cap_breach",
             "req_cap_breach", "fail_closed", "decision_unavailable"},
   until : OptNat, recommended : OptNat]

(* at: the time evaluate() read; started: the cooldown the call's block set;  *)
(* budget: the output tokens the backend saw left for the call when it        *)
(* decided with a token cap, an input estimate and clamping on.               *)
NoCall == [at |-> 0, answer |-> None, started |-> None, budget |-> None, cap |-> None]
CallType ==
  [at : Nat, answer : AnswerType \cup {None}, started : OptNat,
   budget : OptInt, cap : OptInt]

CallsTypeOK ==
  /\ project \in SettingsKinds
  /\ points \in [Providers -> Seq(Nat)]
  /\ tokens \in [Providers -> Int]
  /\ cooldown \in [Providers -> OptNat]
  /\ work \in Workloads
  /\ {constructor, engineMode} \subseteq Modes
  /\ engineUntil \in OptNat
  /\ pc \in [Threads -> Phases]
  /\ call \in [Threads -> CallType]
  /\ queue \in Seq(EventType)
  /\ held \in [Flushers -> EventType \cup {None}]
  /\ {now, calls, edits} \subseteq Nat
  /\ outdated \subseteq Threads
  /\ {settled, unmetered, everOpen} \subseteq BOOLEAN

At(t, here) == pc[t] = here
Goto(t, there) == pc' = [pc EXCEPT ![t] = there]
Provider(t) == work[t].provider

(* ProtectEngine.bootstrap, inside the client's constructor: the engine has  *)
(* the project's fail mode, or the constructor's when the request failed.    *)
Bootstrapped ==
  \/ /\ engineMode = project.failMode
     /\ settled = TRUE
  \/ /\ engineMode = constructor
     /\ settled = FALSE

CallsInit ==
  /\ project \in SettingsKinds
  /\ points = [p \in Providers |-> <<>>]
  /\ tokens = [p \in Providers |-> 0]
  /\ cooldown = [p \in Providers |-> None]
  /\ work \in Workloads
  /\ constructor \in Modes
  /\ Bootstrapped
  /\ engineUntil = None
  /\ pc = [t \in Threads |-> "idle"]
  /\ call = [t \in Threads |-> NoCall]
  /\ queue = <<>>
  /\ held = [f \in Flushers |-> None]
  /\ now = 0 /\ calls = 0 /\ edits = 0
  /\ outdated = {}
  /\ unmetered = FALSE
  /\ everOpen = (constructor = "open" \/ project.failMode = "open")

-----------------------------------------------------------------------------
(* ProtectEngine and the backend it asks.                                    *)

(* A wrapper starts a call: it estimates the input, and evaluate() reads the *)
(* time and looks once whether a cooldown is cached.                         *)
Enter(t) ==
  /\ At(t, "idle")
  /\ calls < MaxCalls
  /\ call' = [call EXCEPT ![t].at = now]
  /\ calls' = calls + 1
  /\ Goto(t, IF engineUntil = None THEN "post" ELSE "compare")
  /\ UNCHANGED <<backend, client, engine, outbox, now, edits, modeHistory, unmetered>>

(* The decision of a call that the engine answers itself.                    *)
OwnAnswer(decision, reason) ==
  Answer([failMode |-> engineMode, applyClamp |-> FALSE], decision, reason, None, None)

(* Faulty form: the fallback allows whatever the mode.                       *)
FallbackAnswerOpen(mode) == OwnAnswer("allow", "decision_unavailable")

FallbackAnswer(mode) ==
  IF mode = "closed" THEN OwnAnswer("block", "fail_closed")
  ELSE OwnAnswer("allow", "decision_unavailable")

Decide(t, answer) ==
  /\ call' = [call EXCEPT ![t].answer = answer, ![t].budget = None, ![t].started = None]
  /\ Goto(t, "decided")

FallBack(t, mode) ==
  /\ Decide(t, FallbackAnswer(mode))
  /\ unmetered' = (unmetered \/ FallbackAnswer(mode).decision = "allow")

(* The second read of the cached cooldown.  Another thread may have cleared  *)
(* it since the first: the comparison with None raises, and the client falls *)
(* back by the mode of its constructor.                                      *)
ReadAgain(t) ==
  /\ At(t, "compare")
  /\ IF engineUntil = None THEN FallBack(t, constructor)
     ELSE /\ UNCHANGED unmetered
          /\ IF call[t].at < engineUntil
             THEN Decide(t, OwnAnswer("block", "cooldown_active"))
             ELSE Goto(t, "post") /\ UNCHANGED call
  /\ UNCHANGED <<backend, client, engine, outbox, bounds, modeHistory>>

Evaluated(t) ==
  LET p == Provider(t)
  IN  Decision(project, Context(work[t]), Len(points[p]), tokens[p], cooldown[p], now)

(* What the decision leaves for the call's output: cap - used - input.       *)
Budget(t) ==
  LET ctx == Context(work[t])
  IN  IF /\ project.enabled /\ project.applyClamp
         /\ project.maxTok # None /\ ctx.input # None
      THEN project.maxTok - tokens[Provider(t)] - AtLeast(0, ctx.input)
      ELSE None

(* The endpoint: the counters, the settings and the cooldown give a decision; *)
(* a block of a breached cap starts the cooldown.                            *)
Evaluate(t) ==
  /\ At(t, "post")
  /\ LET answer == Evaluated(t)
         starts == answer.reason \in {"tok_cap_breach", "req_cap_breach"}
     IN  /\ call' = [call EXCEPT ![t].answer = answer, ![t].budget = Budget(t),
                                 ![t].started = IF starts THEN answer.until ELSE None]
         /\ cooldown' = IF starts THEN [cooldown EXCEPT ![Provider(t)] = answer.until]
                        ELSE cooldown
         /\ unmetered' = (unmetered \/ ~project.enabled \/ project.maxReq = None)
  /\ Goto(t, "answer")
  /\ UNCHANGED <<project, points, tokens, client, engine, outbox, bounds, modeHistory>>

(* No answer: the connection failed, the status was an error, or the time    *)
(* ran out, before the backend evaluated the call or after.                  *)
Unanswered(t) ==
  /\ pc[t] \in {"post", "answer"}
  /\ Goto(t, "report")
  /\ outdated' = outdated \ {t}
  /\ UNCHANGED <<backend, client, engine, call, outbox, bounds, settled, everOpen, unmetered>>

(* Faulty form: only an answer that lets the call through is learnt from.    *)
LearntModeOfAllows(t) ==
  IF call[t].answer.decision = "block" THEN engineMode ELSE call[t].answer.failMode

LearntMode(t) == call[t].answer.failMode

(* An answer: the engine takes its fail mode, and caches its cooldown if that *)
(* is still to come.  Without one, it looks whether a cached one is over.    *)
Learn(t) ==
  /\ At(t, "answer")
  /\ engineMode' = LearntMode(t)
  /\ outdated' = outdated \ {t}
  /\ settled' = (settled \/ outdated = {})
  /\ LET until == call[t].answer.until
     IN  IF until # None /\ until > now
         THEN engineUntil' = until /\ Goto(t, "decided")
         ELSE /\ UNCHANGED engineUntil
              /\ Goto(t, IF engineUntil = None THEN "decided" ELSE "elapse")
  /\ UNCHANGED <<backend, client, call, outbox, bounds, everOpen, unmetered>>

(* The second read again: None raises inside evaluate, which reports the     *)
(* decision it has just got as unavailable.                                  *)
Elapse(t) ==
  /\ At(t, "elapse")
  /\ Goto(t, IF engineUntil = None THEN "report"
             ELSE IF now >= engineUntil THEN "clear" ELSE "decided")
  /\ UNCHANGED <<backend, client, engine, call, outbox, bounds, modeHistory, unmetered>>

(* The cached cooldown is dropped, also one another thread just cached.      *)
ClearCache(t) ==
  /\ At(t, "clear")
  /\ engineUntil' = None
  /\ Goto(t, "decided")
  /\ UNCHANGED <<backend, client, engineMode, call, outbox, bounds, modeHistory, unmetered>>

(* The report of a timeout or failure, when it arrives: if the project's mode *)
(* lets the call through, a block recorded for it is taken back, and with it  *)
(* the cooldown it started.                                                  *)
Report(t) ==
  /\ At(t, "report")
  /\ cooldown' =
       IF /\ project.enabled /\ project.failMode = "open"
          /\ call[t].started # None /\ cooldown[Provider(t)] = call[t].started
       THEN [cooldown EXCEPT ![Provider(t)] = None] ELSE cooldown
  /\ Goto(t, "fall")
  /\ UNCHANGED <<project, points, tokens, client, engine, call, outbox, bounds,
                 modeHistory, unmetered>>

ReportLost(t) ==
  /\ At(t, "report")
  /\ Goto(t, "fall")
  /\ UNCHANGED <<backend, client, engine, call, outbox, bounds, modeHistory, unmetered>>

(* _fallback_decision, by the mode the engine has by now.                    *)
Fall(t) ==
  /\ At(t, "fall")
  /\ FallBack(t, engineMode)
  /\ UNCHANGED <<backend, client, engine, outbox, bounds, modeHistory>>

-----------------------------------------------------------------------------
(* The wrappers.                                                             *)

(* A block raises RHEONICBlockedError: no provider call and no event.        *)
Refuse(t) ==
  /\ At(t, "decided") /\ call[t].answer.decision = "block"
  /\ Goto(t, "idle")
  /\ call' = [call EXCEPT ![t] = NoCall]
  /\ UNCHANGED <<backend, client, engine, outbox, bounds, modeHistory, unmetered>>

(* The call goes to the provider, with the clamp applied.                    *)
Send(t) ==
  /\ At(t, "decided") /\ call[t].answer.decision # "block"
  /\ Goto(t, "provider")
  /\ call' = [call EXCEPT ![t].cap = SentCap(work[t], call[t].answer)]
  /\ UNCHANGED <<backend, client, engine, outbox, bounds, modeHistory, unmetered>>

(* What a response takes when it uses up its cap.                            *)
Used(t) ==
  (IF work[t].input = None THEN 0 ELSE AtLeast(0, work[t].input))
    + (IF call[t].cap = None THEN UncappedUse ELSE AtLeast(0, call[t].cap))

(* Faulty form: the event is left to the background worker.                  *)
CaptureOnly(t, spent) ==
  /\ queue' = Append(queue, [provider |-> Provider(t), tokens |-> spent])
  /\ Goto(t, "idle")
  /\ call' = [call EXCEPT ![t] = NoCall]
  /\ UNCHANGED <<backend, client, engine, held, bounds, modeHistory, unmetered>>

(* capture_event_and_flush: the event is queued, then the thread flushes     *)
(* until it finds the queue empty.                                           *)
Capture(t, spent) ==
  /\ queue' = Append(queue, [provider |-> Provider(t), tokens |-> spent])
  /\ Goto(t, "flush")
  /\ call' = [call EXCEPT ![t] = NoCall]
  /\ UNCHANGED <<backend, client, engine, held, bounds, modeHistory, unmetered>>

Succeed(t) ==
  /\ At(t, "provider")
  /\ \E shape \in UsageShapes : Capture(t, TokensReported(Provider(t), shape, Used(t)))

(* The provider's error is raised again, after an event without tokens.      *)
Fail(t) == At(t, "provider") /\ Capture(t, 0)

(* A coroutine cancelled while it awaits the provider: CancelledError is no  *)
(* Exception, so no event is captured for what the provider did.             *)
Cancel(t) ==
  /\ At(t, "provider")
  /\ Goto(t, "idle")
  /\ call' = [call EXCEPT ![t] = NoCall]
  /\ UNCHANGED <<backend, client, engine, outbox, bounds, modeHistory, unmetered>>

Wrapper(t) == Enter(t) \/ Refuse(t) \/ Send(t) \/ Succeed(t) \/ Fail(t)

Wrapped(t, provider, async) ==
  /\ work[t].provider = provider /\ work[t].async = async
  /\ Wrapper(t) \/ (async /\ Cancel(t))

OpenAICreate(t) == Wrapped(t, "openai", FALSE)
OpenAICreateAsync(t) == Wrapped(t, "openai", TRUE)
AnthropicCreate(t) == Wrapped(t, "anthropic", FALSE)
AnthropicCreateAsync(t) == Wrapped(t, "anthropic", TRUE)
GoogleGenerate(t) == Wrapped(t, "google", FALSE)
GoogleGenerateAsync(t) == Wrapped(t, "google", TRUE)

-----------------------------------------------------------------------------
(* Events on their way to the counters, and the windows they fall out of.    *)

(* A thread in flush(), or the worker's loop, takes the oldest event.        *)
Take(f) ==
  /\ f \in Threads => At(f, "flush")
  /\ held[f] = None /\ queue # <<>>
  /\ held' = [held EXCEPT ![f] = Head(queue)]
  /\ queue' = Tail(queue)
  /\ UNCHANGED <<backend, client, engine, threads, bounds, modeHistory, unmetered>>

(* The backend ingests the event: one more point, now, in its window.        *)
Deliver(f) ==
  /\ held[f] # None
  /\ LET p == held[f].provider
     IN  /\ points' = [points EXCEPT ![p] = Append(@, held[f].tokens)]
         /\ tokens' = [tokens EXCEPT ![p] = @ + held[f].tokens]
  /\ held' = [held EXCEPT ![f] = None]
  /\ UNCHANGED <<project, cooldown, client, engine, threads, queue, bounds,
                 modeHistory, unmetered>>

(* Both attempts to post it failed.                                          *)
Lose(f) ==
  /\ held[f] # None
  /\ held' = [held EXCEPT ![f] = None]
  /\ UNCHANGED <<backend, client, engine, threads, queue, bounds, modeHistory, unmetered>>

EndFlush(t) ==
  /\ At(t, "flush")
  /\ held[t] = None /\ queue = <<>>
  /\ Goto(t, "idle")
  /\ UNCHANGED <<backend, client, engine, call, outbox, bounds, modeHistory, unmetered>>

(* The oldest point of a window passes its cutoff.                           *)
Expire(p) ==
  /\ points[p] # <<>>
  /\ points' = [points EXCEPT ![p] = Tail(@)]
  /\ tokens' = [tokens EXCEPT ![p] = @ - Head(points[p])]
  /\ UNCHANGED <<project, cooldown, client, engine, threads, outbox, bounds,
                 modeHistory, unmetered>>

-----------------------------------------------------------------------------
(* update_project_protect saves all five settings of the form at once.       *)
Save ==
  /\ edits < MaxEdits
  /\ project' \in SettingsKinds \ {project}
  /\ edits' = edits + 1
  /\ everOpen' = (everOpen \/ project'.failMode = "open")
  /\ unmetered' = (unmetered \/ project'.maxReq # project.maxReq)
  /\ IF project'.failMode = project.failMode THEN UNCHANGED <<outdated, settled>>
     ELSE /\ outdated' = {t \in Threads : At(t, "answer")}
          /\ settled' = FALSE
  /\ UNCHANGED <<points, tokens, cooldown, client, engine, threads, outbox, now, calls>>

Tick ==
  /\ now < MaxNow
  /\ now' = now + 1
  /\ UNCHANGED <<backend, client, engine, threads, outbox, calls, edits,
                 modeHistory, unmetered>>

Preflight(t) ==
  \/ ReadAgain(t) \/ Evaluate(t) \/ Unanswered(t) \/ Learn(t) \/ Elapse(t)
  \/ ClearCache(t) \/ Report(t) \/ ReportLost(t) \/ Fall(t)

CallStep(t) ==
  \/ OpenAICreate(t) \/ OpenAICreateAsync(t)
  \/ AnthropicCreate(t) \/ AnthropicCreateAsync(t)
  \/ GoogleGenerate(t) \/ GoogleGenerateAsync(t)

CallsNext ==
  \/ \E t \in Threads : CallStep(t) \/ Preflight(t) \/ EndFlush(t)
  \/ \E f \in Flushers : Take(f) \/ Deliver(f) \/ Lose(f)
  \/ \E p \in Providers : Expire(p)
  \/ Save
  \/ Tick

CallsSpec == CallsInit /\ [][CallsNext]_callsVars

-----------------------------------------------------------------------------
(* Properties.                                                               *)

(* The calls of p let through and not yet in its window: those between their *)
(* decision and their event, and the events queued or being posted.          *)
Outstanding(p) ==
  LET open == {t \in Threads :
                 /\ pc[t] \in {"answer", "elapse", "clear", "decided", "provider"}
                 /\ Provider(t) = p /\ call[t].answer.decision # "block"}
      waiting == {i \in DOMAIN queue : queue[i].provider = p}
      posting == {f \in Flushers : held[f] # None /\ held[f].provider = p}
  IN  Cardinality(open) + Cardinality(waiting) + Cardinality(posting)

(* The request cap is checked against calls already counted, and a call is   *)
(* counted only when its event is ingested.  As each thread flushes before   *)
(* it returns from its call, the cap is exceeded by at most one call for     *)
(* each thread (the background worker can hold one event more), as long as   *)
(* every call was let through by a check of one and the same cap.            *)
OvershootBounded ==
  ~unmetered /\ project.maxReq # None =>
    \A p \in Providers :
      Len(points[p]) + Outstanding(p) <= project.maxReq + Cardinality(Threads)

(* A call that the backend decided with a token cap, clamping and an input   *)
(* estimate goes out with an output cap inside the budget then left, or with *)
(* a cap of one token; but a clamp does not reach every request of Google's. *)
BudgetKept ==
  \A t \in Threads :
    /\ At(t, "provider")
    /\ call[t].budget # None /\ call[t].cap # None
    /\ call[t].cap >= 1 /\ ClampReaches(work[t])
    => call[t].cap <= call[t].budget \/ call[t].cap = 1

(* Bootstrap is there "so timeout fallback matches server-side project mode": *)
(* once the engine has learnt from an answer after every one that was decided *)
(* under an older mode, it falls back by the mode the project has.           *)
FallbackModeCurrent == settled => engineMode = project.failMode

(* With the constructor and the project closed throughout, no call reaches a *)
(* provider that the backend did not let through, whatever answers and       *)
(* reports are lost and however threads race on the engine.                  *)
FailClosedHolds ==
  ~everOpen =>
    \A t \in Threads :
      At(t, "provider") =>
        call[t].answer.decision # "block" /\ call[t].answer.reason \in {"ok", "token_clamp"}
=============================================================================
