------------------------------ MODULE MCCalls ------------------------------
(***************************************************************************)
(* Bounds for ProtectedCalls, IngestKeys, DetectorIncidents, ProtectNotices. *)
(* They share no state; a behaviour is of one, the others stay as they are. *)
(***************************************************************************)
EXTENDS ProtectedCalls, IngestKeys, DetectorIncidents, ProtectNotices, TLC

CONSTANTS t1, t2, n1, n2, n3

VARIABLE part      (* the machine that moves                                 *)

MCThreads == {t1, t2}
MCShortOf70 == {90}

Caps(slot, cap) == [s \in AllSlots |-> IF s = slot THEN cap ELSE None]
Request(provider, slot, cap, input, async) ==
  [provider |-> provider, input |-> input, caps |-> Caps(slot, cap), given |-> {slot},
   positional |-> FALSE, content |-> FALSE, frozen |-> FALSE, async |-> async]

OpenAISync == Request("openai", "kw.max_tokens", 10, 4, FALSE)
OpenAIOther == Request("openai", "kw.max_output_tokens", 48, 14, TRUE)
AnthropicSync == [Request("anthropic", "arg.max_tokens", 48, 14, FALSE) EXCEPT !.positional = TRUE]
AnthropicNoCap == Request("anthropic", "kw.max_tokens", None, 14, TRUE)
GoogleDict == [Request("google", "arg.generation_config", 48, 14, FALSE)
                 EXCEPT !.positional = TRUE, !.content = TRUE]
GoogleConfig == Request("google", "kw.config", 48, None, TRUE)
MCRequests ==
  {OpenAISync, OpenAIOther, AnthropicSync, AnthropicNoCap, GoogleDict, GoogleConfig}

Pair(a, b) == (t1 :> a) @@ (t2 :> b)
Alike == Pair(OpenAISync, OpenAISync)
Mixed == Pair(OpenAIOther, AnthropicSync)
Loose == Pair(GoogleDict, AnthropicNoCap)
Unknown == Pair(GoogleConfig, GoogleConfig)
MCWorkloads == {Alike, Mixed, Loose, Unknown}

Limited(mode, maxReq, maxTok) ==
  [enabled |-> TRUE, failMode |-> mode, applyClamp |-> TRUE, maxReq |-> maxReq, maxTok |-> maxTok]
OneOpen == Limited("open", 1, None)
OneClosed == Limited("closed", 1, None)
TokensClosed == Limited("closed", None, 90)
Disabled == [Limited("open", None, None) EXCEPT !.enabled = FALSE]
MCSettings == {OneOpen, OneClosed, TokensClosed, Disabled}

(* Where the calls start: every workload, under the settings it is there for. *)
CallsScenario ==
  \/ work = Alike /\ project \in {OneOpen, OneClosed} /\ constructor = "closed"
  \/ work = Mixed /\ project = TokensClosed /\ constructor = "closed"
  \/ work = Loose /\ project = TokensClosed /\ constructor = "closed"
  \/ work = Unknown /\ project = OneOpen /\ constructor = "open"

(* Bound: four calls of one kind under one set of settings, three otherwise.  *)
CallsBound ==
  calls' <= (IF edits' = 0 /\ work # Mixed THEN MaxCalls ELSE MaxCalls - 1)

MCEpisode == [d \in {"retry_storm", "loop_suspect", "token_explosion"} |-> 1]
EventOf(outcome, total, explosion) ==
  [model |-> "m", stream |-> "s", fingerprint |-> "f", outcome |-> outcome,
   total |-> total, explosion |-> explosion]
MCEventKinds ==
  {EventOf("ok", 5, 20), EventOf("ok", 40, NoTokens), EventOf("ok", 68, NoTokens),
   EventOf("ok", 80, NoTokens), EventOf("retryable", 0, NoTokens)}

(* Bound: with protect on, two ingests may overlap, of two kinds of events,   *)
(* in order; with it off, three follow each other, of all kinds, some late.  *)
DetectorsBound ==
  LET event == log'[Len(log')]
  IN  log' # log =>
        IF protect
        THEN Len(log') <= 2 /\ event.total \in {0, 80} /\ event.ts = 2 * Len(log')
        ELSE /\ \A w \in Ingesters : at[w] = "idle"
             /\ Len(log') = 1 => event.ts = 2

(* Bound: one notice without a marker, made before the clock moves, and two   *)
(* with one; which of these two comes first makes no difference.             *)
NoticesBound ==
  /\ notice'[n3] # notice[n3] => tick = 0 /\ notice'[n3].kind \in {"none", "block", "incident"}
  /\ {notice'[n1].kind, notice'[n2].kind} \cap {"block", "incident"} = {}
  /\ notice'[n2] # Silent => notice'[n1] # Silent

MCInit ==
  /\ CallsInit /\ KeysInit /\ DetectorsInit /\ NoticesInit
  /\ \/ part = "calls" /\ CallsScenario /\ protect
     \/ /\ part \in {"keys", "detectors", "notices"}
        /\ work = Alike /\ project = OneOpen /\ constructor = "open" /\ settled
        /\ part # "detectors" => protect

MCNext ==
  \/ /\ part = "calls" /\ CallsNext /\ CallsBound
     /\ UNCHANGED <<keyVars, detectorVars, noticeVars, part>>
  \/ /\ part = "keys" /\ KeysNext
     /\ UNCHANGED <<callsVars, detectorVars, noticeVars, part>>
  \/ /\ part = "detectors" /\ DetectorsNext /\ DetectorsBound
     /\ UNCHANGED <<callsVars, keyVars, noticeVars, part>>
  \/ /\ part = "notices" /\ NoticesNext /\ NoticesBound
     /\ UNCHANGED <<callsVars, keyVars, detectorVars, part>>

MCSpec == MCInit /\ [][MCNext]_<<callsVars, keyVars, detectorVars, noticeVars, part>>
=============================================================================
