---------------------------- MODULE EventIngest ----------------------------
(***************************************************************************)
(* POST /api/v1/events.  A post is handled by a thread of the API: it       *)
(* consults the idempotency key and the rate limit in Redis, stores a row,  *)
(* adds the row's point to two rolling windows, announces a model seen for  *)
(* the first time, and runs the detectors.  An action is one transaction or *)
(* the commands on one Redis key; handlers interleave between actions.      *)
(***************************************************************************)
EXTENDS Integers, FiniteSets

CONSTANTS
  Posts,     (* HTTP requests; the first, the retries and the duplicates     *)
  Events,    (* what the callers report, one Idempotency-Key each            *)
  Models,    (* provider and requested model of an event                     *)
  EventOf,   (* the event a post carries                                     *)
  Keyed,     (* the posts that have an Idempotency-Key header                *)
  ModelOf,
  Limit,     (* ingest_rate_limit_per_minute                                 *)
  Faults     (* commands raise, handlers die, keys expire                    *)

ASSUME PostsAssumption ==
  IsFiniteSet(Posts) /\ EventOf \in [Posts -> Events] /\ Keyed \subseteq Posts
ASSUME ModelsAssumption == ModelOf \in [Events -> Models]
ASSUME LimitAssumption == Limit \in Nat \ {0} /\ Faults \in BOOLEAN

VARIABLES
  marks,      (* events whose idempotency key is set                         *)
  lapses,     (* lapses[e]: times the key of e expired, or its SET raised    *)
  hits,       (* the rate-limit counter of the present minute                *)
  rows,       (* posts whose row is in the events table                      *)
  requests,   (* posts with a point in the request window                    *)
  tokens,     (* posts with a point in the token window                      *)
  old,        (* posts whose points are past the windows' cutoff             *)
  firstSeen,  (* models recorded for the project                             *)
  announced,  (* announced[m]: policy-gap notices enqueued for model m       *)
  step,       (* step[p]: what the handler of post p does next, or its answer *)
  baseline    (* baseline[p]: some model was recorded when p counted them    *)

limits == <<marks, lapses, hits>>
windows == <<requests, tokens, old>>
models == <<firstSeen, announced, baseline>>
vars == <<limits, rows, windows, models, step>>

BeforeRow == {"resolve", "mark", "limit", "store"}
AfterRow == {"count_request", "count_tokens", "count_models", "record_model", "announce",
             "detect"}
Working == BeforeRow \cup AfterRow
Answers == {"accepted", "duplicate", "refused", "failed"}

TypeOK ==
  /\ marks \subseteq Events
  /\ lapses \in [Events -> Nat]
  /\ hits \in Nat
  /\ rows \subseteq Posts
  /\ requests \subseteq Posts
  /\ tokens \subseteq Posts
  /\ old \subseteq Posts
  /\ firstSeen \subseteq Models
  /\ announced \in [Models -> Nat]
  /\ step \in [Posts -> {"unsent"} \cup Working \cup Answers]
  /\ baseline \in [Posts -> BOOLEAN]

Init ==
  /\ marks = {}
  /\ lapses = [e \in Events |-> 0]
  /\ hits = 0
  /\ rows = {}
  /\ requests = {}
  /\ tokens = {}
  /\ old = {}
  /\ firstSeen = {}
  /\ announced = [m \in Models |-> 0]
  /\ step = [p \in Posts |-> "unsent"]
  /\ baseline = [p \in Posts |-> FALSE]

Goto(p, to) == step' = [step EXCEPT ![p] = to]
At(p, here) == step[p] = here

-----------------------------------------------------------------------------
(* ingest_event, the API handler.                                           *)

Receive(p) ==
  /\ At(p, "unsent")
  /\ Goto(p, "resolve")
  /\ UNCHANGED <<limits, rows, windows, models>>

(* 401: no such key, or it was revoked.                                     *)
ResolveKey(p) ==
  /\ At(p, "resolve")
  /\ \/ Goto(p, "refused")
     \/ Goto(p, IF p \in Keyed THEN "mark" ELSE "limit")
  /\ UNCHANGED <<limits, rows, windows, models>>

(* Faulty form: the key is read and left to be set by somebody else.         *)
GetKey(p) ==
  /\ At(p, "mark")
  /\ Goto(p, IF EventOf[p] \in marks THEN "duplicate" ELSE "limit")
  /\ UNCHANGED <<limits, rows, windows, models>>

(* set_nx_ex; the duplicate is answered as accepted.                         *)
SetKey(p) ==
  /\ At(p, "mark")
  /\ IF EventOf[p] \in marks
       THEN Goto(p, "duplicate") /\ UNCHANGED marks
       ELSE Goto(p, "limit") /\ marks' = marks \cup {EventOf[p]}
  /\ UNCHANGED <<lapses, hits, rows, windows, models>>

(* Redis is down: the post is processed all the same.                        *)
SetKeyRaises(p) ==
  /\ Faults
  /\ At(p, "mark")
  /\ lapses' = [lapses EXCEPT ![EventOf[p]] = @ + 1]
  /\ Goto(p, "limit")
  /\ UNCHANGED <<marks, hits, rows, windows, models>>

(* INCR, and EXPIRE of a key no later minute reads.                          *)
CheckRate(p) ==
  /\ At(p, "limit")
  /\ hits' = hits + 1
  /\ Goto(p, IF hits' > Limit THEN "refused" ELSE "store")
  /\ UNCHANGED <<marks, lapses, rows, windows, models>>

CheckRateRaises(p) ==
  /\ Faults
  /\ At(p, "limit")
  /\ hits' \in {hits, hits + 1}
  /\ Goto(p, "store")
  /\ UNCHANGED <<marks, lapses, rows, windows, models>>

-----------------------------------------------------------------------------
(* IngestEventService.ingest.                                               *)

(* Faulty form: an error while storing is logged and passed over.            *)
StoreRowOrLog(p) ==
  /\ At(p, "store")
  /\ rows' \in {rows, rows \cup {p}}
  /\ Goto(p, "count_request")
  /\ UNCHANGED <<limits, windows, models>>

StoreRow(p) ==
  /\ At(p, "store")
  /\ rows' = rows \cup {p}
  /\ Goto(p, "count_request")
  /\ UNCHANGED <<limits, windows, models>>

(* increment_project_60s: ZADD, then the points past the cutoff are removed. *)
CountRequest(p) ==
  /\ At(p, "count_request")
  /\ requests' = (requests \cup {p}) \ old
  /\ Goto(p, "count_tokens")
  /\ UNCHANGED <<limits, rows, tokens, old, models>>

(* Faulty form: the request window is written a second time, not the tokens'. *)
CountTokensAsRequest(p) ==
  /\ At(p, "count_tokens")
  /\ requests' = (requests \cup {p}) \ old
  /\ tokens' = tokens \ old
  /\ Goto(p, "count_models")
  /\ UNCHANGED <<limits, rows, old, models>>

(* The token window, and get_project_60s, which trims both windows.          *)
CountTokens(p) ==
  /\ At(p, "count_tokens")
  /\ requests' = requests \ old
  /\ tokens' = (tokens \cup {p}) \ old
  /\ Goto(p, "count_models")
  /\ UNCHANGED <<limits, rows, old, models>>

(* record_project_model_first_seen: the count, ...                           *)
CountModels(p) ==
  /\ At(p, "count_models")
  /\ baseline' = [baseline EXCEPT ![p] = firstSeen # {}]
  /\ Goto(p, "record_model")
  /\ UNCHANGED <<limits, rows, windows, firstSeen, announced>>

Model(p) == ModelOf[EventOf[p]]

(* Faulty form: every post of another model than the first is announced.     *)
RecordModelAgain(p) ==
  /\ At(p, "record_model")
  /\ firstSeen' = firstSeen \cup {Model(p)}
  /\ Goto(p, IF baseline[p] THEN "announce" ELSE "detect")
  /\ UNCHANGED <<limits, rows, windows, announced, baseline>>

(* ... and the insertion, which the unique constraint refuses for a model    *)
(* already recorded.                                                         *)
RecordModel(p) ==
  /\ At(p, "record_model")
  /\ firstSeen' = firstSeen \cup {Model(p)}
  /\ Goto(p, IF Model(p) \notin firstSeen /\ baseline[p] THEN "announce" ELSE "detect")
  /\ UNCHANGED <<limits, rows, windows, announced, baseline>>

Announce(p) ==
  /\ At(p, "announce")
  /\ announced' = [announced EXCEPT ![Model(p)] = @ + 1]
  /\ Goto(p, "detect")
  /\ UNCHANGED <<limits, rows, windows, firstSeen, baseline>>

(* An error while recording or announcing is logged and passed over.         *)
ModelStepRaises(p) ==
  /\ Faults
  /\ step[p] \in {"count_models", "record_model", "announce"}
  /\ Goto(p, "detect")
  /\ UNCHANGED <<limits, rows, windows, models>>

(* The detectors and IncidentManager.process_signals; 202.                   *)
Detect(p) ==
  /\ At(p, "detect")
  /\ Goto(p, "accepted")
  /\ UNCHANGED <<limits, rows, windows, models>>

(* Anything else that raises ends in a 500, and a handler may die before any  *)
(* step.  A command that took effect and then raised is the command followed  *)
(* by this.                                                                  *)
Fail(p) ==
  /\ Faults
  /\ step[p] \in Working
  /\ Goto(p, "failed")
  /\ UNCHANGED <<limits, rows, windows, models>>

-----------------------------------------------------------------------------
(* Time.                                                                     *)

NextMinute ==
  /\ hits > 0
  /\ hits' = 0
  /\ UNCHANGED <<marks, lapses, rows, windows, models, step>>

PastCutoff(p) ==
  /\ p \in (requests \cup tokens) \ old
  /\ old' = old \cup {p}
  /\ UNCHANGED <<limits, rows, requests, tokens, models, step>>

(* idempotency_ttl_seconds.                                                  *)
KeyExpires(e) ==
  /\ Faults
  /\ e \in marks
  /\ marks' = marks \ {e}
  /\ lapses' = [lapses EXCEPT ![e] = @ + 1]
  /\ UNCHANGED <<hits, rows, windows, models, step>>

Work(p) ==
  \/ ResolveKey(p) \/ SetKey(p) \/ CheckRate(p) \/ StoreRow(p)
  \/ CountRequest(p) \/ CountTokens(p)
  \/ CountModels(p) \/ RecordModel(p) \/ Announce(p) \/ Detect(p)

Upset(p) == SetKeyRaises(p) \/ CheckRateRaises(p) \/ ModelStepRaises(p) \/ Fail(p)

Pass ==
  \/ NextMinute
  \/ \E p \in Posts : PastCutoff(p)
  \/ \E e \in Events : KeyExpires(e)

Next ==
  \/ \E p \in Posts : Receive(p) \/ Work(p) \/ Upset(p)
  \/ Pass

Spec == Init /\ [][Next]_vars
-----------------------------------------------------------------------------
(* Properties.                                                               *)

(* The handler keeps the contract of the endpoint: every step of it, and of   *)
(* time, is a step of the contract or invisible to the caller.                *)
Status(p) ==
  IF step[p] \in BeforeRow THEN "open" ELSE IF step[p] \in AfterRow THEN "stored" ELSE step[p]

Contract == INSTANCE IngestContract WITH status <- [p \in Posts |-> Status(p)]

KeepsContract == Contract!Spec

(* The rolling windows agree with the table: no point without a stored row,  *)
(* and a post answered 202 has both its points until they pass the cutoff,   *)
(* whatever the other handlers store, trim or leave half done.               *)
WindowsMatchRows ==
  /\ requests \cup tokens \subseteq rows
  /\ \A p \in Posts :
       At(p, "accepted") => p \in rows /\ (p \in old \/ p \in requests \cap tokens)

(* The posts of one Idempotency-Key store one row, and one more for each time *)
(* the key could not be relied on (its SET raised, or its TTL ran out).       *)
KeyedRows(e) == {p \in rows : EventOf[p] = e /\ p \in Keyed}
StoredOncePerKey == \A e \in Events : Cardinality(KeyedRows(e)) <= 1 + lapses[e]

(* A model is announced at most once, only when it is recorded, and never the *)
(* project's first one, however the handlers' counts and insertions interleave. *)
GapsAnnouncedOnce ==
  /\ \A m \in Models : announced[m] <= (IF m \in firstSeen THEN 1 ELSE 0)
  /\ firstSeen # {} => \E m \in firstSeen : announced[m] = 0

(* "Same idempotency key should process once": a post answered 202 as a       *)
(* duplicate repeats one that was stored or is being processed.               *)
DuplicateWasProcessed ==
  \A p \in Posts : At(p, "duplicate") =>
    \E q \in Posts \ {p} :
      /\ EventOf[q] = EventOf[p]
      /\ q \in rows \/ step[q] \in Working
=============================================================================
