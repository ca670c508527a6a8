---------------------------- MODULE ProtectStore ----------------------------
(***************************************************************************)
(* ProtectActionStore: the Redis record of what each protect request ended *)
(* in, and the hourly counters derived from it, for one project:provider   *)
(* scope.  Every action is one Redis command: the store takes no lock and  *)
(* uses no transaction, so calls that the API's thread pool runs at the    *)
(* same time interleave between any two commands.                          *)
(***************************************************************************)
EXTENDS Integers, FiniteSets

CONSTANTS
  Requests,   (* protect request ids                                        *)
  Calls,      (* calls of finalize_outcome / record_timeout_fallback        *)
  Payloads,   (* the outcomes callers may submit                            *)
  NoRequest,  (* the caller sent no request id                              *)
  NoPayload,  (* no outcome stored                                          *)
  Overlap,    (* two calls for the same request id may run at the same time *)
  Faults,     (* a Redis command may raise                                  *)
  Aging       (* keys reach the end of their time to live                   *)

Decisions == {"allow", "clamp", "block"}
Keys == Decisions \cup {"timeouts"}

LiveReason(d) == CASE d = "allow" -> {"ok"}
                   [] d = "clamp" -> {"token_clamp"}
                   [] d = "block" -> {"cap_breach", "cooldown_active"}

FallbackReason == [timeout_fallback |-> "decision_timeout",
                   unavailable_fallback |-> "decision_unavailable"]

LivePayloads ==
  UNION {[decision : {d}, reason : LiveReason(d), source : {"live"}] : d \in Decisions}

FallbackPayloads ==
  UNION {[decision : {"allow", "block"}, reason : {FallbackReason[s]}, source : {s}]
           : s \in DOMAIN FallbackReason}

(* record_timeout_fallback: timeout health of a project whose protection is *)
(* off; no decision is counted.                                             *)
HealthOnly == [decision |-> "none", reason |-> "decision_timeout", source |-> "timeout_fallback"]

ASSUME PayloadsAssumption ==
  /\ Payloads \subseteq LivePayloads \cup FallbackPayloads
  /\ NoPayload \notin LivePayloads \cup FallbackPayloads \cup {HealthOnly}
ASSUME RequestsAssumption == IsFiniteSet(Requests) /\ NoRequest \notin Requests
ASSUME CallsAssumption == IsFiniteSet(Calls)
ASSUME SwitchAssumption == {Overlap, Faults, Aging} \subseteq BOOLEAN

VARIABLES
  outcome,   (* outcome[r]: the canonical outcome key of request r          *)
  counter,   (* counter[k]: the integer under a counter key, 0 when absent  *)
  life,      (* life[k]: "absent", "persistent" (no TTL set) or "expiring"  *)
  events,    (* members of the timeout-events sorted set                    *)
  last,      (* the last-decision snapshot                                  *)
  pc,        (* pc[c]: the Redis command call c issues next, or its result  *)
  req,       (* req[c]: the request id call c was made for                  *)
  load,      (* load[c]: the payload call c submits                         *)
  seen       (* seen[c]: existing_payload, what GET returned to call c      *)

store == <<outcome, counter, life, events, last>>
vars == <<store, pc, req, load, seen>>

Working == {"get", "drop_read", "drop_write", "drop_timeout_read", "drop_timeout_write",
            "drop_event", "set", "count", "expire", "count_timeout", "expire_timeout",
            "add_event", "last"}
Results == {"finalized", "refused", "recorded"}

TypeOK ==
  /\ outcome \in [Requests -> Payloads \cup {NoPayload}]
  /\ counter \in [Keys -> Int]
  /\ life \in [Keys -> {"absent", "persistent", "expiring"}]
  /\ events \subseteq Requests
  /\ last \in Payloads \cup {NoPayload}
  /\ pc \in [Calls -> {"idle"} \cup Working \cup Results]
  /\ req \in [Calls -> Requests \cup {NoRequest}]
  /\ load \in [Calls -> Payloads \cup {HealthOnly, NoPayload}]
  /\ seen \in [Calls -> Payloads \cup {NoPayload}]

Init ==
  /\ outcome = [r \in Requests |-> NoPayload]
  /\ counter = [k \in Keys |-> 0]
  /\ life = [k \in Keys |-> "absent"]
  /\ events = {}
  /\ last = NoPayload
  /\ pc = [c \in Calls |-> "idle"]
  /\ req = [c \in Calls |-> NoRequest]
  /\ load = [c \in Calls |-> NoPayload]
  /\ seen = [c \in Calls |-> NoPayload]

-----------------------------------------------------------------------------
(* Which of two outcomes of one request prevails.                           *)

SourceRank(source) ==
  CASE source = "live" -> 1
    [] source \in {"timeout_fallback", "unavailable_fallback"} -> 2
    [] OTHER -> 0

(* Faulty form for the mutation tests: the rank check is forgotten.          *)
ReplaceWheneverDifferent(existing, incoming) ==
  existing.decision # incoming.decision \/ existing.reason # incoming.reason

ShouldReplace(existing, incoming) ==
  \/ SourceRank(incoming.source) > SourceRank(existing.source)
  \/ /\ SourceRank(incoming.source) = SourceRank(existing.source)
     /\ \/ existing.decision # incoming.decision
        \/ existing.reason # incoming.reason

-----------------------------------------------------------------------------
(* Counter commands.                                                        *)

Goto(c, to) == pc' = [pc EXCEPT ![c] = to]

(* INCR creates a key without a TTL; so does INCRBY -1.                     *)
Bump(k, by) ==
  /\ counter' = [counter EXCEPT ![k] = @ + by]
  /\ life' = [life EXCEPT ![k] = IF @ = "absent" THEN "persistent" ELSE @]

(* Faulty form: the EXPIRE after the first INCR is forgotten.                *)
IncrementForever(c, k, expire, next) ==
  /\ Bump(k, 1)
  /\ Goto(c, next)

(* INCR, followed by EXPIRE exactly when the new value is 1.                *)
IncrementWithTtl(c, k, expire, next) ==
  /\ Bump(k, 1)
  /\ Goto(c, IF counter[k] + 1 = 1 THEN expire ELSE next)

SetTtl(k) == life' = [life EXCEPT ![k] = IF @ = "absent" THEN @ ELSE "expiring"]

AfterCount(c) ==
  IF load[c].source = "timeout_fallback" THEN "count_timeout" ELSE "last"

AfterTimeoutCount(c) ==
  IF req[c] # NoRequest THEN "add_event"
  ELSE IF load[c] = HealthOnly THEN "recorded" ELSE "last"

AfterDrop(c) ==
  IF seen[c].source = "timeout_fallback" THEN "drop_timeout_read" ELSE "set"

-----------------------------------------------------------------------------
(* finalize_outcome and record_timeout_fallback, command by command.        *)

Running(r) == \E c \in Calls : req[c] = r /\ pc[c] \in Working

Begin(c, r, p, at) ==
  /\ pc[c] = "idle"
  /\ r # NoRequest /\ ~Overlap => ~Running(r)
  /\ Goto(c, at)
  /\ req' = [req EXCEPT ![c] = r]
  /\ load' = [load EXCEPT ![c] = p]
  /\ UNCHANGED <<store, seen>>

StartFinalize(c) ==
  \E r \in Requests \cup {NoRequest}, p \in Payloads :
    Begin(c, r, p, IF r = NoRequest THEN "count" ELSE "get")

StartTimeoutHealth(c) ==
  \E r \in Requests \cup {NoRequest} : Begin(c, r, HealthOnly, "count_timeout")

(* Faulty form: the replaced outcome keeps its counters.                     *)
GetOutcomeKeepingCounters(c) ==
  /\ pc[c] = "get"
  /\ seen' = [seen EXCEPT ![c] = outcome[req[c]]]
  /\ Goto(c, IF \/ outcome[req[c]] = NoPayload
                \/ ShouldReplace(outcome[req[c]], load[c])
             THEN "set" ELSE "refused")
  /\ UNCHANGED <<store, req, load>>

GetOutcome(c) ==
  /\ pc[c] = "get"
  /\ seen' = [seen EXCEPT ![c] = outcome[req[c]]]
  /\ Goto(c, IF outcome[req[c]] = NoPayload THEN "set"
             ELSE IF ShouldReplace(outcome[req[c]], load[c]) THEN "drop_read"
             ELSE "refused")
  /\ UNCHANGED <<store, req, load>>

(* Faulty form: off by one in the guard against a negative counter.          *)
DropReadAboveOne(c) ==
  /\ pc[c] = "drop_read"
  /\ Goto(c, IF counter[seen[c].decision] <= 1 THEN AfterDrop(c) ELSE "drop_write")
  /\ UNCHANGED <<store, req, load, seen>>

DropRead(c) ==
  /\ pc[c] = "drop_read"
  /\ Goto(c, IF counter[seen[c].decision] <= 0 THEN AfterDrop(c) ELSE "drop_write")
  /\ UNCHANGED <<store, req, load, seen>>

DropWrite(c) ==
  /\ pc[c] = "drop_write"
  /\ Bump(seen[c].decision, -1)
  /\ Goto(c, AfterDrop(c))
  /\ UNCHANGED <<outcome, events, last, req, load, seen>>

DropTimeoutRead(c) ==
  /\ pc[c] = "drop_timeout_read"
  /\ Goto(c, IF counter["timeouts"] > 0 THEN "drop_timeout_write" ELSE "drop_event")
  /\ UNCHANGED <<store, req, load, seen>>

DropTimeoutWrite(c) ==
  /\ pc[c] = "drop_timeout_write"
  /\ Bump("timeouts", -1)
  /\ Goto(c, "drop_event")
  /\ UNCHANGED <<outcome, events, last, req, load, seen>>

DropEvent(c) ==
  /\ pc[c] = "drop_event"
  /\ events' = events \ {req[c]}
  /\ Goto(c, "set")
  /\ UNCHANGED <<outcome, counter, life, last, req, load, seen>>

SetOutcome(c) ==
  /\ pc[c] = "set"
  /\ outcome' = [outcome EXCEPT ![req[c]] = load[c]]
  /\ Goto(c, "count")
  /\ UNCHANGED <<counter, life, events, last, req, load, seen>>

Count(c) ==
  /\ pc[c] = "count"
  /\ IncrementWithTtl(c, load[c].decision, "expire", AfterCount(c))
  /\ UNCHANGED <<outcome, events, last, req, load, seen>>

Expire(c) ==
  /\ pc[c] = "expire"
  /\ SetTtl(load[c].decision)
  /\ Goto(c, AfterCount(c))
  /\ UNCHANGED <<outcome, counter, events, last, req, load, seen>>

CountTimeout(c) ==
  /\ pc[c] = "count_timeout"
  /\ IncrementWithTtl(c, "timeouts", "expire_timeout", AfterTimeoutCount(c))
  /\ UNCHANGED <<outcome, events, last, req, load, seen>>

ExpireTimeout(c) ==
  /\ pc[c] = "expire_timeout"
  /\ SetTtl("timeouts")
  /\ Goto(c, AfterTimeoutCount(c))
  /\ UNCHANGED <<outcome, counter, events, last, req, load, seen>>

(* ZADD and the EXPIRE after it: every reader prunes the set by age first,  *)
(* so the TTL of the set itself is never what removes a member.             *)
AddEvent(c) ==
  /\ pc[c] = "add_event"
  /\ events' = events \cup {req[c]}
  /\ Goto(c, IF load[c] = HealthOnly THEN "recorded" ELSE "last")
  /\ UNCHANGED <<outcome, counter, life, last, req, load, seen>>

SetLast(c) ==
  /\ pc[c] = "last"
  /\ last' = load[c]
  /\ Goto(c, "finalized")
  /\ UNCHANGED <<outcome, counter, life, events, req, load, seen>>

(* Faulty form: a failed EXPIRE is retried from the INCR before it.          *)
FaultRetriesIncrement(c) ==
  /\ Faults
  /\ pc[c] \in Working
  /\ Goto(c, IF pc[c] = "expire" THEN "count" ELSE "refused")
  /\ seen' = [seen EXCEPT ![c] = NoPayload]
  /\ UNCHANGED <<store, req, load>>

(* A command raises: finalize_outcome answers (False, None) and leaves what *)
(* it has already written.                                                  *)
Fault(c) ==
  /\ Faults
  /\ pc[c] \in Working
  /\ Goto(c, IF load[c] = HealthOnly THEN "recorded" ELSE "refused")
  /\ seen' = [seen EXCEPT ![c] = NoPayload]
  /\ UNCHANGED <<store, req, load>>

-----------------------------------------------------------------------------
(* The end of a key's time to live.                                         *)

CounterExpires(k) ==
  /\ Aging
  /\ life[k] = "expiring"
  /\ counter' = [counter EXCEPT ![k] = 0]
  /\ life' = [life EXCEPT ![k] = "absent"]
  /\ UNCHANGED <<outcome, events, last, pc, req, load, seen>>

OutcomeExpires(r) ==
  /\ Aging
  /\ outcome[r] # NoPayload
  /\ outcome' = [outcome EXCEPT ![r] = NoPayload]
  /\ UNCHANGED <<counter, life, events, last, pc, req, load, seen>>

EventExpires(r) ==
  /\ Aging
  /\ r \in events
  /\ events' = events \ {r}
  /\ UNCHANGED <<outcome, counter, life, last, pc, req, load, seen>>

LastExpires ==
  /\ Aging
  /\ last # NoPayload
  /\ last' = NoPayload
  /\ UNCHANGED <<outcome, counter, life, events, pc, req, load, seen>>

-----------------------------------------------------------------------------
Step(c) ==
  \/ StartFinalize(c) \/ StartTimeoutHealth(c)
  \/ GetOutcome(c)
  \/ DropRead(c) \/ DropWrite(c)
  \/ DropTimeoutRead(c) \/ DropTimeoutWrite(c) \/ DropEvent(c)
  \/ SetOutcome(c)
  \/ Count(c) \/ Expire(c)
  \/ CountTimeout(c) \/ ExpireTimeout(c) \/ AddEvent(c)
  \/ SetLast(c)
  \/ Fault(c)

Expiry ==
  \/ \E k \in Keys : CounterExpires(k)
  \/ \E r \in Requests : OutcomeExpires(r) \/ EventExpires(r)
  \/ LastExpires

Next == (\E c \in Calls : Step(c)) \/ Expiry

Spec == Init /\ [][Next]_vars
-----------------------------------------------------------------------------
(* Properties.                                                              *)

(* Payload p is counted under key k.                                        *)
Falls(p, k) == IF k = "timeouts" THEN p.source = "timeout_fallback" ELSE p.decision = k

(* Call c has issued its INCR of k.                                         *)
Past(k) ==
  IF k = "timeouts"
  THEN {"expire_timeout", "add_event", "last", "finalized", "recorded"}
  ELSE {"expire", "count_timeout", "expire_timeout", "add_event", "last", "finalized"}

(* Between these two commands the outcome of a request is not counted: its  *)
(* old counters are gone, or its new ones are not there yet.                *)
Flux(k) ==
  IF k = "timeouts"
  THEN {"drop_event", "set", "count", "expire", "count_timeout"}
  ELSE {"drop_timeout_read", "drop_timeout_write", "drop_event", "set", "count"}

InFlux(r, k) == \E c \in Calls : req[c] = r /\ pc[c] \in Flux(k) /\ load[c] # HealthOnly

CountedRequests(k) ==
  {r \in Requests : outcome[r] # NoPayload /\ Falls(outcome[r], k) /\ ~InFlux(r, k)}

(* Calls that count something no request's outcome stands for.              *)
CountedCalls(k) ==
  {c \in Calls : /\ pc[c] \in Past(k)
                 /\ Falls(load[c], k)
                 /\ req[c] = NoRequest \/ load[c] = HealthOnly}

(* _remove_outcome_counters against _apply_outcome_counters: as long as     *)
(* calls for one request do not overlap, calls for different requests may   *)
(* interleave at every command and each counter still is the number of      *)
(* requests (and of calls without a request id) whose final outcome it      *)
(* counts, less those whose update is under way.                            *)
CountersExact ==
  ~Overlap /\ ~Faults /\ ~Aging =>
    \A k \in Keys :
      counter[k] = Cardinality(CountedRequests(k)) + Cardinality(CountedCalls(k))

(* Calls that may have issued an INCR of k; a refused one may have failed   *)
(* after it.                                                                *)
MayHaveCounted(k) ==
  {c \in Calls : /\ pc[c] \in Past(k) \cup (IF Faults THEN {"refused"} ELSE {})
                 /\ Falls(load[c], k)}

(* Whatever overlaps, fails or expires, the hourly counters never show more *)
(* decisions of a kind (or more timeouts) than calls were made with it.     *)
NeverOverCounted == \A k \in Keys : counter[k] <= Cardinality(MayHaveCounted(k))

(* Call c is about to set the TTL of k.                                     *)
AboutToExpire(c, k) ==
  IF k = "timeouts" THEN pc[c] = "expire_timeout"
  ELSE pc[c] = "expire" /\ load[c].decision = k

(* Call c failed with a payload counted under k.                            *)
FailedOn(c, k) == Faults /\ pc[c] \in {"refused", "recorded"} /\ Falls(load[c], k)

(* _increment_with_ttl sets a TTL only on the transition to 1, while other  *)
(* calls decrement, increment and expire the same key: still, a positive    *)
(* counter without a TTL (which would never leave the 60 minute window) has *)
(* a call about to set it, unless the call that should have has failed.     *)
CountersExpire ==
  \A k \in Keys :
    counter[k] > 0 /\ life[k] = "persistent" =>
      \E c \in Calls : AboutToExpire(c, k) \/ FailedOn(c, k)

IsFallback(p) == p \in FallbackPayloads

(* A late live decision never takes the place of a reported fallback: the   *)
(* client has acted on the fallback.                                        *)
FallbackPrevails ==
  [][\A r \in Requests : IsFallback(outcome[r]) => IsFallback(outcome'[r])]_vars

-----------------------------------------------------------------------------
(* Refinement.                                                              *)

(* The tally the contract speaks of: the counters, with every update that   *)
(* is under way completed.                                                  *)
Pending(k) ==
  Cardinality({r \in Requests :
                 outcome[r] # NoPayload /\ Falls(outcome[r], k) /\ InFlux(r, k)})

PendingCalls(k) ==
  IF k # "timeouts" THEN 0
  ELSE Cardinality({c \in Calls : /\ req[c] = NoRequest
                                  /\ pc[c] \in {"expire", "count_timeout"}
                                  /\ load[c] # HealthOnly
                                  /\ Falls(load[c], k)})

SettledTally == [k \in Keys |-> counter[k] + Pending(k) + PendingCalls(k)]

(* What is counted for calls that name no request, or no outcome.           *)
AnonymousTally == [k \in Keys |-> Cardinality(CountedCalls(k)) + PendingCalls(k)]

Contract == INSTANCE ProtectContract WITH
  anonymous <- AnonymousTally, tally <- SettledTally, Tallied <- Falls, Prevails <- ShouldReplace

(* finalize_outcome, run by calls that do not overlap on one request, is    *)
(* the atomic finalization of the contract.                                 *)
ImplementsContract == Contract!Spec
=============================================================================
