-------------------------- MODULE AnomalyDetectors --------------------------
(***************************************************************************)
(* The three detectors as predicates of a log of one provider's events.    *)
(* The log is in the order of arrival, which is that of created_at; ts is  *)
(* the time the SDK stamped, and late events make the two orders differ.   *)
(***************************************************************************)
EXTENDS Integers, Sequences, FiniteSets

CONSTANTS
  RecentLimit,       (* rows list_recent returns, the newest by ts           *)
  RetryCount, RetryWindow,
  LoopCount, LoopWindow, LoopGap, LoopConcurrency,
  Abs,               (* token_explosion_abs                                  *)
  GrowthCount,       (* token_explosion_growth_count                         *)
  GrowthFloor,       (* token_explosion_growth_min_tokens                    *)
  GrowthConcurrency,
  NoTokens           (* an event without token_explosion_tokens              *)

ASSUME ThresholdsAssumption ==
  /\ {RecentLimit, RetryCount, LoopCount, GrowthCount, GrowthFloor} \subseteq Nat \ {0}
  /\ {RetryWindow, LoopWindow, LoopGap, LoopConcurrency, Abs, GrowthConcurrency} \subseteq Nat

Outcomes == {"ok", "retryable", "refused"}

(* A retry storm counts a timeout, a 429, a 5xx or a status of error ("retry- *)
(* able"); a loop is made of calls that did not fail in any way.             *)
IsFailure(e) == e.outcome = "retryable"
FailedAtAll(e) == e.outcome # "ok"

Recent(log) ==
  {i \in DOMAIN log : Cardinality({j \in DOMAIN log : log[j].ts > log[i].ts}) < RecentLimit}

RetryStorm(log, recent, e, time) ==
  Cardinality({i \in recent : /\ log[i].model = e.model
                              /\ log[i].created >= time - RetryWindow
                              /\ IsFailure(log[i])})
    >= RetryCount

(* The signal of a request's context: what the SDK estimated, or the total.  *)
ContextTokens(e) == IF e.explosion # NoTokens THEN e.explosion ELSE e.total

SameRequest(e, f) == e.model = f.model /\ e.stream = f.stream
SameSignature(e, f) == SameRequest(e, f) /\ e.fingerprint = f.fingerprint

(* The events of the same stream, but for the current one.                   *)
Others(log, recent, n) == {i \in recent \ {n} : SameRequest(log[i], log[n])}

Latest(log, rows) == CHOOSE i \in rows : \A j \in rows : log[j].ts <= log[i].ts

(* Faulty form: the current event counts among them.                         *)
PreviousOrItself(log, recent, n) ==
  ContextTokens(log[Latest(log, Others(log, recent, n) \cup {n})])

Previous(log, recent, n) ==
  LET rows == Others(log, recent, n)
  IN  IF rows = {} THEN NoTokens ELSE ContextTokens(log[Latest(log, rows)])

LooksLikeGrowth(e, previous) ==
  /\ ContextTokens(e) >= GrowthFloor
  /\ previous = NoTokens \/ ContextTokens(e) > previous

(* The walk from the newest arrival back, over failures, stops at an event   *)
(* too old, of another signature, or too long before the success after it.   *)
Stops(log, recent, e, time, i) ==
  LET later == {j \in recent : j > i /\ ~FailedAtAll(log[j])}
      next == CHOOSE j \in later : \A k \in later : j <= k
  IN  \/ log[i].created < time - LoopWindow
      \/ ~SameSignature(log[i], e)
      \/ later # {} /\ log[next].created - log[i].created > LoopGap

LoopLength(log, recent, e, time) ==
  Cardinality({i \in recent :
                 /\ ~FailedAtAll(log[i])
                 /\ \A j \in recent : j >= i => ~Stops(log, recent, e, time, j)})

(* Many requests at once are parallel work, not a loop.                      *)
LoopSuspect(log, recent, e, previous, requests, time) ==
  LET length == LoopLength(log, recent, e, time)
  IN  /\ ~LooksLikeGrowth(e, previous)
      /\ requests < LoopConcurrency \/ length >= 2 * LoopCount
      /\ length >= LoopCount

(* The current event, and those of the stream whose context is not below the  *)
(* floor; it comes last, and they are in the order of ts, which all differ.  *)
GrowthPoints(log, recent, n) ==
  {i \in Others(log, recent, n) : ContextTokens(log[i]) >= GrowthFloor} \cup {n}

Precedes(log, n, i, j) == i # n /\ (j = n \/ log[i].ts < log[j].ts)

(* Each of the last GrowthCount steps, from a point to the one directly after *)
(* it, is by 1.7 or more.                                                    *)
GrowthHit(log, recent, n, requests, used) ==
  LET points == GrowthPoints(log, recent, n)
      After(i) == {j \in points : Precedes(log, n, i, j)}
  IN  /\ ContextTokens(log[n]) >= GrowthFloor
      /\ Cardinality(points) > GrowthCount
      /\ \A i, j \in points :
           After(i) = After(j) \cup {j} /\ Cardinality(After(i)) <= GrowthCount
           => 10 * ContextTokens(log[j]) >= 17 * ContextTokens(log[i])
      /\ requests > 0 /\ used > 0 /\ requests < GrowthConcurrency

TokenExplosion(log, recent, n, requests, used) ==
  \/ ContextTokens(log[n]) >= Abs
  \/ GrowthHit(log, recent, n, requests, used)

(* DetectorRegistry: what event n is signalled for, in the detectors' order, *)
(* each signal by the fingerprint its incident has.                          *)
Signals(log, n, requests, used, time) ==
  LET e == log[n]
      recent == Recent(log)
  IN  (IF RetryStorm(log, recent, e, time) THEN <<<<"retry_storm", e.model>>>> ELSE <<>>)
      \o (IF LoopSuspect(log, recent, e, Previous(log, recent, n), requests, time)
          THEN <<<<"loop_suspect", e.model, e.stream, e.fingerprint>>>> ELSE <<>>)
      \o (IF TokenExplosion(log, recent, n, requests, used)
          THEN <<<<"token_explosion", e.model>>>> ELSE <<>>)
=============================================================================
