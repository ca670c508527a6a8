------------------------- MODULE ProtectStoreProofs -------------------------
(***************************************************************************)
(* Theorems about ProtectStore, for every set of requests, calls and       *)
(* payloads and every setting of Overlap, Faults and Aging.                *)
(***************************************************************************)
EXTENDS ProtectStore, FiniteSetTheorems, TLAPS

(* What a payload is: the only facts about outcomes the proofs use.         *)
LEMMA PayloadShape ==
  /\ \A p \in Payloads : /\ p.decision \in Decisions
                         /\ p.source \in {"live", "timeout_fallback", "unavailable_fallback"}
                         /\ p # NoPayload
                         /\ p # HealthOnly
  /\ NoPayload # HealthOnly
  /\ HealthOnly.decision = "none"
  /\ HealthOnly.source = "timeout_fallback"
<1>1. \A p \in LivePayloads : p.decision \in Decisions /\ p.source = "live"
  BY DEF LivePayloads, Decisions
<1>2. \A p \in FallbackPayloads :
        p.decision \in Decisions /\ p.source \in {"timeout_fallback", "unavailable_fallback"}
  BY DEF FallbackPayloads, FallbackReason, Decisions
<1>3. HealthOnly.decision = "none" /\ HealthOnly.source = "timeout_fallback"
  BY DEF HealthOnly
<1>4. "none" \notin Decisions
  BY DEF Decisions
<1> QED BY <1>1, <1>2, <1>3, <1>4, PayloadsAssumption

(* What the position of a call says about its local variables.              *)
LocalInv ==
  \A c \in Calls :
    /\ pc[c] \in {"get", "drop_read", "drop_write", "drop_timeout_read",
                  "drop_timeout_write", "drop_event", "set", "add_event"}
         => req[c] \in Requests
    /\ pc[c] \in {"get", "drop_read", "drop_write", "drop_timeout_read",
                  "drop_timeout_write", "drop_event", "set", "count", "expire",
                  "last", "finalized"}
         => load[c] \in Payloads
    /\ pc[c] \in {"count_timeout", "expire_timeout", "add_event"}
         => load[c] \in Payloads \cup {HealthOnly} /\ load[c].source = "timeout_fallback"
    /\ pc[c] \in {"drop_read", "drop_write", "drop_timeout_read", "drop_timeout_write",
                  "drop_event"}
         => seen[c] \in Payloads
    /\ pc[c] = "recorded" => load[c] = HealthOnly

LEMMA InitLocal == Init => TypeOK /\ LocalInv
  BY DEF Init, TypeOK, LocalInv, Keys, Decisions

LEMMA StepLocal ==
  ASSUME TypeOK, LocalInv, NEW c \in Calls, Step(c)
  PROVE  TypeOK' /\ LocalInv'
<1> USE DEF TypeOK, LocalInv, Working, Results, store, Goto
<1>0. Decisions \subseteq Keys /\ "timeouts" \in Keys
  BY DEF Keys
<1>1. CASE StartFinalize(c)
  BY <1>1, PayloadShape DEF StartFinalize, Begin
<1>2. CASE StartTimeoutHealth(c)
  BY <1>2, PayloadShape DEF StartTimeoutHealth, Begin
<1>3. CASE GetOutcome(c)
  BY <1>3, PayloadShape DEF GetOutcome
<1>4. CASE DropRead(c)
  BY <1>4, PayloadShape DEF DropRead, AfterDrop
<1>5. CASE DropWrite(c)
  <2>1. seen[c].decision \in Keys
    BY <1>5, <1>0, PayloadShape DEF DropWrite
  <2>2. counter' \in [Keys -> Int] /\ life' \in [Keys -> {"absent", "persistent", "expiring"}]
    BY <1>5, <2>1 DEF DropWrite, Bump
  <2>3. pc' = [pc EXCEPT ![c] = AfterDrop(c)]
    BY <1>5 DEF DropWrite
  <2> QED BY <1>5, <2>2, <2>3, PayloadShape DEF DropWrite, AfterDrop
<1>6. CASE DropTimeoutRead(c)
  BY <1>6, PayloadShape DEF DropTimeoutRead
<1>7. CASE DropTimeoutWrite(c)
  BY <1>7, <1>0, PayloadShape DEF DropTimeoutWrite, Bump
<1>8. CASE DropEvent(c)
  BY <1>8, PayloadShape DEF DropEvent
<1>9. CASE SetOutcome(c)
  BY <1>9, PayloadShape DEF SetOutcome
<1>10. CASE Count(c)
  <2>1. load[c].decision \in Keys /\ load[c] \in Payloads
    BY <1>10, <1>0, PayloadShape DEF Count
  <2>2. counter' \in [Keys -> Int] /\ life' \in [Keys -> {"absent", "persistent", "expiring"}]
    BY <1>10, <2>1 DEF Count, IncrementWithTtl, Bump
  <2>3. \/ pc' = [pc EXCEPT ![c] = "expire"]
        \/ pc' = [pc EXCEPT ![c] = AfterCount(c)]
    BY <1>10 DEF Count, IncrementWithTtl
  <2> QED BY <1>10, <2>1, <2>2, <2>3, PayloadShape DEF Count, AfterCount
<1>11. CASE Expire(c)
  <2>1. life' \in [Keys -> {"absent", "persistent", "expiring"}]
    BY <1>11 DEF Expire, SetTtl
  <2> QED BY <1>11, <2>1, PayloadShape DEF Expire, AfterCount
<1>12. CASE CountTimeout(c)
  <2>2. counter' \in [Keys -> Int] /\ life' \in [Keys -> {"absent", "persistent", "expiring"}]
    BY <1>12, <1>0 DEF CountTimeout, IncrementWithTtl, Bump
  <2>3. \/ pc' = [pc EXCEPT ![c] = "expire_timeout"]
        \/ pc' = [pc EXCEPT ![c] = AfterTimeoutCount(c)]
    BY <1>12 DEF CountTimeout, IncrementWithTtl
  <2> QED BY <1>12, <2>2, <2>3, PayloadShape DEF CountTimeout, AfterTimeoutCount
<1>13. CASE ExpireTimeout(c)
  <2>1. life' \in [Keys -> {"absent", "persistent", "expiring"}]
    BY <1>13 DEF ExpireTimeout, SetTtl
  <2> QED BY <1>13, <2>1, PayloadShape DEF ExpireTimeout, AfterTimeoutCount
<1>14. CASE AddEvent(c)
  BY <1>14, PayloadShape DEF AddEvent
<1>15. CASE SetLast(c)
  BY <1>15, PayloadShape DEF SetLast
<1>16. CASE Fault(c)
  BY <1>16, PayloadShape DEF Fault
<1> QED BY <1>1, <1>2, <1>3, <1>4, <1>5, <1>6, <1>7, <1>8, <1>9, <1>10, <1>11, <1>12,
           <1>13, <1>14, <1>15, <1>16 DEF Step

LEMMA ExpiryLocal ==
  ASSUME TypeOK, LocalInv, Expiry
  PROVE  TypeOK' /\ LocalInv'
  BY DEF Expiry, CounterExpires, OutcomeExpires, EventExpires, LastExpires, TypeOK, LocalInv

(* Type correctness: every command writes values its key may hold and       *)
(* leads to a command of the same function, whatever the other calls do.    *)
THEOREM TypeCorrect == Spec => [](TypeOK /\ LocalInv)
<1>1. Init => TypeOK /\ LocalInv
  BY InitLocal
<1>2. TypeOK /\ LocalInv /\ [Next]_vars => (TypeOK /\ LocalInv)'
  <2> SUFFICES ASSUME TypeOK, LocalInv, [Next]_vars PROVE (TypeOK /\ LocalInv)'
    OBVIOUS
  <2>1. CASE \E c \in Calls : Step(c)
    BY <2>1, StepLocal
  <2>2. CASE Expiry
    BY <2>2, ExpiryLocal
  <2>3. CASE UNCHANGED vars
    BY <2>3 DEF vars, store, TypeOK, LocalInv
  <2> QED BY <2>1, <2>2, <2>3 DEF Next
<1> QED BY <1>1, <1>2, PTL DEF Spec

-----------------------------------------------------------------------------
(* No counter exceeds the calls that may have counted.                      *)

LEMMA CountersAreSubsets ==
  \A k \in Keys : IsFiniteSet(MayHaveCounted(k)) /\ MayHaveCounted(k) \subseteq Calls
  BY CallsAssumption, FS_Subset DEF MayHaveCounted

(* A call that may have counted stays one: only an idle call changes its    *)
(* payload, and no command leads back before the INCR.                      *)
LEMMA CountedStays ==
  ASSUME TypeOK, LocalInv, NEW c \in Calls, Step(c), NEW k \in Keys
  PROVE  MayHaveCounted(k) \subseteq MayHaveCounted(k)'
<1> SUFFICES ASSUME NEW d \in MayHaveCounted(k) PROVE d \in MayHaveCounted(k)'
  OBVIOUS
<1> USE DEF MayHaveCounted, Past, Falls, Goto
<1>1. CASE d # c
  <2>1. pc'[d] = pc[d] /\ load'[d] = load[d]
    BY <1>1 DEF Step, StartFinalize, StartTimeoutHealth, Begin, GetOutcome, DropRead,
      DropWrite, DropTimeoutRead, DropTimeoutWrite, DropEvent, SetOutcome, Count, Expire,
      CountTimeout, ExpireTimeout, AddEvent, SetLast, Fault, IncrementWithTtl, TypeOK
  <2> QED BY <2>1
<1>2. CASE d = c
  <2>1. pc[c] \in {"expire", "count_timeout", "expire_timeout", "add_event", "last",
                   "finalized", "recorded", "refused"}
    BY <1>2
  <2>2. load' = load
    BY <2>1 DEF Step, StartFinalize, StartTimeoutHealth, Begin, GetOutcome, DropRead,
      DropWrite, DropTimeoutRead, DropTimeoutWrite, DropEvent, SetOutcome, Count, Expire,
      CountTimeout, ExpireTimeout, AddEvent, SetLast, Fault
  <2>3. \/ Expire(c) \/ CountTimeout(c) \/ ExpireTimeout(c) \/ AddEvent(c) \/ SetLast(c)
        \/ Fault(c)
    BY <2>1 DEF Step, StartFinalize, StartTimeoutHealth, Begin, GetOutcome, DropRead,
      DropWrite, DropTimeoutRead, DropTimeoutWrite, DropEvent, SetOutcome, Count
  <2>4. CASE Expire(c)
    BY <1>2, <2>2, <2>4 DEF Expire, AfterCount, TypeOK
  <2>5. CASE CountTimeout(c)
    BY <1>2, <2>2, <2>5, PayloadShape
    DEF CountTimeout, IncrementWithTtl, AfterTimeoutCount, TypeOK, Keys, Decisions
  <2>6. CASE ExpireTimeout(c)
    BY <1>2, <2>2, <2>6, PayloadShape
    DEF ExpireTimeout, AfterTimeoutCount, TypeOK, Keys, Decisions
  <2>7. CASE AddEvent(c)
    BY <1>2, <2>2, <2>7, PayloadShape DEF AddEvent, TypeOK, Keys, Decisions
  <2>8. CASE SetLast(c)
    BY <1>2, <2>2, <2>8 DEF SetLast, TypeOK
  <2>9. CASE Fault(c)
    BY <1>2, <2>2, <2>9, PayloadShape DEF Fault, TypeOK, Keys, Decisions
  <2> QED BY <2>3, <2>4, <2>5, <2>6, <2>7, <2>8, <2>9
<1> QED BY <1>1, <1>2

(* Only the INCR of k raises counter k, and the call that issues it was not *)
(* among those that may have counted k.                                     *)
LEMMA CounterGrowth ==
  ASSUME TypeOK, LocalInv, NEW c \in Calls, Step(c), NEW k \in Keys
  PROVE  \/ counter'[k] <= counter[k]
         \/ /\ counter'[k] = counter[k] + 1
            /\ c \in MayHaveCounted(k)' \ MayHaveCounted(k)
<1>1. CASE Count(c)
  <2>1. load[c] \in Payloads /\ load[c].decision \in Decisions
    BY <1>1, PayloadShape DEF Count, LocalInv
  <2>2. CASE k = load[c].decision
    <3>1. counter'[k] = counter[k] + 1
      BY <1>1, <2>2 DEF Count, IncrementWithTtl, Bump, TypeOK
    <3>2. pc'[c] \in {"expire", "count_timeout", "last"} /\ load' = load
      BY <1>1 DEF Count, IncrementWithTtl, Goto, AfterCount, TypeOK
    <3>3. k # "timeouts"
      BY <2>1, <2>2 DEF Decisions
    <3> QED BY <1>1, <2>2, <3>1, <3>2, <3>3 DEF MayHaveCounted, Past, Falls, Count
  <2>3. CASE k # load[c].decision
    BY <1>1, <2>3 DEF Count, IncrementWithTtl, Bump, TypeOK
  <2> QED BY <2>2, <2>3
<1>2. CASE CountTimeout(c)
  <2>1. CASE k = "timeouts"
    <3>1. counter'[k] = counter[k] + 1
      BY <1>2, <2>1 DEF CountTimeout, IncrementWithTtl, Bump, TypeOK
    <3>2. /\ pc'[c] \in {"expire_timeout", "add_event", "recorded", "last"}
          /\ load' = load
      BY <1>2 DEF CountTimeout, IncrementWithTtl, Goto, AfterTimeoutCount, TypeOK
    <3>3. load[c].source = "timeout_fallback"
      BY <1>2 DEF CountTimeout, LocalInv
    <3> QED BY <1>2, <2>1, <3>1, <3>2, <3>3 DEF MayHaveCounted, Past, Falls, CountTimeout
  <2>2. CASE k # "timeouts"
    BY <1>2, <2>2 DEF CountTimeout, IncrementWithTtl, Bump, TypeOK
  <2> QED BY <2>1, <2>2
<1>3. CASE DropWrite(c)
  BY <1>3 DEF DropWrite, Bump, TypeOK
<1>4. CASE DropTimeoutWrite(c)
  BY <1>4 DEF DropTimeoutWrite, Bump, TypeOK
<1>5. CASE ~(Count(c) \/ CountTimeout(c) \/ DropWrite(c) \/ DropTimeoutWrite(c))
  <2>1. counter' = counter
    BY <1>5 DEF Step, StartFinalize, StartTimeoutHealth, Begin, GetOutcome, DropRead,
      DropTimeoutRead, DropEvent, SetOutcome, Expire, ExpireTimeout, AddEvent, SetLast,
      Fault, store
  <2> QED BY <2>1 DEF TypeOK
<1> QED BY <1>1, <1>2, <1>3, <1>4, <1>5

(* The counters of the metrics endpoint never show more decisions of a kind *)
(* than calls were made with it, under overlap, failed commands and expiry. *)
THEOREM NeverOverCountedHolds == Spec => []NeverOverCounted
<1>1. Init => NeverOverCounted
  BY CountersAreSubsets, FS_CardinalityType DEF Init, NeverOverCounted
<1>2. TypeOK /\ LocalInv /\ NeverOverCounted /\ [Next]_vars => NeverOverCounted'
  <2> SUFFICES ASSUME TypeOK, LocalInv, NeverOverCounted, [Next]_vars, NEW k \in Keys
               PROVE  counter'[k] <= Cardinality(MayHaveCounted(k)')
    BY DEF NeverOverCounted
  <2> DEFINE M == MayHaveCounted(k)
  <2>0. /\ IsFiniteSet(M) /\ Cardinality(M) \in Nat
        /\ counter[k] \in Int /\ counter[k] <= Cardinality(M)
    BY CountersAreSubsets, FS_CardinalityType DEF NeverOverCounted, TypeOK
  <2>1. CASE \E c \in Calls : Step(c)
    <3> PICK c \in Calls : Step(c)
      BY <2>1
    <3>1. M \subseteq M'
      BY CountedStays
    <3>2. counter'[k] \in Int /\ IsFiniteSet(M')
      <4>1. M' \subseteq Calls
        BY DEF MayHaveCounted
      <4> QED BY <4>1, StepLocal, CallsAssumption, FS_Subset DEF TypeOK
    <3>3. Cardinality(M) <= Cardinality(M') /\ Cardinality(M') \in Nat
      BY <3>1, <3>2, FS_Subset, FS_CardinalityType
    <3>4. CASE counter'[k] <= counter[k]
      BY <2>0, <3>2, <3>3, <3>4
    <3>5. CASE counter'[k] = counter[k] + 1 /\ c \in M' \ M
      <4>1. Cardinality(M \cup {c}) = Cardinality(M) + 1
        BY <2>0, <3>5, FS_AddElement
      <4>2. M \cup {c} \subseteq M'
        BY <3>1, <3>5
      <4>3. Cardinality(M \cup {c}) <= Cardinality(M')
        BY <3>2, <4>2, FS_Subset
      <4> QED BY <2>0, <3>2, <3>3, <3>5, <4>1, <4>3
    <3> QED BY <3>4, <3>5, CounterGrowth
  <2>2. CASE Expiry
    <3>1. M' = M
      BY <2>2 DEF Expiry, CounterExpires, OutcomeExpires, EventExpires, LastExpires,
        MayHaveCounted
    <3>2. counter'[k] = counter[k] \/ counter'[k] = 0
      BY <2>2 DEF Expiry, CounterExpires, OutcomeExpires, EventExpires, LastExpires, TypeOK
    <3> QED BY <2>0, <3>1, <3>2
  <2>3. CASE UNCHANGED vars
    BY <2>0, <2>3 DEF vars, store, MayHaveCounted
  <2> QED BY <2>1, <2>2, <2>3 DEF Next
<1> QED BY <1>1, <1>2, TypeCorrect, PTL DEF Spec

-----------------------------------------------------------------------------
(* A positive counter without a TTL has a call about to set one.            *)

LifeInv == \A k \in Keys : life[k] = "absent" => counter[k] = 0

ExpiryInv == LifeInv /\ CountersExpire

(* A call that stands for a missing TTL keeps doing so until it sets it.    *)
LEMMA WitnessStays ==
  ASSUME TypeOK, LocalInv, NEW c \in Calls, Step(c), NEW k \in Keys, NEW d \in Calls,
         AboutToExpire(d, k) \/ FailedOn(d, k)
  PROVE  \/ (AboutToExpire(d, k) \/ FailedOn(d, k))'
         \/ life'[k] # "persistent"
<1> USE DEF AboutToExpire, FailedOn, Falls, Goto
<1>1. CASE d # c
  <2>1. pc'[d] = pc[d] /\ load'[d] = load[d]
    BY <1>1 DEF Step, StartFinalize, StartTimeoutHealth, Begin, GetOutcome, DropRead,
      DropWrite, DropTimeoutRead, DropTimeoutWrite, DropEvent, SetOutcome, Count, Expire,
      CountTimeout, ExpireTimeout, AddEvent, SetLast, Fault, IncrementWithTtl, TypeOK
  <2> QED BY <2>1
<1>2. CASE d = c
  <2>1. pc[c] \in {"expire", "expire_timeout"}
    BY <1>2 DEF Step, StartFinalize, StartTimeoutHealth, Begin, GetOutcome, DropRead,
      DropWrite, DropTimeoutRead, DropTimeoutWrite, DropEvent, SetOutcome, Count, Expire,
      CountTimeout, ExpireTimeout, AddEvent, SetLast, Fault, Working
  <2>2. Expire(c) \/ ExpireTimeout(c) \/ Fault(c)
    BY <2>1 DEF Step, StartFinalize, StartTimeoutHealth, Begin, GetOutcome, DropRead,
      DropWrite, DropTimeoutRead, DropTimeoutWrite, DropEvent, SetOutcome, Count,
      CountTimeout, AddEvent, SetLast
  <2>3. CASE Expire(c)
    BY <1>2, <2>3 DEF Expire, SetTtl, TypeOK
  <2>4. CASE ExpireTimeout(c)
    BY <1>2, <2>4 DEF ExpireTimeout, SetTtl, TypeOK
  <2>5. CASE Fault(c)
    BY <1>2, <2>1, <2>5 DEF Fault, TypeOK, LocalInv
  <2> QED BY <2>2, <2>3, <2>4, <2>5
<1> QED BY <1>1, <1>2

(* What one command does to the TTL of k and its counter.                   *)
LEMMA KeyEffect ==
  ASSUME TypeOK, LocalInv, LifeInv, NEW c \in Calls, Step(c), NEW k \in Keys
  PROVE  /\ life'[k] = "absent" => counter'[k] = 0
         /\ counter'[k] > 0 /\ life'[k] = "persistent" =>
              \/ counter[k] > 0 /\ life[k] = "persistent"
              \/ AboutToExpire(c, k)'
<1> USE DEF LifeInv
<1>1. CASE Count(c)
  <2>1. load' = load /\ load[c] \in Payloads /\ load[c].decision \in Decisions
    BY <1>1, PayloadShape DEF Count, LocalInv
  <2>2. CASE k = load[c].decision
    <3>1. k # "timeouts"
      BY <2>1, <2>2 DEF Decisions
    <3>2. /\ counter'[k] = counter[k] + 1
          /\ life'[k] = IF life[k] = "absent" THEN "persistent" ELSE life[k]
      BY <1>1, <2>2 DEF Count, IncrementWithTtl, Bump, TypeOK
    <3>3. counter[k] = 0 => pc'[c] = "expire"
      BY <1>1, <2>2 DEF Count, IncrementWithTtl, Goto, TypeOK
    <3>4. counter[k] \in Int
      BY DEF TypeOK
    <3> QED BY <2>1, <2>2, <3>1, <3>2, <3>3, <3>4 DEF AboutToExpire
  <2>3. CASE k # load[c].decision
    BY <1>1, <2>3 DEF Count, IncrementWithTtl, Bump, TypeOK
  <2> QED BY <2>2, <2>3
<1>2. CASE CountTimeout(c)
  <2>1. CASE k = "timeouts"
    <3>1. /\ counter'[k] = counter[k] + 1
          /\ life'[k] = IF life[k] = "absent" THEN "persistent" ELSE life[k]
      BY <1>2, <2>1 DEF CountTimeout, IncrementWithTtl, Bump, TypeOK
    <3>2. counter[k] = 0 => pc'[c] = "expire_timeout"
      BY <1>2, <2>1 DEF CountTimeout, IncrementWithTtl, Goto, TypeOK
    <3>3. counter[k] \in Int
      BY DEF TypeOK
    <3> QED BY <2>1, <3>1, <3>2, <3>3 DEF AboutToExpire
  <2>2. CASE k # "timeouts"
    BY <1>2, <2>2 DEF CountTimeout, IncrementWithTtl, Bump, TypeOK
  <2> QED BY <2>1, <2>2
<1>3. CASE DropWrite(c) \/ DropTimeoutWrite(c)
  <2>1. PICK j : Bump(j, -1)
    BY <1>3 DEF DropWrite, DropTimeoutWrite
  <2>2. counter[k] \in Int
    BY DEF TypeOK
  <2>3. CASE j = k
    <3>1. /\ counter'[k] = counter[k] - 1
          /\ life'[k] = IF life[k] = "absent" THEN "persistent" ELSE life[k]
      BY <2>1, <2>3 DEF Bump, TypeOK
    <3> QED BY <2>2, <3>1
  <2>4. CASE j # k
    BY <2>1, <2>2, <2>4 DEF Bump, TypeOK
  <2> QED BY <2>3, <2>4
<1>4. CASE Expire(c) \/ ExpireTimeout(c)
  BY <1>4 DEF Expire, ExpireTimeout, SetTtl, TypeOK
<1>5. CASE ~(\/ Count(c) \/ CountTimeout(c) \/ DropWrite(c) \/ DropTimeoutWrite(c)
             \/ Expire(c) \/ ExpireTimeout(c))
  <2>1. counter' = counter /\ life' = life
    BY <1>5 DEF Step, StartFinalize, StartTimeoutHealth, Begin, GetOutcome, DropRead,
      DropTimeoutRead, DropEvent, SetOutcome, AddEvent, SetLast, Fault, store
  <2> QED BY <2>1
<1> QED BY <1>1, <1>2, <1>3, <1>4, <1>5

(* A positive counter leaves the 60 minute window: unless a Redis command   *)
(* failed, it has a TTL or a call is about to set it.                       *)
THEOREM CountersExpireHolds == Spec => []CountersExpire
<1>1. Init => ExpiryInv
  BY DEF Init, ExpiryInv, LifeInv, CountersExpire
<1>2. TypeOK /\ LocalInv /\ ExpiryInv /\ [Next]_vars => ExpiryInv'
  <2> SUFFICES ASSUME TypeOK, LocalInv, ExpiryInv, [Next]_vars PROVE ExpiryInv'
    OBVIOUS
  <2> USE DEF ExpiryInv
  <2>1. CASE \E c \in Calls : Step(c)
    <3> PICK c \in Calls : Step(c)
      BY <2>1
    <3>1. LifeInv'
      BY KeyEffect DEF LifeInv
    <3>2. CountersExpire'
      <4> SUFFICES ASSUME NEW k \in Keys, counter'[k] > 0, life'[k] = "persistent"
                   PROVE  \E d \in Calls : (AboutToExpire(d, k) \/ FailedOn(d, k))'
        BY DEF CountersExpire
      <4>1. CASE AboutToExpire(c, k)'
        BY <4>1
      <4>2. CASE counter[k] > 0 /\ life[k] = "persistent"
        <5> PICK d \in Calls : AboutToExpire(d, k) \/ FailedOn(d, k)
          BY <4>2 DEF CountersExpire
        <5> QED BY WitnessStays
      <4> QED BY <4>1, <4>2, KeyEffect
    <3> QED BY <3>1, <3>2
  <2>2. CASE Expiry
    <3>1. /\ pc' = pc /\ load' = load
          /\ \A k \in Keys : \/ counter'[k] = counter[k] /\ life'[k] = life[k]
                             \/ counter'[k] = 0 /\ life'[k] = "absent"
      BY <2>2 DEF Expiry, CounterExpires, OutcomeExpires, EventExpires, LastExpires, TypeOK
    <3> QED BY <3>1 DEF LifeInv, CountersExpire, AboutToExpire, FailedOn
  <2>3. CASE UNCHANGED vars
    BY <2>3 DEF vars, store, LifeInv, CountersExpire, AboutToExpire, FailedOn
  <2> QED BY <2>1, <2>2, <2>3 DEF Next
<1> QED BY <1>1, <1>2, TypeCorrect, PTL DEF Spec, ExpiryInv

-----------------------------------------------------------------------------
(* The counters are exact as long as no two calls for one request overlap.  *)

Dropping == {"drop_read", "drop_write", "drop_timeout_read", "drop_timeout_write", "drop_event"}

Writing == {"count", "expire", "count_timeout", "expire_timeout", "add_event", "last"}

(* One call at a time works on a request, so what it read is still there    *)
(* when it acts on it and what it wrote is still there when it counts it.   *)
SerialInv ==
  /\ \A c, d \in Calls :
       /\ c # d
       /\ req[c] = req[d] /\ req[c] # NoRequest
       /\ pc[c] \in Working
       => pc[d] \notin Working
  /\ \A c \in Calls :
       /\ pc[c] \in Dropping \cup {"set"} => seen[c] = outcome[req[c]]
       /\ pc[c] \in {"drop_timeout_read", "drop_timeout_write", "drop_event"}
            => seen[c].source = "timeout_fallback"
       /\ pc[c] \in Writing /\ req[c] # NoRequest /\ load[c] # HealthOnly
            => outcome[req[c]] = load[c]
       /\ pc[c] \in {"get"} \cup Dropping \cup {"set"} => load[c] # HealthOnly

LEMMA InitSerial == Init => SerialInv
  BY DEF Init, SerialInv, Working, Dropping, Writing

(* A call that works keeps its request and payload, and every other call    *)
(* keeps its place.                                                         *)
LEMMA OwnMoves ==
  ASSUME TypeOK, NEW c \in Calls, Step(c), ~StartFinalize(c), ~StartTimeoutHealth(c)
  PROVE  /\ pc[c] \in Working
         /\ req' = req /\ load' = load
         /\ \A d \in Calls : d # c => pc'[d] = pc[d] /\ seen'[d] = seen[d]
         /\ outcome' # outcome => SetOutcome(c)
  BY DEF Step, GetOutcome, DropRead, DropWrite, DropTimeoutRead, DropTimeoutWrite,
    DropEvent, SetOutcome, Count, Expire, CountTimeout, ExpireTimeout, AddEvent, SetLast,
    Fault, IncrementWithTtl, Goto, TypeOK, store, Working

LEMMA BeginFacts ==
  ASSUME TypeOK, NEW c \in Calls, StartFinalize(c) \/ StartTimeoutHealth(c)
  PROVE  /\ pc[c] = "idle"
         /\ pc'[c] \in {"get", "count", "count_timeout"}
         /\ ~Overlap /\ req'[c] # NoRequest => ~Running(req'[c])
         /\ pc'[c] = "get" => req'[c] # NoRequest /\ load'[c] \in Payloads
         /\ pc'[c] = "count" => req'[c] = NoRequest
         /\ pc'[c] = "count_timeout" => load'[c] = HealthOnly
         /\ \A d \in Calls : d # c =>
              pc'[d] = pc[d] /\ req'[d] = req[d] /\ load'[d] = load[d]
         /\ UNCHANGED <<store, seen>>
  BY DEF StartFinalize, StartTimeoutHealth, Begin, Goto, TypeOK

LEMMA SerialPreserved ==
  ASSUME TypeOK, LocalInv, SerialInv, ~Overlap, ~Faults, NEW c \in Calls, Step(c)
  PROVE  SerialInv'
<1>1. CASE StartFinalize(c) \/ StartTimeoutHealth(c)
  <2>1. \A d \in Calls : d # c /\ req'[d] = req'[c] /\ req'[c] # NoRequest
          => pc'[d] \notin Working
    BY <1>1, BeginFacts DEF Running
  <2>2. outcome' = outcome /\ seen' = seen
    BY <1>1, BeginFacts DEF store
  <2> QED BY <1>1, <2>1, <2>2, BeginFacts, PayloadShape
          DEF SerialInv, Dropping, Writing, Working
<1>2. CASE ~StartFinalize(c) /\ ~StartTimeoutHealth(c)
  <2>1. \A a, b \in Calls :
          a # b /\ req'[a] = req'[b] /\ req'[a] # NoRequest /\ pc'[a] \in Working
          => pc'[b] \notin Working
    BY <1>2, OwnMoves DEF SerialInv
  <2>2. ASSUME NEW d \in Calls, d # c
        PROVE  /\ pc'[d] \in Dropping \cup {"set"} => seen'[d] = outcome'[req'[d]]
               /\ pc'[d] \in {"drop_timeout_read", "drop_timeout_write", "drop_event"}
                    => seen'[d].source = "timeout_fallback"
               /\ pc'[d] \in Writing /\ req'[d] # NoRequest /\ load'[d] # HealthOnly
                    => outcome'[req'[d]] = load'[d]
               /\ pc'[d] \in {"get"} \cup Dropping \cup {"set"} => load'[d] # HealthOnly
    <3>1. pc'[d] = pc[d] /\ seen'[d] = seen[d] /\ req' = req /\ load' = load
      BY <1>2, <2>2, OwnMoves
    <3>2. CASE outcome' = outcome
      BY <3>1, <3>2 DEF SerialInv
    <3>3. CASE SetOutcome(c)
      <4>1. req[c] \in Requests /\ outcome' = [outcome EXCEPT ![req[c]] = load[c]]
        BY <3>3 DEF SetOutcome, LocalInv
      <4>2. req[d] = req[c] => pc[d] \notin Working
        BY <1>2, <2>2, <4>1, OwnMoves, RequestsAssumption DEF SerialInv
      <4>3. Dropping \cup {"set"} \cup Writing \subseteq Working
        BY DEF Dropping, Writing, Working
      <4>4. pc[d] \in Dropping \cup {"set"} \cup Writing =>
              outcome'[req[d]] = outcome[req[d]]
        BY <4>1, <4>2, <4>3 DEF TypeOK
      <4> QED BY <3>1, <4>4 DEF SerialInv
    <3> QED BY <1>2, <3>2, <3>3, OwnMoves
  <2>3. /\ pc'[c] \in Dropping \cup {"set"} => seen'[c] = outcome'[req'[c]]
        /\ pc'[c] \in {"drop_timeout_read", "drop_timeout_write", "drop_event"}
             => seen'[c].source = "timeout_fallback"
        /\ pc'[c] \in Writing /\ req'[c] # NoRequest /\ load'[c] # HealthOnly
             => outcome'[req'[c]] = load'[c]
        /\ pc'[c] \in {"get"} \cup Dropping \cup {"set"} => load'[c] # HealthOnly
    <3> USE DEF Goto, TypeOK, SerialInv, Dropping, Writing, store
    <3>1. CASE GetOutcome(c)
      BY <3>1 DEF GetOutcome
    <3>2. CASE DropRead(c) \/ DropWrite(c)
      BY <3>2 DEF DropRead, DropWrite, AfterDrop
    <3>3. CASE DropTimeoutRead(c) \/ DropTimeoutWrite(c) \/ DropEvent(c)
      BY <3>3 DEF DropTimeoutRead, DropTimeoutWrite, DropEvent
    <3>4. CASE SetOutcome(c)
      BY <3>4 DEF SetOutcome, LocalInv
    <3>5. CASE Count(c) \/ Expire(c)
      BY <3>5 DEF Count, Expire, IncrementWithTtl, AfterCount
    <3>6. CASE CountTimeout(c) \/ ExpireTimeout(c)
      BY <3>6 DEF CountTimeout, ExpireTimeout, IncrementWithTtl, AfterTimeoutCount
    <3>7. CASE AddEvent(c) \/ SetLast(c)
      BY <3>7 DEF AddEvent, SetLast
    <3> QED BY <1>2, <3>1, <3>2, <3>3, <3>4, <3>5, <3>6, <3>7 DEF Step, Fault
  <2> QED BY <2>1, <2>2, <2>3 DEF SerialInv
<1> QED BY <1>1, <1>2

-----------------------------------------------------------------------------
(* What one command does to a counter and to the sets it should count.      *)

LEMMA FluxIsWork == \A k \in Keys : Flux(k) \subseteq Working /\ Past(k) \subseteq Working \cup Results
  BY DEF Flux, Past, Working, Results

(* Whether a request is in flux only depends on the call working on it.     *)
LEMMA SoleWorker ==
  ASSUME TypeOK, SerialInv, NEW k \in Keys, NEW c \in Calls, pc[c] \in Working,
         req[c] \in Requests
  PROVE  InFlux(req[c], k) <=> pc[c] \in Flux(k) /\ load[c] # HealthOnly
  BY FluxIsWork, RequestsAssumption DEF InFlux, SerialInv

LEMMA SoleWorkerNext ==
  ASSUME TypeOK, SerialInv, NEW k \in Keys, NEW c \in Calls, Step(c),
         ~StartFinalize(c), ~StartTimeoutHealth(c), req[c] \in Requests
  PROVE  InFlux(req[c], k)' <=> pc'[c] \in Flux(k) /\ load[c] # HealthOnly
<1>1. \A d \in Calls : d # c /\ req[d] = req[c] => pc'[d] \notin Flux(k)
  BY OwnMoves, FluxIsWork, RequestsAssumption DEF SerialInv
<1> QED BY <1>1, OwnMoves DEF InFlux

(* Membership of a request in CountedRequests changes only with the call    *)
(* that works on it.                                                        *)
LEMMA OtherRequests ==
  ASSUME TypeOK, LocalInv, NEW k \in Keys, NEW c \in Calls, Step(c),
         ~StartFinalize(c), ~StartTimeoutHealth(c), NEW q \in Requests, q # req[c]
  PROVE  q \in CountedRequests(k)' <=> q \in CountedRequests(k)
<1>1. outcome'[q] = outcome[q]
  BY OwnMoves DEF SetOutcome, TypeOK
<1>2. InFlux(q, k)' <=> InFlux(q, k)
  BY OwnMoves DEF InFlux
<1> QED BY <1>1, <1>2 DEF CountedRequests

OwnCount(c, k) ==
  /\ outcome[req[c]] # NoPayload
  /\ Falls(outcome[req[c]], k)
  /\ ~(pc[c] \in Flux(k) /\ load[c] # HealthOnly)

LEMMA OwnRequest ==
  ASSUME TypeOK, LocalInv, SerialInv, NEW k \in Keys, NEW c \in Calls, Step(c),
         ~StartFinalize(c), ~StartTimeoutHealth(c), req[c] \in Requests
  PROVE  /\ req[c] \in CountedRequests(k) <=> OwnCount(c, k)
         /\ req[c] \in CountedRequests(k)' <=> OwnCount(c, k)'
  BY OwnMoves, SoleWorker, SoleWorkerNext DEF CountedRequests, OwnCount

LEMMA OtherCalls ==
  ASSUME TypeOK, NEW k \in Keys, NEW c \in Calls, Step(c),
         ~StartFinalize(c), ~StartTimeoutHealth(c), NEW d \in Calls, d # c
  PROVE  d \in CountedCalls(k)' <=> d \in CountedCalls(k)
  BY OwnMoves DEF CountedCalls

(* The three effects a command can have on key k.                           *)
Unmoved(k) ==
  /\ CountedRequests(k)' = CountedRequests(k)
  /\ CountedCalls(k)' = CountedCalls(k)
  /\ counter'[k] = counter[k]

Leaves(c, k) ==
  /\ req[c] \in CountedRequests(k)
  /\ CountedRequests(k)' = CountedRequests(k) \ {req[c]}
  /\ CountedCalls(k)' = CountedCalls(k)
  /\ counter'[k] = counter[k] - 1

Enters(c, k) ==
  /\ counter'[k] = counter[k] + 1
  /\ \/ /\ req[c] \notin CountedRequests(k)
        /\ CountedRequests(k)' = CountedRequests(k) \cup {req[c]}
        /\ CountedCalls(k)' = CountedCalls(k)
     \/ /\ c \notin CountedCalls(k)
        /\ CountedRequests(k)' = CountedRequests(k)
        /\ CountedCalls(k)' = CountedCalls(k) \cup {c}

Effect(c, k) == Unmoved(k) \/ Leaves(c, k) \/ Enters(c, k)

(* The sets in terms of the acting call alone.                              *)
LEMMA SetsByActor ==
  ASSUME TypeOK, LocalInv, SerialInv, NEW k \in Keys, NEW c \in Calls, Step(c),
         ~StartFinalize(c), ~StartTimeoutHealth(c)
  PROVE  /\ req[c] = NoRequest \/ (OwnCount(c, k)' <=> OwnCount(c, k))
              => CountedRequests(k)' = CountedRequests(k)
         /\ req[c] # NoRequest /\ OwnCount(c, k) /\ ~OwnCount(c, k)'
              => /\ req[c] \in CountedRequests(k)
                 /\ CountedRequests(k)' = CountedRequests(k) \ {req[c]}
         /\ req[c] # NoRequest /\ ~OwnCount(c, k) /\ OwnCount(c, k)'
              => /\ req[c] \notin CountedRequests(k)
                 /\ CountedRequests(k)' = CountedRequests(k) \cup {req[c]}
         /\ (c \in CountedCalls(k)' <=> c \in CountedCalls(k))
              => CountedCalls(k)' = CountedCalls(k)
         /\ c \notin CountedCalls(k) /\ c \in CountedCalls(k)'
              => CountedCalls(k)' = CountedCalls(k) \cup {c}
<1>1. req[c] \in Requests \cup {NoRequest}
  BY DEF TypeOK
<1>2. CountedRequests(k) \subseteq Requests /\ CountedRequests(k)' \subseteq Requests
  BY DEF CountedRequests
<1>3. CountedCalls(k) \subseteq Calls /\ CountedCalls(k)' \subseteq Calls
  BY DEF CountedCalls
<1>4. \A q \in Requests : q # req[c] =>
        (q \in CountedRequests(k)' <=> q \in CountedRequests(k))
  BY OtherRequests
<1>5. \A d \in Calls : d # c => (d \in CountedCalls(k)' <=> d \in CountedCalls(k))
  BY OtherCalls
<1>6. req[c] # NoRequest =>
        /\ req[c] \in CountedRequests(k) <=> OwnCount(c, k)
        /\ req[c] \in CountedRequests(k)' <=> OwnCount(c, k)'
  BY <1>1, OwnRequest
<1>7. req[c] = NoRequest => CountedRequests(k)' = CountedRequests(k)
  BY <1>2, <1>4, RequestsAssumption
<1> QED BY <1>1, <1>2, <1>3, <1>4, <1>5, <1>6, <1>7

LEMMA StepEffect ==
  ASSUME TypeOK, LocalInv, SerialInv, ~Faults, NEW c \in Calls, Step(c), NEW k \in Keys,
         ~StartFinalize(c), ~StartTimeoutHealth(c),
         \A j \in Keys : CountedRequests(j) # {} => counter[j] > 0
  PROVE  Effect(c, k)
<1> DEFINE Mine == c \in CountedCalls(k)
<1>0. /\ req' = req /\ load' = load
      /\ req[c] \in Requests \cup {NoRequest}
      /\ outcome' # outcome => SetOutcome(c)
      /\ counter[k] \in Int
      /\ outcome[req[c]] \in Payloads \cup {NoPayload} \/ req[c] = NoRequest
      /\ "timeouts" \notin Decisions
      /\ NoRequest \notin Requests
  BY OwnMoves, RequestsAssumption DEF TypeOK, Decisions
<1> USE DEF OwnCount, CountedCalls, Flux, Past, Falls
<1>1. CASE GetOutcome(c)
  <2>1. /\ pc[c] = "get" /\ pc'[c] \in {"set", "drop_read", "refused"} /\ outcome' = outcome
        /\ pc'[c] = "set" => outcome[req[c]] = NoPayload
        /\ counter' = counter
    BY <1>1 DEF GetOutcome, Goto, TypeOK, store
  <2> QED BY <1>0, <2>1, SetsByActor DEF Effect, Unmoved
<1>2. CASE DropRead(c)
  <2>1. /\ pc[c] = "drop_read" /\ outcome' = outcome /\ counter' = counter
        /\ req[c] \in Requests /\ seen[c] = outcome[req[c]] /\ seen[c] \in Payloads
        /\ seen[c].decision \in Decisions /\ seen[c].decision \in Keys
        /\ seen[c] # NoPayload
    BY <1>2, PayloadShape DEF DropRead, LocalInv, SerialInv, Dropping, store, Keys
  <2>2. OwnCount(c, seen[c].decision)
    BY <1>0, <2>1
  <2>3. req[c] \in CountedRequests(seen[c].decision)
    BY <2>1, <2>2, OwnRequest
  <2>4. counter[seen[c].decision] > 0 /\ counter[seen[c].decision] \in Int
    BY <2>1, <2>3 DEF TypeOK
  <2>5. pc'[c] = "drop_write"
    BY <1>2, <2>4 DEF DropRead, Goto, TypeOK
  <2> QED BY <1>0, <2>1, <2>5, SetsByActor DEF Effect, Unmoved
<1>3. CASE DropWrite(c)
  <2>1. /\ pc[c] = "drop_write" /\ outcome' = outcome
        /\ req[c] \in Requests /\ seen[c] = outcome[req[c]] /\ seen[c] \in Payloads
        /\ seen[c].decision \in Decisions /\ seen[c] # NoPayload
        /\ load[c] # HealthOnly
        /\ pc'[c] = AfterDrop(c)
    BY <1>3, PayloadShape DEF DropWrite, LocalInv, SerialInv, Dropping, Goto, TypeOK
  <2>2. CASE k = seen[c].decision
    <3>1. counter'[k] = counter[k] - 1
      BY <1>0, <1>3, <2>2 DEF DropWrite, Bump, TypeOK
    <3>2. OwnCount(c, k) /\ ~OwnCount(c, k)'
      BY <1>0, <2>1, <2>2 DEF AfterDrop
    <3>3. ~Mine /\ ~Mine'
      BY <1>0, <2>1, <2>2 DEF AfterDrop
    <3> QED BY <1>0, <2>1, <3>1, <3>2, <3>3, SetsByActor DEF Effect, Leaves
  <2>3. CASE k # seen[c].decision
    <3>1. counter'[k] = counter[k]
      BY <1>3, <2>3 DEF DropWrite, Bump, TypeOK
    <3>2. OwnCount(c, k)' <=> OwnCount(c, k)
      BY <1>0, <2>1, <2>3 DEF AfterDrop
    <3>3. ~Mine /\ ~Mine'
      BY <1>0, <2>1 DEF AfterDrop
    <3> QED BY <3>1, <3>2, <3>3, SetsByActor DEF Effect, Unmoved
  <2> QED BY <2>2, <2>3
<1>4. CASE DropTimeoutRead(c)
  <2>1. /\ pc[c] = "drop_timeout_read" /\ outcome' = outcome /\ counter' = counter
        /\ req[c] \in Requests /\ seen[c] = outcome[req[c]] /\ seen[c] # NoPayload
        /\ seen[c].source = "timeout_fallback" /\ "timeouts" \in Keys
    BY <1>4, PayloadShape DEF DropTimeoutRead, LocalInv, SerialInv, Dropping, store, Keys
  <2>2. req[c] \in CountedRequests("timeouts")
    BY <2>1, OwnRequest
  <2>3. pc'[c] = "drop_timeout_write"
    BY <1>4, <2>1, <2>2 DEF DropTimeoutRead, Goto, TypeOK
  <2> QED BY <1>0, <2>1, <2>3, SetsByActor DEF Effect, Unmoved
<1>5. CASE DropTimeoutWrite(c)
  <2>1. /\ pc[c] = "drop_timeout_write" /\ outcome' = outcome /\ pc'[c] = "drop_event"
        /\ req[c] \in Requests /\ seen[c] = outcome[req[c]] /\ seen[c] # NoPayload
        /\ seen[c].source = "timeout_fallback" /\ load[c] # HealthOnly
        /\ counter' = [counter EXCEPT !["timeouts"] = @ + (-1)]
    BY <1>5, PayloadShape
    DEF DropTimeoutWrite, LocalInv, SerialInv, Dropping, Goto, Bump, TypeOK
  <2>2. CASE k = "timeouts"
    <3>1. counter'[k] = counter[k] - 1
      BY <1>0, <2>1, <2>2 DEF TypeOK
    <3>2. OwnCount(c, k) /\ ~OwnCount(c, k)' /\ ~Mine /\ ~Mine'
      BY <1>0, <2>1, <2>2
    <3> QED BY <1>0, <2>1, <3>1, <3>2, SetsByActor DEF Effect, Leaves
  <2>3. CASE k # "timeouts"
    <3>1. counter'[k] = counter[k]
      BY <2>1, <2>3 DEF TypeOK
    <3> QED BY <1>0, <2>1, <2>3, <3>1, SetsByActor DEF Effect, Unmoved
  <2> QED BY <2>2, <2>3
<1>6. CASE DropEvent(c)
  <2>1. /\ pc[c] = "drop_event" /\ pc'[c] = "set" /\ outcome' = outcome /\ counter' = counter
    BY <1>6 DEF DropEvent, Goto, TypeOK
  <2> QED BY <1>0, <2>1, SetsByActor DEF Effect, Unmoved
<1>7. CASE SetOutcome(c)
  <2>1. /\ pc[c] = "set" /\ pc'[c] = "count" /\ counter' = counter
        /\ req[c] \in Requests /\ load[c] # HealthOnly
    BY <1>7, PayloadShape DEF SetOutcome, Goto, TypeOK, LocalInv
  <2>2. ~Mine /\ ~Mine'
    BY <1>0, <2>1
  <2>3. ~OwnCount(c, k)'
    BY <1>0, <2>1
  <2>4. ~OwnCount(c, k)
    BY <1>0, <2>1
  <2> QED BY <2>1, <2>2, <2>3, <2>4, SetsByActor DEF Effect, Unmoved
<1>8. CASE Count(c)
  <2>1. /\ pc[c] = "count" /\ outcome' = outcome
        /\ load[c] \in Payloads /\ load[c].decision \in Decisions
        /\ load[c] # HealthOnly /\ load[c] # NoPayload
        /\ req[c] # NoRequest => outcome[req[c]] = load[c]
        /\ pc'[c] \in {"expire", AfterCount(c)}
    BY <1>8, PayloadShape
    DEF Count, IncrementWithTtl, LocalInv, SerialInv, Writing, Goto, TypeOK
  <2>2. CASE k = load[c].decision
    <3>1. counter'[k] = counter[k] + 1
      BY <1>8, <2>2 DEF Count, IncrementWithTtl, Bump, TypeOK
    <3>2. CASE req[c] = NoRequest
      BY <1>0, <2>1, <2>2, <3>1, <3>2, SetsByActor DEF Effect, Enters, AfterCount
    <3>3. CASE req[c] # NoRequest
      <4>1. ~OwnCount(c, k) /\ OwnCount(c, k)' /\ ~Mine /\ ~Mine'
        BY <1>0, <2>1, <2>2, <3>3 DEF AfterCount
      <4> QED BY <3>1, <3>3, <4>1, SetsByActor DEF Effect, Enters
    <3> QED BY <3>2, <3>3
  <2>3. CASE k # load[c].decision
    <3>1. counter'[k] = counter[k]
      BY <1>8, <2>3 DEF Count, IncrementWithTtl, Bump, TypeOK
    <3>2. Mine' <=> Mine
      BY <1>0, <2>1, <2>3 DEF AfterCount
    <3>3. req[c] # NoRequest => (OwnCount(c, k)' <=> OwnCount(c, k))
      BY <1>0, <2>1, <2>3 DEF AfterCount
    <3> QED BY <3>1, <3>2, <3>3, SetsByActor DEF Effect, Unmoved
  <2> QED BY <2>2, <2>3
<1>9. CASE Expire(c)
  <2>1. /\ pc[c] = "expire" /\ pc'[c] = AfterCount(c) /\ outcome' = outcome
        /\ counter' = counter /\ load[c] # HealthOnly
        /\ req[c] # NoRequest => outcome[req[c]] = load[c]
    BY <1>9, PayloadShape DEF Expire, LocalInv, SerialInv, Writing, Goto, TypeOK
  <2>2. Mine' <=> Mine
    BY <1>0, <2>1 DEF AfterCount
  <2>3. req[c] # NoRequest => (OwnCount(c, k)' <=> OwnCount(c, k))
    BY <1>0, <2>1 DEF AfterCount
  <2> QED BY <2>1, <2>2, <2>3, SetsByActor DEF Effect, Unmoved
<1>10. CASE CountTimeout(c)
  <2>1. /\ pc[c] = "count_timeout" /\ outcome' = outcome
        /\ load[c].source = "timeout_fallback"
        /\ load[c] \in Payloads \cup {HealthOnly} /\ load[c] # NoPayload
        /\ req[c] # NoRequest /\ load[c] # HealthOnly => outcome[req[c]] = load[c]
        /\ pc'[c] \in {"expire_timeout", AfterTimeoutCount(c)}
    BY <1>10, PayloadShape
    DEF CountTimeout, IncrementWithTtl, LocalInv, SerialInv, Writing, Goto, TypeOK
  <2>2. CASE k = "timeouts"
    <3>1. counter'[k] = counter[k] + 1
      BY <1>10, <2>2 DEF CountTimeout, IncrementWithTtl, Bump, TypeOK
    <3>2. CASE req[c] = NoRequest \/ load[c] = HealthOnly
      <4>1. ~Mine /\ Mine'
        BY <1>0, <2>1, <2>2, <3>2 DEF AfterTimeoutCount
      <4>2. req[c] # NoRequest => (OwnCount(c, k)' <=> OwnCount(c, k))
        BY <1>0, <2>1, <3>2
      <4> QED BY <3>1, <4>1, <4>2, SetsByActor DEF Effect, Enters
    <3>3. CASE req[c] # NoRequest /\ load[c] # HealthOnly
      <4>1. ~OwnCount(c, k) /\ OwnCount(c, k)' /\ ~Mine /\ ~Mine'
        BY <1>0, <2>1, <2>2, <3>3 DEF AfterTimeoutCount
      <4> QED BY <3>1, <3>3, <4>1, SetsByActor DEF Effect, Enters
    <3> QED BY <3>2, <3>3
  <2>3. CASE k # "timeouts"
    <3>1. counter'[k] = counter[k]
      BY <1>10, <2>3 DEF CountTimeout, IncrementWithTtl, Bump, TypeOK
    <3>2. Mine' <=> Mine
      BY <1>0, <2>1, <2>3, PayloadShape DEF AfterTimeoutCount, Keys, Decisions
    <3>3. req[c] # NoRequest => (OwnCount(c, k)' <=> OwnCount(c, k))
      BY <1>0, <2>1, <2>3 DEF AfterTimeoutCount
    <3> QED BY <3>1, <3>2, <3>3, SetsByActor DEF Effect, Unmoved
  <2> QED BY <2>2, <2>3
<1>11. CASE ExpireTimeout(c)
  <2>1. /\ pc[c] = "expire_timeout" /\ pc'[c] = AfterTimeoutCount(c) /\ outcome' = outcome
        /\ counter' = counter
    BY <1>11 DEF ExpireTimeout, Goto, TypeOK
  <2>2. Mine' <=> Mine
    BY <1>0, <2>1, PayloadShape DEF AfterTimeoutCount, Keys, Decisions
  <2>3. OwnCount(c, k)' <=> OwnCount(c, k)
    BY <1>0, <2>1 DEF AfterTimeoutCount
  <2> QED BY <2>1, <2>2, <2>3, SetsByActor DEF Effect, Unmoved
<1>12. CASE AddEvent(c) \/ SetLast(c)
  <2>1. /\ pc[c] \in {"add_event", "last"} /\ outcome' = outcome /\ counter' = counter
        /\ pc'[c] \in {"recorded", "last", "finalized"}
        /\ pc'[c] = "recorded" => load[c] = HealthOnly
    BY <1>12 DEF AddEvent, SetLast, Goto, TypeOK
  <2>2. Mine' <=> Mine
    BY <1>0, <2>1, PayloadShape DEF Keys, Decisions
  <2>3. OwnCount(c, k)' <=> OwnCount(c, k)
    BY <1>0, <2>1
  <2> QED BY <2>1, <2>2, <2>3, SetsByActor DEF Effect, Unmoved
<1> QED BY <1>1, <1>2, <1>3, <1>4, <1>5, <1>6, <1>7, <1>8, <1>9, <1>10, <1>11, <1>12
        DEF Step, Fault

LEMMA BeginEffect ==
  ASSUME TypeOK, NEW c \in Calls, StartFinalize(c) \/ StartTimeoutHealth(c), NEW k \in Keys
  PROVE  Unmoved(k)
<1>1. outcome' = outcome /\ counter' = counter
  BY BeginFacts DEF store
<1>2. \A q \in Requests : InFlux(q, k)' <=> InFlux(q, k)
  <2>1. pc[c] \notin Flux(k)
    BY BeginFacts DEF Flux
  <2>2. \A q \in Requests : ~(req'[c] = q /\ pc'[c] \in Flux(k) /\ load'[c] # HealthOnly)
    BY BeginFacts, RequestsAssumption DEF Flux
  <2> QED BY <2>1, <2>2, BeginFacts DEF InFlux
<1>3. CountedCalls(k)' = CountedCalls(k)
  <2>1. /\ pc[c] \notin Past(k)
        /\ pc'[c] \in Past(k) => k # "timeouts" /\ load'[c] = HealthOnly
    BY BeginFacts DEF Past
  <2>2. k # "timeouts" => ~Falls(HealthOnly, k)
    BY PayloadShape DEF Falls, Keys, Decisions
  <2>3. c \notin CountedCalls(k) /\ c \notin CountedCalls(k)'
    BY <2>1, <2>2, BeginFacts DEF CountedCalls, Past
  <2>4. \A d \in Calls : d # c => (d \in CountedCalls(k)' <=> d \in CountedCalls(k))
    BY BeginFacts DEF CountedCalls
  <2> QED BY <2>3, <2>4 DEF CountedCalls
<1> QED BY <1>1, <1>2, <1>3 DEF Unmoved, CountedRequests

-----------------------------------------------------------------------------
(* The theorem.                                                             *)

Exact ==
  \A k \in Keys :
    counter[k] = Cardinality(CountedRequests(k)) + Cardinality(CountedCalls(k))

LEMMA CountedFinite ==
  \A k \in Keys : /\ IsFiniteSet(CountedRequests(k)) /\ IsFiniteSet(CountedCalls(k))
                  /\ Cardinality(CountedRequests(k)) \in Nat
                  /\ Cardinality(CountedCalls(k)) \in Nat
<1> SUFFICES ASSUME NEW k \in Keys
             PROVE  IsFiniteSet(CountedRequests(k)) /\ IsFiniteSet(CountedCalls(k))
  BY FS_CardinalityType
<1>1. CountedRequests(k) \subseteq Requests /\ CountedCalls(k) \subseteq Calls
  BY DEF CountedRequests, CountedCalls
<1> QED BY <1>1, RequestsAssumption, CallsAssumption, FS_Subset

LEMMA ExactPreserved ==
  ASSUME TypeOK, LocalInv, SerialInv, Exact, ~Faults, NEW c \in Calls, Step(c)
  PROVE  Exact'
<1> SUFFICES ASSUME NEW k \in Keys
             PROVE  counter'[k] = Cardinality(CountedRequests(k)') + Cardinality(CountedCalls(k)')
  BY DEF Exact
<1> DEFINE R == CountedRequests(k)
           C == CountedCalls(k)
<1>0. /\ IsFiniteSet(R) /\ IsFiniteSet(C) /\ Cardinality(R) \in Nat /\ Cardinality(C) \in Nat
      /\ counter[k] = Cardinality(R) + Cardinality(C)
  BY CountedFinite DEF Exact
<1>1. \A j \in Keys : CountedRequests(j) # {} => counter[j] > 0
  <2> SUFFICES ASSUME NEW j \in Keys, CountedRequests(j) # {} PROVE counter[j] > 0
    OBVIOUS
  <2>1. Cardinality(CountedRequests(j)) # 0
    BY CountedFinite, FS_EmptySet
  <2> QED BY <2>1, CountedFinite DEF Exact
<1>2. Effect(c, k)
  BY <1>1, StepEffect, BeginEffect DEF Effect
<1>3. CASE Unmoved(k)
  BY <1>0, <1>3 DEF Unmoved
<1>4. CASE Leaves(c, k)
  <2>1. Cardinality(R \ {req[c]}) = Cardinality(R) - 1
    BY <1>0, <1>4, FS_RemoveElement DEF Leaves
  <2> QED BY <1>0, <1>4, <2>1 DEF Leaves
<1>5. CASE Enters(c, k)
  <2>1. CASE req[c] \notin R /\ CountedRequests(k)' = R \cup {req[c]} /\ CountedCalls(k)' = C
    <3>1. Cardinality(R \cup {req[c]}) = Cardinality(R) + 1
      BY <1>0, <2>1, FS_AddElement
    <3> QED BY <1>0, <1>5, <2>1, <3>1 DEF Enters
  <2>2. CASE c \notin C /\ CountedRequests(k)' = R /\ CountedCalls(k)' = C \cup {c}
    <3>1. Cardinality(C \cup {c}) = Cardinality(C) + 1
      BY <1>0, <2>2, FS_AddElement
    <3> QED BY <1>0, <1>5, <2>2, <3>1 DEF Enters
  <2> QED BY <1>5, <2>1, <2>2 DEF Enters
<1> QED BY <1>2, <1>3, <1>4, <1>5 DEF Effect

(* Every counter of the metrics endpoint is the number of requests whose    *)
(* final outcome it stands for (and of calls that named no request), less   *)
(* the updates under way, as long as calls for one request do not overlap   *)
(* and no command fails: interleaving with other requests does no harm.     *)
THEOREM CountersExactHolds == Spec => []CountersExact
<1>1. CASE Overlap \/ Faults \/ Aging
  <2>1. CountersExact
    BY <1>1 DEF CountersExact
  <2> QED BY <2>1, PTL
<1>2. CASE ~Overlap /\ ~Faults /\ ~Aging
  <2> DEFINE Inv == SerialInv /\ Exact
  <2>1. Init => Inv
    <3> SUFFICES ASSUME Init PROVE Exact
      BY InitSerial
    <3>1. ASSUME NEW k \in Keys PROVE CountedRequests(k) = {} /\ CountedCalls(k) = {}
      BY DEF Init, CountedRequests, CountedCalls, Past
    <3> QED BY <3>1, FS_EmptySet DEF Init, Exact
  <2>2. TypeOK /\ LocalInv /\ Inv /\ [Next]_vars => Inv'
    <3> SUFFICES ASSUME TypeOK, LocalInv, SerialInv, Exact, [Next]_vars PROVE Inv'
      OBVIOUS
    <3>1. CASE \E c \in Calls : Step(c)
      BY <1>2, <3>1, SerialPreserved, ExactPreserved
    <3>2. CASE Expiry
      BY <1>2, <3>2 DEF Expiry, CounterExpires, OutcomeExpires, EventExpires, LastExpires
    <3>3. CASE UNCHANGED vars
      BY <3>3 DEF vars, store, SerialInv, Exact, CountedRequests, CountedCalls, InFlux
    <3> QED BY <3>1, <3>2, <3>3 DEF Next
  <2>3. Inv => CountersExact
    BY DEF Exact, CountersExact
  <2> QED BY <2>1, <2>2, <2>3, TypeCorrect, PTL DEF Spec
<1> QED BY <1>1, <1>2

-----------------------------------------------------------------------------
(* A call that writes over an outcome has established that it prevails.     *)
ReplaceInv ==
  \A c \in Calls : pc[c] \in Dropping \cup {"set"} =>
    seen[c] = NoPayload \/ ShouldReplace(seen[c], load[c])

LEMMA ReplacePreserved ==
  ASSUME TypeOK, ReplaceInv, NEW c \in Calls, Step(c)
  PROVE  ReplaceInv'
<1> USE DEF ReplaceInv, Dropping, Goto, TypeOK
<1>1. CASE StartFinalize(c) \/ StartTimeoutHealth(c)
  BY <1>1, BeginFacts DEF store
<1>2. CASE ~StartFinalize(c) /\ ~StartTimeoutHealth(c)
  <2>1. \A d \in Calls : d # c => pc'[d] = pc[d] /\ seen'[d] = seen[d] /\ load'[d] = load[d]
    BY <1>2, OwnMoves
  <2>2. pc'[c] \in Dropping \cup {"set"} => seen'[c] = NoPayload \/ ShouldReplace(seen'[c], load'[c])
    <3>1. CASE GetOutcome(c)
      BY <3>1 DEF GetOutcome
    <3>2. CASE DropRead(c) \/ DropWrite(c)
      BY <3>2 DEF DropRead, DropWrite, AfterDrop, store
    <3>3. CASE DropTimeoutRead(c) \/ DropTimeoutWrite(c) \/ DropEvent(c)
      BY <3>3 DEF DropTimeoutRead, DropTimeoutWrite, DropEvent, store
    <3>4. CASE SetOutcome(c) \/ AddEvent(c) \/ SetLast(c)
      BY <3>4 DEF SetOutcome, AddEvent, SetLast
    <3>5. CASE Count(c) \/ Expire(c)
      BY <3>5 DEF Count, Expire, IncrementWithTtl, AfterCount
    <3>6. CASE CountTimeout(c) \/ ExpireTimeout(c)
      BY <3>6 DEF CountTimeout, ExpireTimeout, IncrementWithTtl, AfterTimeoutCount
    <3>7. CASE Fault(c)
      BY <3>7 DEF Fault
    <3> QED BY <1>2, <3>1, <3>2, <3>3, <3>4, <3>5, <3>6, <3>7 DEF Step
  <2> QED BY <2>1, <2>2
<1> QED BY <1>1, <1>2

(* A late live decision never takes the place of a fallback while calls for *)
(* one request do not overlap and keys neither fail nor expire.             *)
THEOREM FallbackPrevailsHolds ==
  ASSUME ~Overlap, ~Faults, ~Aging PROVE Spec => FallbackPrevails
<1> DEFINE Inv == SerialInv /\ ReplaceInv
<1>1. Init => Inv
  BY InitSerial DEF Init, ReplaceInv, Dropping
<1>2. TypeOK /\ LocalInv /\ Inv /\ [Next]_vars => Inv'
  <2> SUFFICES ASSUME TypeOK, LocalInv, SerialInv, ReplaceInv, [Next]_vars PROVE Inv'
    OBVIOUS
  <2>1. CASE \E c \in Calls : Step(c)
    BY <2>1, SerialPreserved, ReplacePreserved
  <2>2. CASE Expiry
    BY <2>2 DEF Expiry, CounterExpires, OutcomeExpires, EventExpires, LastExpires
  <2>3. CASE UNCHANGED vars
    BY <2>3 DEF vars, store, SerialInv, ReplaceInv
  <2> QED BY <2>1, <2>2, <2>3 DEF Next
<1>3. TypeOK /\ LocalInv /\ Inv /\ [Next]_vars =>
        [\A r \in Requests : IsFallback(outcome[r]) => IsFallback(outcome'[r])]_vars
  <2> SUFFICES ASSUME TypeOK, LocalInv, SerialInv, ReplaceInv, [Next]_vars,
                      NEW r \in Requests, IsFallback(outcome[r])
               PROVE  IsFallback(outcome'[r])
    OBVIOUS
  <2>1. CASE outcome' = outcome
    BY <2>1
  <2>2. CASE \E c \in Calls : Step(c)
    <3> PICK c \in Calls : Step(c)
      BY <2>2
    <3>1. CASE SetOutcome(c) /\ r = req[c]
      <4>1. seen[c] = outcome[r] /\ outcome'[r] = load[c] /\ load[c] \in Payloads
        BY <3>1 DEF SetOutcome, SerialInv, LocalInv, TypeOK
      <4>2. seen[c].source \in {"timeout_fallback", "unavailable_fallback"} /\ seen[c] # NoPayload
        BY <4>1, PayloadsAssumption DEF IsFallback, FallbackPayloads, FallbackReason
      <4>3. ShouldReplace(seen[c], load[c])
        BY <3>1, <4>2 DEF SetOutcome, ReplaceInv
      <4>4. load[c].source # "live"
        BY <4>2, <4>3 DEF ShouldReplace, SourceRank
      <4>5. load[c] \notin LivePayloads
        BY <4>4 DEF LivePayloads
      <4> QED BY <4>1, <4>5, PayloadsAssumption DEF IsFallback
    <3>2. CASE ~(SetOutcome(c) /\ r = req[c])
      <4>1. outcome'[r] = outcome[r]
        BY <3>2, OwnMoves, BeginFacts DEF SetOutcome, store, TypeOK
      <4> QED BY <4>1
    <3> QED BY <3>1, <3>2
  <2>3. CASE Expiry
    BY <2>3 DEF Expiry, CounterExpires, OutcomeExpires, EventExpires, LastExpires
  <2>4. CASE UNCHANGED vars
    BY <2>4 DEF vars, store
  <2> QED BY <2>2, <2>3, <2>4 DEF Next
<1> QED BY <1>1, <1>2, <1>3, TypeCorrect, PTL DEF Spec, FallbackPrevails

-----------------------------------------------------------------------------
(* The store implements the contract.                                       *)

(* Requests whose final outcome is counted under k, now or at the end of the *)
(* update under way, and calls that count without an outcome.               *)
Standing(k) == {r \in Requests : outcome[r] # NoPayload /\ Falls(outcome[r], k)}

IsLoose(c, k) ==
  /\ Falls(load[c], k)
  /\ \/ pc[c] \in Past(k) /\ (req[c] = NoRequest \/ load[c] = HealthOnly)
     \/ /\ k = "timeouts" /\ pc[c] \in {"expire", "count_timeout"}
        /\ req[c] = NoRequest /\ load[c] # HealthOnly

Loose(k) == {c \in Calls : IsLoose(c, k)}

(* The mapping in terms of these sets, where the update in flight is gone.   *)
MappingPlain ==
  /\ \A k \in Keys : AnonymousTally[k] = Cardinality(Loose(k))
  /\ \A k \in Keys : SettledTally[k] = Cardinality(Standing(k)) + Cardinality(Loose(k))

(* Two disjoint finite sets add up.                                          *)
LEMMA Adds ==
  ASSUME NEW S, IsFiniteSet(S), NEW A \in SUBSET S, NEW B \in SUBSET S, A \cap B = {}
  PROVE  Cardinality(A \cup B) = Cardinality(A) + Cardinality(B)
<1>1. IsFiniteSet(A) /\ IsFiniteSet(B) /\ Cardinality({}) = 0
  BY FS_Subset, FS_EmptySet
<1>2. Cardinality(A) \in Nat /\ Cardinality(B) \in Nat
  BY <1>1, FS_CardinalityType
<1>3. Cardinality(A \cup B) = Cardinality(A) + Cardinality(B) - Cardinality(A \cap B)
  BY <1>1, FS_Union
<1>4. Cardinality(A \cap B) = 0
  BY <1>1
<1> QED BY <1>2, <1>3, <1>4

(* While the counters are exact, completing the updates under way counts     *)
(* every standing outcome once.                                              *)
LEMMA MappingIsPlain == Exact => MappingPlain
<1> SUFFICES ASSUME Exact, NEW k \in Keys
             PROVE  /\ AnonymousTally[k] = Cardinality(Loose(k))
                    /\ SettledTally[k] = Cardinality(Standing(k)) + Cardinality(Loose(k))
  BY DEF MappingPlain
<1> DEFINE InHand == {r \in Requests :
                        outcome[r] # NoPayload /\ Falls(outcome[r], k) /\ InFlux(r, k)}
           Unsaid == {c \in Calls : /\ req[c] = NoRequest
                                    /\ pc[c] \in {"expire", "count_timeout"}
                                    /\ load[c] # HealthOnly
                                    /\ Falls(load[c], k)}
<1>1. Cardinality(Standing(k)) = Cardinality(CountedRequests(k)) + Pending(k)
  <2>1. Standing(k) = CountedRequests(k) \cup InHand /\ CountedRequests(k) \cap InHand = {}
    BY DEF Standing, CountedRequests
  <2>2. CountedRequests(k) \in SUBSET Requests /\ InHand \in SUBSET Requests
    BY DEF CountedRequests
  <2> QED BY <2>1, <2>2, Adds, RequestsAssumption DEF Pending
<1>2. Cardinality(Loose(k)) = Cardinality(CountedCalls(k)) + PendingCalls(k)
  <2>1. CASE k = "timeouts"
    <3>1. Loose(k) = CountedCalls(k) \cup Unsaid /\ CountedCalls(k) \cap Unsaid = {}
      BY <2>1 DEF Loose, IsLoose, CountedCalls, Past
    <3>2. CountedCalls(k) \in SUBSET Calls /\ Unsaid \in SUBSET Calls
      BY DEF CountedCalls
    <3>3. PendingCalls(k) = Cardinality(Unsaid)
      BY <2>1 DEF PendingCalls
    <3> HIDE DEF Unsaid
    <3> QED BY <3>1, <3>2, <3>3, Adds, CallsAssumption
  <2>2. CASE k # "timeouts"
    <3>1. Loose(k) = CountedCalls(k)
      BY <2>2 DEF Loose, IsLoose, CountedCalls
    <3> QED BY <2>2, <3>1, CountedFinite DEF PendingCalls
  <2> QED BY <2>1, <2>2
<1>3. /\ Cardinality(CountedRequests(k)) \in Nat /\ Cardinality(CountedCalls(k)) \in Nat
      /\ Pending(k) \in Nat /\ PendingCalls(k) \in Nat
  <2>1. IsFiniteSet(InHand)
    BY RequestsAssumption, FS_Subset
  <2>2. IsFiniteSet(Unsaid)
    BY CallsAssumption, FS_Subset
  <2> QED BY <2>1, <2>2, CountedFinite, FS_CardinalityType DEF Pending, PendingCalls
<1>4. counter[k] = Cardinality(CountedRequests(k)) + Cardinality(CountedCalls(k))
  BY DEF Exact
<1> QED BY <1>1, <1>2, <1>3, <1>4 DEF SettledTally, AnonymousTally

(* The commands at which a call starts to count without an outcome.          *)
StartsLoose(c) ==
  \/ Count(c) /\ req[c] = NoRequest
  \/ CountTimeout(c) /\ load[c] = HealthOnly

(* At every other command it counts what it counted before.                  *)
LEMMA LooseStays ==
  ASSUME TypeOK, LocalInv, ~Faults, NEW c \in Calls, Step(c), ~StartsLoose(c), NEW k \in Keys
  PROVE  Loose(k)' = Loose(k)
<1>1. CASE StartFinalize(c) \/ StartTimeoutHealth(c)
  <2>1. \A d \in Calls : d # c => (IsLoose(d, k)' <=> IsLoose(d, k))
    BY <1>1, BeginFacts DEF IsLoose
  <2>2. ~IsLoose(c, k)
    BY <1>1, BeginFacts DEF IsLoose, Past
  <2>3. k # "timeouts" => ~Falls(HealthOnly, k)
    BY PayloadShape DEF Falls, Keys, Decisions
  <2>4. /\ pc'[c] \in Past(k) => k # "timeouts" /\ load'[c] = HealthOnly
        /\ pc'[c] \in {"expire", "count_timeout"} => load'[c] = HealthOnly
    BY <1>1, BeginFacts DEF Past
  <2>5. ~IsLoose(c, k)'
    BY <2>3, <2>4 DEF IsLoose
  <2> QED BY <2>1, <2>2, <2>5 DEF Loose
<1>2. CASE ~StartFinalize(c) /\ ~StartTimeoutHealth(c)
  <2>1. \A d \in Calls : d # c => (IsLoose(d, k)' <=> IsLoose(d, k))
    BY <1>2, OwnMoves DEF IsLoose
  <2>2. IsLoose(c, k)' <=> IsLoose(c, k)
    <3>0. /\ req' = req /\ load' = load
          /\ k # "timeouts" => ~Falls(HealthOnly, k)
      BY <1>2, OwnMoves, PayloadShape DEF Falls, Keys, Decisions
    <3> USE DEF IsLoose, Past, Goto, TypeOK
    <3>1. CASE GetOutcome(c) \/ DropRead(c) \/ DropWrite(c) \/ DropTimeoutRead(c)
               \/ DropTimeoutWrite(c) \/ DropEvent(c) \/ SetOutcome(c)
      <4>1. /\ pc[c] \in {"get", "set"} \cup Dropping
            /\ pc'[c] \in {"set", "refused", "count"} \cup Dropping
            /\ load[c] # HealthOnly /\ req[c] # NoRequest
        BY <3>1, PayloadShape, RequestsAssumption
        DEF GetOutcome, DropRead, DropWrite, DropTimeoutRead, DropTimeoutWrite, DropEvent,
            SetOutcome, AfterDrop, Dropping, LocalInv
      <4> QED BY <3>0, <4>1 DEF Dropping
    <3>2. CASE Count(c)
      <4>1. req[c] # NoRequest /\ load[c] # HealthOnly
        BY <3>2, PayloadShape DEF Count, StartsLoose, LocalInv
      <4> QED BY <3>0, <4>1
    <3>3. CASE Expire(c)
      <4>1. pc[c] = "expire" /\ load[c] # HealthOnly /\ pc'[c] = AfterCount(c)
        BY <3>3, PayloadShape DEF Expire, LocalInv
      <4> QED BY <3>0, <4>1 DEF AfterCount, Falls
    <3>4. CASE CountTimeout(c)
      <4>1. /\ pc[c] = "count_timeout" /\ load[c] # HealthOnly
            /\ pc'[c] \in {"expire_timeout", AfterTimeoutCount(c)}
        BY <3>4 DEF CountTimeout, IncrementWithTtl, StartsLoose
      <4> QED BY <3>0, <4>1 DEF AfterTimeoutCount
    <3>5. CASE ExpireTimeout(c)
      <4>1. pc[c] = "expire_timeout" /\ pc'[c] = AfterTimeoutCount(c)
        BY <3>5 DEF ExpireTimeout
      <4> QED BY <3>0, <4>1 DEF AfterTimeoutCount
    <3>6. CASE AddEvent(c) \/ SetLast(c)
      <4>1. /\ pc[c] \in {"add_event", "last"} /\ pc'[c] \in {"recorded", "last", "finalized"}
            /\ pc'[c] = "recorded" => load[c] = HealthOnly
        BY <3>6 DEF AddEvent, SetLast
      <4> QED BY <3>0, <4>1
    <3> QED BY <1>2, <3>1, <3>2, <3>3, <3>4, <3>5, <3>6 DEF Step, Fault
  <2> QED BY <2>1, <2>2 DEF Loose
<1> QED BY <1>1, <1>2

(* There it counts its payload, under every kind, and other calls stay.      *)
LEMMA LooseGrows ==
  ASSUME TypeOK, LocalInv, NEW c \in Calls, Step(c), StartsLoose(c), NEW k \in Keys
  PROVE  /\ ~Falls(load[c], k) => Loose(k)' = Loose(k)
         /\ Falls(load[c], k) => c \notin Loose(k) /\ Loose(k)' = Loose(k) \cup {c}
<1>1. ~StartFinalize(c) /\ ~StartTimeoutHealth(c)
  BY DEF StartsLoose, Count, CountTimeout, StartFinalize, StartTimeoutHealth, Begin
<1>2. \A d \in Calls : d # c => (IsLoose(d, k)' <=> IsLoose(d, k))
  BY <1>1, OwnMoves DEF IsLoose
<1>3. req' = req /\ load' = load /\ (k # "timeouts" => ~Falls(HealthOnly, k))
  BY <1>1, OwnMoves, PayloadShape DEF Falls, Keys, Decisions
<1>4. ~IsLoose(c, k) /\ (IsLoose(c, k)' <=> Falls(load[c], k))
  <2>1. CASE Count(c) /\ req[c] = NoRequest
    <3>1. /\ pc[c] = "count" /\ load[c] # HealthOnly
          /\ pc'[c] \in {"expire", AfterCount(c)}
      BY <2>1, PayloadShape DEF Count, IncrementWithTtl, Goto, TypeOK, LocalInv
    <3> QED BY <1>3, <2>1, <3>1 DEF IsLoose, Past, Falls, AfterCount
  <2>2. CASE CountTimeout(c) /\ load[c] = HealthOnly
    <3>1. pc[c] = "count_timeout" /\ pc'[c] \in {"expire_timeout", AfterTimeoutCount(c)}
      BY <2>2 DEF CountTimeout, IncrementWithTtl, Goto, TypeOK
    <3> QED BY <1>3, <2>2, <3>1 DEF IsLoose, Past, AfterTimeoutCount
  <2> QED BY <2>1, <2>2 DEF StartsLoose
<1> QED BY <1>2, <1>4 DEF Loose

(* A new outcome is counted in the place of the one it replaces.             *)
LEMMA StandingMoves ==
  ASSUME TypeOK, LocalInv, NEW c \in Calls, SetOutcome(c), NEW k \in Keys
  PROVE  Cardinality(Standing(k)') =
           Cardinality(Standing(k)) + Contract!Weight(load[c], k)
             - Contract!Weight(outcome[req[c]], k)
<1> DEFINE S == Standing(k)
<1>1. /\ req[c] \in Requests /\ load[c] \in Payloads /\ load[c] # NoPayload
      /\ outcome' = [outcome EXCEPT ![req[c]] = load[c]]
  BY PayloadShape DEF SetOutcome, LocalInv
<1>2. Standing(k)' = IF Falls(load[c], k) THEN S \cup {req[c]} ELSE S \ {req[c]}
  BY <1>1 DEF Standing, TypeOK
<1>3. req[c] \in S <=> outcome[req[c]] # NoPayload /\ Falls(outcome[req[c]], k)
  BY <1>1 DEF Standing
<1>4. /\ Contract!Weight(load[c], k) = IF Falls(load[c], k) THEN 1 ELSE 0
      /\ Contract!Weight(outcome[req[c]], k) = IF req[c] \in S THEN 1 ELSE 0
  BY <1>1, <1>3 DEF Contract!Weight
<1>5. IsFiniteSet(S) /\ Cardinality(S) \in Nat
  BY RequestsAssumption, FS_Subset, FS_CardinalityType DEF Standing
<1>6. CASE Falls(load[c], k) /\ req[c] \notin S
  <2>1. Standing(k)' = S \cup {req[c]} /\ Cardinality(S \cup {req[c]}) = Cardinality(S) + 1
    BY <1>2, <1>5, <1>6, FS_AddElement
  <2> QED BY <1>4, <1>5, <1>6, <2>1
<1>7. CASE ~Falls(load[c], k) /\ req[c] \in S
  <2>1. Standing(k)' = S \ {req[c]} /\ Cardinality(S \ {req[c]}) = Cardinality(S) - 1
    BY <1>2, <1>5, <1>7, FS_RemoveElement
  <2> QED BY <1>4, <1>5, <1>7, <2>1
<1>8. CASE Falls(load[c], k) <=> req[c] \in S
  <2>1. Standing(k)' = S
    BY <1>2, <1>8
  <2> QED BY <1>4, <1>5, <1>8, <2>1
<1> QED BY <1>6, <1>7, <1>8

(* The sets the mapping counts are finite.                                   *)
LEMMA MappingIsNumbers ==
  \A k \in Keys : /\ IsFiniteSet(Loose(k)) /\ Cardinality(Loose(k)) \in Nat
                  /\ Cardinality(Standing(k)) \in Nat
  BY RequestsAssumption, CallsAssumption, FS_Subset, FS_CardinalityType DEF Loose, Standing

(* Storing an outcome is the contract's Finalize.                            *)
LEMMA FinalizeStep ==
  ASSUME TypeOK, LocalInv, SerialInv, ReplaceInv, ~Faults, MappingPlain, MappingPlain',
         NEW c \in Calls, SetOutcome(c)
  PROVE  Contract!Next
<1>1. /\ req[c] \in Requests /\ load[c] \in Payloads /\ pc[c] = "set"
      /\ seen[c] = outcome[req[c]]
      /\ outcome' = [outcome EXCEPT ![req[c]] = load[c]]
  BY DEF SetOutcome, LocalInv, SerialInv
<1>2. outcome[req[c]] = NoPayload \/ ShouldReplace(outcome[req[c]], load[c])
  BY <1>1 DEF ReplaceInv
<1>3. ~StartsLoose(c) /\ Step(c)
  BY <1>1 DEF StartsLoose, Count, CountTimeout, Step
<1>4. \A k \in Keys : Loose(k)' = Loose(k)
  BY <1>3, LooseStays
<1>5. AnonymousTally' = AnonymousTally
  <2>1. \A k \in Keys : AnonymousTally'[k] = AnonymousTally[k]
    BY <1>4 DEF MappingPlain
  <2> QED BY <2>1 DEF AnonymousTally
<1>6. SettledTally' = [k \in Keys |-> SettledTally[k] + Contract!Weight(load[c], k)
                                        - Contract!Weight(outcome[req[c]], k)]
  <2>1. ASSUME NEW k \in Keys
        PROVE  SettledTally'[k] = SettledTally[k] + Contract!Weight(load[c], k)
                                    - Contract!Weight(outcome[req[c]], k)
    <3>1. /\ SettledTally[k] = Cardinality(Standing(k)) + Cardinality(Loose(k))
          /\ SettledTally'[k] = Cardinality(Standing(k)') + Cardinality(Loose(k))
      BY <1>4 DEF MappingPlain
    <3>2. /\ Contract!Weight(load[c], k) \in Int
          /\ Contract!Weight(outcome[req[c]], k) \in Int
      BY DEF Contract!Weight
    <3> QED BY <3>1, <3>2, StandingMoves, MappingIsNumbers
  <2> QED BY <2>1 DEF SettledTally
<1>7. Contract!Kinds = Keys
  BY DEF Contract!Kinds, Keys, Decisions
<1>8. Contract!Finalize(req[c], load[c])
  BY <1>1, <1>2, <1>5, <1>6, <1>7 DEF Contract!Finalize
<1> QED BY <1>1, <1>8 DEF Contract!Next

(* The first count of a call without an outcome is FinalizeAnonymous or      *)
(* RecordTimeout.                                                            *)
LEMMA LooseStep ==
  ASSUME TypeOK, LocalInv, MappingPlain, MappingPlain', NEW c \in Calls, Step(c), StartsLoose(c)
  PROVE  Contract!Next
<1>1. outcome' = outcome
  BY DEF StartsLoose, Count, CountTimeout
<1>2. ASSUME NEW k \in Keys
      PROVE  Cardinality(Loose(k)') =
               Cardinality(Loose(k)) + (IF Falls(load[c], k) THEN 1 ELSE 0)
  BY LooseGrows, MappingIsNumbers, FS_AddElement
<1>3. \A k \in Keys : Standing(k)' = Standing(k)
  BY <1>1 DEF Standing
<1>4. /\ AnonymousTally' = [k \in Keys |-> AnonymousTally[k] + (IF Falls(load[c], k) THEN 1 ELSE 0)]
      /\ SettledTally' = [k \in Keys |-> SettledTally[k] + (IF Falls(load[c], k) THEN 1 ELSE 0)]
  <2>1. ASSUME NEW k \in Keys
        PROVE  /\ AnonymousTally'[k] = AnonymousTally[k] + (IF Falls(load[c], k) THEN 1 ELSE 0)
               /\ SettledTally'[k] = SettledTally[k] + (IF Falls(load[c], k) THEN 1 ELSE 0)
    <3>1. /\ AnonymousTally[k] = Cardinality(Loose(k))
          /\ AnonymousTally'[k] = Cardinality(Loose(k)')
          /\ SettledTally[k] = Cardinality(Standing(k)) + Cardinality(Loose(k))
          /\ SettledTally'[k] = Cardinality(Standing(k)) + Cardinality(Loose(k)')
      BY <1>3 DEF MappingPlain
    <3> QED BY <1>2, <3>1, MappingIsNumbers
  <2> QED BY <2>1 DEF AnonymousTally, SettledTally
<1>5. Contract!Kinds = Keys
  BY DEF Contract!Kinds, Keys, Decisions
<1>6. CASE Count(c) /\ req[c] = NoRequest
  <2>1. load[c] \in Payloads /\ load[c] # NoPayload
    BY <1>6, PayloadShape DEF Count, LocalInv
  <2>2. \A k \in Keys : Contract!Weight(load[c], k) = IF Falls(load[c], k) THEN 1 ELSE 0
    BY <2>1 DEF Contract!Weight
  <2>3. Contract!FinalizeAnonymous(load[c])
    BY <1>1, <1>4, <1>5, <2>2 DEF Contract!FinalizeAnonymous
  <2> QED BY <2>1, <2>3 DEF Contract!Next
<1>7. CASE CountTimeout(c) /\ load[c] = HealthOnly
  <2>1. \A k \in Keys : Falls(load[c], k) <=> k = "timeouts"
    BY <1>7, PayloadShape DEF Falls, Keys, Decisions
  <2>2. /\ AnonymousTally = [k \in Keys |-> AnonymousTally[k]]
        /\ SettledTally = [k \in Keys |-> SettledTally[k]]
        /\ \A k \in Keys : AnonymousTally[k] \in Int /\ SettledTally[k] \in Int
    <3>1. \A k \in Keys : AnonymousTally[k] \in Int /\ SettledTally[k] \in Int
      BY MappingIsNumbers DEF MappingPlain
    <3> QED BY <3>1 DEF AnonymousTally, SettledTally
  <2>3. /\ AnonymousTally' = [AnonymousTally EXCEPT !["timeouts"] = @ + 1]
        /\ SettledTally' = [SettledTally EXCEPT !["timeouts"] = @ + 1]
    <3> DEFINE A == AnonymousTally
               T == SettledTally
    <3>1. A' = [k \in Keys |-> A[k] + (IF k = "timeouts" THEN 1 ELSE 0)]
      BY <1>4, <2>1
    <3>2. T' = [k \in Keys |-> T[k] + (IF k = "timeouts" THEN 1 ELSE 0)]
      BY <1>4, <2>1
    <3>3. A = [k \in Keys |-> A[k]] /\ T = [k \in Keys |-> T[k]]
          /\ \A k \in Keys : A[k] \in Int /\ T[k] \in Int
      BY <2>2
    <3> HIDE DEF A, T
    <3>4. A' = [A EXCEPT !["timeouts"] = @ + 1]
      BY <3>1, <3>3
    <3>5. T' = [T EXCEPT !["timeouts"] = @ + 1]
      BY <3>2, <3>3
    <3> QED BY <3>4, <3>5 DEF A, T
  <2>4. Contract!RecordTimeout
    BY <1>1, <2>3 DEF Contract!RecordTimeout
  <2> QED BY <2>4 DEF Contract!Next
<1> QED BY <1>6, <1>7 DEF StartsLoose

(* Every step of the store is one of the contract's or changes nothing that  *)
(* the contract speaks of.                                                   *)
LEMMA StoreStep ==
  ASSUME ~Faults, ~Aging, TypeOK, LocalInv, SerialInv, ReplaceInv,
         MappingPlain, MappingPlain', [Next]_vars
  PROVE  [Contract!Next]_(Contract!vars)
<1>1. ASSUME outcome' = outcome, \A k \in Keys : Loose(k)' = Loose(k)
      PROVE  UNCHANGED Contract!vars
  <2>1. \A k \in Keys : Standing(k)' = Standing(k)
    BY <1>1 DEF Standing
  <2>2. \A k \in Keys : /\ AnonymousTally'[k] = AnonymousTally[k]
                        /\ SettledTally'[k] = SettledTally[k]
    BY <1>1, <2>1 DEF MappingPlain
  <2>3. AnonymousTally' = AnonymousTally /\ SettledTally' = SettledTally
    BY <2>2 DEF AnonymousTally, SettledTally
  <2> QED BY <1>1, <2>3 DEF Contract!vars
<1>2. ASSUME NEW c \in Calls, Step(c) PROVE [Contract!Next]_(Contract!vars)
  <2>1. CASE SetOutcome(c)
    BY <2>1, FinalizeStep
  <2>2. CASE StartsLoose(c)
    BY <1>2, <2>2, LooseStep
  <2>3. CASE ~SetOutcome(c) /\ ~StartsLoose(c)
    <3>1. outcome' = outcome
      BY <1>2, <2>3, OwnMoves, BeginFacts DEF store
    <3>2. \A k \in Keys : Loose(k)' = Loose(k)
      BY <1>2, <2>3, LooseStays
    <3> QED BY <1>1, <3>1, <3>2
  <2> QED BY <2>1, <2>2, <2>3
<1>3. CASE UNCHANGED vars
  <2>1. \A k \in Keys : Loose(k)' = Loose(k)
    BY <1>3 DEF vars, store, Loose, IsLoose
  <2> QED BY <1>1, <1>3, <2>1 DEF vars, store
<1>4. ~Expiry
  BY DEF Expiry, CounterExpires, OutcomeExpires, EventExpires, LastExpires
<1> QED BY <1>2, <1>3, <1>4 DEF Next

(* finalize_outcome and record_timeout_fallback, up to nine Redis commands    *)
(* that interleave with those of other requests, are the atomic finalization *)
(* of the contract while calls for one request do not overlap, no command    *)
(* fails and no key expires.                                                 *)
THEOREM ImplementsContractHolds ==
  ASSUME ~Overlap, ~Faults, ~Aging PROVE Spec => ImplementsContract
<1> DEFINE Inv == SerialInv /\ ReplaceInv /\ Exact
<1>1. Init => Inv /\ Contract!Init
  <2> SUFFICES ASSUME Init PROVE Inv /\ Contract!Init
    OBVIOUS
  <2>1. SerialInv /\ ReplaceInv
    BY InitSerial DEF Init, ReplaceInv, Dropping
  <2>2. ASSUME NEW k \in Keys
        PROVE  /\ CountedRequests(k) = {} /\ CountedCalls(k) = {}
               /\ Standing(k) = {} /\ Loose(k) = {}
    BY DEF Init, CountedRequests, CountedCalls, Past, Standing, Loose, IsLoose
  <2>3. Exact
    BY <2>2, FS_EmptySet DEF Init, Exact
  <2>4. \A k \in Keys : AnonymousTally[k] = 0 /\ SettledTally[k] = 0
    BY <2>2, <2>3, MappingIsPlain, FS_EmptySet DEF MappingPlain
  <2>5. AnonymousTally = [k \in Keys |-> 0] /\ SettledTally = [k \in Keys |-> 0]
    BY <2>4 DEF AnonymousTally, SettledTally
  <2>6. Contract!Kinds = Keys
    BY DEF Contract!Kinds, Keys, Decisions
  <2> QED BY <2>1, <2>3, <2>5, <2>6 DEF Init, Contract!Init
<1>2. TypeOK /\ LocalInv /\ Inv /\ [Next]_vars => Inv'
  <2> SUFFICES ASSUME TypeOK, LocalInv, SerialInv, ReplaceInv, Exact, [Next]_vars PROVE Inv'
    OBVIOUS
  <2>1. CASE \E c \in Calls : Step(c)
    BY <2>1, SerialPreserved, ReplacePreserved, ExactPreserved
  <2>2. CASE Expiry
    BY <2>2 DEF Expiry, CounterExpires, OutcomeExpires, EventExpires, LastExpires
  <2>3. CASE UNCHANGED vars
    BY <2>3 DEF vars, store, SerialInv, ReplaceInv, Exact, CountedRequests, CountedCalls, InFlux
  <2> QED BY <2>1, <2>2, <2>3 DEF Next
<1>3. TypeOK /\ LocalInv /\ Inv /\ MappingPlain /\ MappingPlain' /\ [Next]_vars
        => [Contract!Next]_(Contract!vars)
  BY StoreStep
<1>4. Inv => MappingPlain
  BY MappingIsPlain
<1> QED BY <1>1, <1>2, <1>3, <1>4, TypeCorrect, PTL DEF Spec, ImplementsContract, Contract!Spec
=============================================================================
