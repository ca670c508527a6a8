------------------------ MODULE KeysAndAlertsProofs -------------------------
(***************************************************************************)
(* Theorems about IngestKeys, ProtectNotices and DetectorIncidents, for any *)
(* number of keys, requests, calls, notices and ingests, and any windows.  *)
(***************************************************************************)
EXTENDS IngestKeys, ProtectNotices, DetectorIncidents, FiniteSetTheorems,
        WellFoundedInduction, TLAPS

Halfway == {o \in Owners : step[o] = "replace"}

(* KeysBalance while the project stands, where usable keys are active keys.   *)
Balance ==
  listed =>
    Cardinality(ActiveKeys) + Cardinality(revoked) + Cardinality(Halfway) + broken
      >= Cardinality(created)

(* A key that is still to be inserted has no history, a key that the revoke    *)
(* endpoint took stays taken, and a change knows the key it is about.          *)
KeysInv ==
  /\ KeysTypeOK
  /\ \A k \in created \cup revoked : key[k] # "none"
  /\ \A k \in revoked : key[k] # "active"
  /\ \A o \in Owners : step[o] \in {"revoke", "rotate"} => target[o] \in KeyIds
  /\ Balance

(* The sets of keys and callers that Balance counts are finite.               *)
LEMMA KeySetsFinite ==
  ASSUME KeysTypeOK
  PROVE  /\ IsFiniteSet(ActiveKeys) /\ IsFiniteSet(revoked)
         /\ IsFiniteSet(Halfway) /\ IsFiniteSet(created)
         /\ Cardinality(ActiveKeys) \in Nat /\ Cardinality(revoked) \in Nat
         /\ Cardinality(Halfway) \in Nat /\ Cardinality(created) \in Nat
<1>1. /\ ActiveKeys \in SUBSET KeyIds /\ Halfway \in SUBSET Owners
      /\ revoked \in SUBSET KeyIds /\ created \in SUBSET KeyIds
  BY DEF ActiveKeys, Halfway, KeysTypeOK
<1>2. /\ IsFiniteSet(ActiveKeys) /\ IsFiniteSet(revoked)
      /\ IsFiniteSet(Halfway) /\ IsFiniteSet(created)
  BY <1>1, FS_Subset, FiniteAssumption
<1> QED BY <1>2, FS_CardinalityType

(* A request that asks, or that ends before anything of it was committed.     *)
LEMMA NothingCommitted ==
  ASSUME KeysInv, UNCHANGED <<listed, key, created, revoked, broken>>, KeysTypeOK',
         Halfway' = Halfway,
         \A o \in Owners : step'[o] \in {"revoke", "rotate"} => target'[o] \in KeyIds
  PROVE  KeysInv'
BY DEF KeysInv, Balance, ActiveKeys

(* A request for a key changes no key.                                        *)
LEMMA AskKeeps ==
  ASSUME KeysInv, NEW o \in Owners,
         AskCreate(o) \/ \E k \in KeyIds : AskChange(o, k, "revoke") \/ AskChange(o, k, "rotate")
  PROVE  KeysInv'
<1>1. /\ KeysTypeOK' /\ UNCHANGED <<listed, key, created, revoked, broken>>
      /\ Halfway' = Halfway
      /\ \A p \in Owners : step'[p] \in {"revoke", "rotate"} => target'[p] \in KeyIds
  BY DEF AskCreate, AskChange, Move, KeysInv, KeysTypeOK, Steps, Statuses, Halfway
<1> QED BY <1>1, NothingCommitted

(* The two inserts: an active key more.  It is one more created, or one       *)
(* rotation less under way.                                                  *)
LEMMA InsertKeeps ==
  ASSUME KeysInv, NEW o \in Owners, NEW k \in KeyIds, CreateKey(o, k) \/ RotateCreate(o, k)
  PROVE  KeysInv'
<1>1. KeysTypeOK' /\ key[k] = "none" /\ key' = [key EXCEPT ![k] = "active"] /\ listed
  BY DEF KeysInv, KeysTypeOK, CreateKey, RotateCreate, Insert, Return, Move, Steps, Statuses
<1>2. ActiveKeys' = ActiveKeys \cup {k} /\ k \notin ActiveKeys
  BY <1>1 DEF ActiveKeys, KeysInv, KeysTypeOK
<1>3. Cardinality(ActiveKeys') = Cardinality(ActiveKeys) + 1
  BY <1>2, KeySetsFinite, FS_AddElement DEF KeysInv
<1>4. /\ UNCHANGED <<revoked, broken>>
      /\ \A p \in Owners : step'[p] \in {"revoke", "rotate"} => target'[p] \in KeyIds
  BY DEF KeysInv, KeysTypeOK, CreateKey, RotateCreate, Return, Move
<1>5. CASE CreateKey(o, k)
  <2>1. created' = created \cup {k} /\ k \notin created /\ Halfway' = Halfway
    BY <1>1, <1>5 DEF CreateKey, Return, Move, Halfway, KeysInv, KeysTypeOK
  <2>2. Cardinality(created') = Cardinality(created) + 1
    BY <2>1, KeySetsFinite, FS_AddElement DEF KeysInv
  <2>3. Balance'
    BY <1>1, <1>3, <1>4, <2>1, <2>2, KeySetsFinite DEF KeysInv, KeysTypeOK, Balance
  <2> QED BY <1>1, <1>4, <2>1, <2>3 DEF KeysInv, KeysTypeOK
<1>6. CASE RotateCreate(o, k)
  <2>1. created' = created /\ Halfway' = Halfway \ {o} /\ o \in Halfway
    BY <1>6 DEF RotateCreate, Return, Move, Halfway, KeysInv, KeysTypeOK
  <2>2. Cardinality(Halfway') = Cardinality(Halfway) - 1
    BY <2>1, KeySetsFinite, FS_RemoveElement DEF KeysInv
  <2>3. Balance'
    BY <1>1, <1>3, <1>4, <2>1, <2>2, KeySetsFinite DEF KeysInv, KeysTypeOK, Balance
  <2> QED BY <1>1, <1>4, <2>1, <2>3 DEF KeysInv, KeysTypeOK
<1> QED BY <1>5, <1>6

(* The revoke endpoint: an active key less is one more that it revoked.       *)
LEMMA RevokeKeeps ==
  ASSUME KeysInv, NEW o \in Owners, RevokeKey(o)
  PROVE  KeysInv'
<1> DEFINE k == target[o]
<1>1. /\ KeysTypeOK' /\ k \in KeyIds /\ key' = MarkRevoked(k)
      /\ Halfway' = Halfway /\ UNCHANGED <<listed, created, broken>>
      /\ revoked' = IF key[k] = "active" THEN revoked \cup {k} ELSE revoked
      /\ \A p \in Owners : step'[p] \in {"revoke", "rotate"} => target'[p] \in KeyIds
  BY DEF RevokeKey, MarkRevoked, Return, Move, KeysInv, KeysTypeOK, Halfway, Steps, Statuses
<1>2. CASE key[k] = "active"
  <2>1. ActiveKeys' = ActiveKeys \ {k} /\ k \in ActiveKeys /\ k \notin revoked
    BY <1>1, <1>2 DEF ActiveKeys, MarkRevoked, KeysInv, KeysTypeOK
  <2>2. /\ Cardinality(ActiveKeys') = Cardinality(ActiveKeys) - 1
        /\ Cardinality(revoked') = Cardinality(revoked) + 1
    BY <1>1, <1>2, <2>1, KeySetsFinite, FS_AddElement, FS_RemoveElement DEF KeysInv
  <2>3. Balance'
    BY <1>1, <2>2, KeySetsFinite DEF KeysInv, KeysTypeOK, Balance
  <2> QED BY <1>1, <1>2, <2>3 DEF KeysInv, KeysTypeOK, MarkRevoked
<1>3. CASE key[k] # "active"
  <2>1. key' = key
    BY <1>1, <1>3 DEF MarkRevoked, KeysInv, KeysTypeOK
  <2> QED BY <1>1, <1>3, <2>1, NothingCommitted
<1> QED BY <1>2, <1>3

(* rotate_key, first transaction: an active key less at most, and one more     *)
(* rotation under way.                                                        *)
LEMMA RotateKeeps ==
  ASSUME KeysInv, NEW o \in Owners, RotateRevoke(o)
  PROVE  KeysInv'
<1> DEFINE k == target[o]
<1>1. /\ KeysTypeOK' /\ k \in KeyIds /\ UNCHANGED <<listed, created, revoked, broken>>
      /\ \A p \in Owners : step'[p] \in {"revoke", "rotate"} => target'[p] \in KeyIds
  BY DEF RotateRevoke, MarkRevoked, Return, Move, KeysInv, KeysTypeOK, Steps, Statuses
<1>2. CASE key[k] = "deleted"
  <2>1. key' = key /\ Halfway' = Halfway
    BY <1>2 DEF RotateRevoke, Return, Move, Halfway, KeysInv, KeysTypeOK
  <2> QED BY <1>1, <2>1, NothingCommitted
<1>3. CASE key[k] # "deleted"
  <2>1. key' = MarkRevoked(k) /\ Halfway' = Halfway \cup {o} /\ o \notin Halfway
    BY <1>3 DEF RotateRevoke, Move, Halfway, KeysInv, KeysTypeOK
  <2>2. Cardinality(Halfway') = Cardinality(Halfway) + 1
    BY <2>1, KeySetsFinite, FS_AddElement DEF KeysInv
  <2>3. ActiveKeys' = ActiveKeys \ {k}
    BY <1>1, <2>1 DEF ActiveKeys, MarkRevoked, KeysInv, KeysTypeOK
  <2>4. Cardinality(ActiveKeys') >= Cardinality(ActiveKeys) - 1
    <3>1. Cardinality(ActiveKeys') =
            IF k \in ActiveKeys THEN Cardinality(ActiveKeys) - 1 ELSE Cardinality(ActiveKeys)
      BY <2>3, KeySetsFinite, FS_RemoveElement DEF KeysInv
    <3>2. Cardinality(ActiveKeys) \in Nat
      BY KeySetsFinite DEF KeysInv
    <3> QED BY <3>1, <3>2
  <2>5. Cardinality(ActiveKeys') \in Nat
    BY <1>1, <2>3, KeySetsFinite, FS_RemoveElement, FS_CardinalityType DEF KeysInv
  <2>6. Balance'
    BY <1>1, <2>2, <2>4, <2>5, KeySetsFinite DEF KeysInv, KeysTypeOK, Balance
  <2> QED BY <1>1, <2>1, <2>6 DEF KeysInv, KeysTypeOK, MarkRevoked
<1> QED BY <1>2, <1>3

(* A rotation that breaks in its gap has lost the key it revoked, and is      *)
(* counted as broken.                                                         *)
LEMMA BreakKeeps ==
  ASSUME KeysInv, NEW o \in Owners, Break(o)
  PROVE  KeysInv'
<1>1. /\ KeysTypeOK' /\ UNCHANGED <<listed, key, created, revoked>>
      /\ Halfway' = Halfway \ {o}
      /\ broken' = IF o \in Halfway THEN broken + 1 ELSE broken
      /\ \A p \in Owners : step'[p] \in {"revoke", "rotate"} => target'[p] \in KeyIds
  BY DEF Break, Return, Move, KeysInv, KeysTypeOK, Halfway, Steps
<1>2. /\ Cardinality(Halfway') =
           IF o \in Halfway THEN Cardinality(Halfway) - 1 ELSE Cardinality(Halfway)
  BY <1>1, KeySetsFinite, FS_RemoveElement DEF KeysInv
<1>3. Balance'
  BY <1>1, <1>2, KeySetsFinite DEF KeysInv, KeysTypeOK, Balance, ActiveKeys
<1> QED BY <1>1, <1>3 DEF KeysInv

(* Nothing is claimed of the keys of a deleted project.                       *)
LEMMA DeleteKeeps == KeysInv /\ DeleteProject => KeysInv'
BY DEF KeysInv, KeysTypeOK, DeleteProject, Balance, Statuses

(* KeysInv is inductive.                                                      *)
LEMMA KeysStep == KeysInv /\ [KeysNext]_keyVars => KeysInv'
<1>1. ASSUME KeysInv, UNCHANGED keyVars PROVE KeysInv'
  BY <1>1 DEF KeysInv, KeysTypeOK, Balance, ActiveKeys, Halfway, keyVars
<1> QED
  BY <1>1, AskKeeps, InsertKeeps, RevokeKeeps, RotateKeeps, BreakKeeps, DeleteKeeps DEF KeysNext

(* A project starts without keys.                                             *)
LEMMA KeysInitInv == KeysInit => KeysInv
<1> SUFFICES ASSUME KeysInit PROVE KeysInv
  OBVIOUS
<1>1. KeysTypeOK
  BY DEF KeysInit, KeysTypeOK, Statuses, Steps
<1>2. Balance
  BY <1>1, KeySetsFinite, FS_EmptySet DEF KeysInit, Balance
<1> QED BY <1>1, <1>2 DEF KeysInit, KeysInv

(* Access is lost only to what took it away, for any number of keys and of     *)
(* requests that revoke, rotate and fail at once.                             *)
THEOREM KeysBalanceHolds == KeysSpec => []KeysBalance
<1>1. KeysInv => KeysBalance
  <2> SUFFICES ASSUME KeysInv, listed
               PROVE  Cardinality({k \in KeyIds : Resolves(k)}) + Cardinality(revoked)
                        + Cardinality({o \in Owners : step[o] = "replace"}) + broken
                        >= Cardinality(created)
    BY DEF KeysBalance
  <2>1. {k \in KeyIds : Resolves(k)} = ActiveKeys
    BY DEF Resolves, ActiveKeys
  <2> QED BY <2>1 DEF KeysInv, Balance, Halfway
<1> QED
  BY <1>1, KeysInitInv, KeysStep, PTL DEF KeysSpec

-----------------------------------------------------------------------------
(* Notices.                                                                  *)

Marks ==
  {<<>>, <<"clamp_started">>} \cup {<<"cooldown_block", u>> : u \in Nat}
    \cup {<<"fail_closed", r>> : r \in Reported}

Notices ==
  [place : {"none", "task", "claim", "webhook", "email", "over"},
   kind : {"none", "block", "cooldown_block", "clamp_started", "fail_closed", "incident"},
   mark : Marks, ttl : Nat, claimed : Nat \cup {NoTime}]

NoticesTypeOK ==
  /\ tick \in Nat
  /\ blockedUntil \in Nat \cup {NoTime}
  /\ \A m \in markers : m.expires \in Nat
  /\ notice \in [Notifiers -> Notices]

HasMark(c) == notice[c].mark # <<>>

Claimed(c) == HasMark(c) /\ notice[c].claimed # NoTime

(* A marker names the kind of its notice, and what has one claims it before it *)
(* is announced.                                                             *)
ClaimedFirst(c) ==
  /\ HasMark(c) => notice[c].kind = notice[c].mark[1]
  /\ notice[c].place \in {"webhook", "email"} /\ HasMark(c) => notice[c].claimed # NoTime
  /\ \A channel \in Channels :
       <<channel, c>> \in announced =>
         notice[c].place # "none" /\ (HasMark(c) => notice[c].claimed # NoTime)

(* The time to live asked for lasts, however late the marker is claimed.      *)
LongEnough(c) ==
  notice[c].place \in {"task", "claim"} /\ HasMark(c) =>
    IF notice[c].kind = "cooldown_block"
    THEN tick + notice[c].ttl * TicksPerSecond >= notice[c].mark[2]
    ELSE notice[c].ttl = DedupSeconds

(* The marker of a claimed notice is there until others may announce the same. *)
MarkerStays(c) ==
  /\ notice[c].claimed <= tick
  /\ QuietUntil(c) \in Nat
  /\ tick < QuietUntil(c) =>
       \E m \in markers : m.mark = notice[c].mark /\ m.expires >= QuietUntil(c)

(* Claims of one marker are as far apart as it lasts.                         *)
Apart(c, d) ==
  /\ c # d /\ Claimed(c) /\ Claimed(d)
  /\ notice[c].mark = notice[d].mark
  /\ notice[c].claimed <= notice[d].claimed
  => notice[d].claimed >= QuietUntil(c)

NoticesInv ==
  /\ NoticesTypeOK
  /\ \A c \in Notifiers : ClaimedFirst(c) /\ LongEnough(c)
  /\ \A c \in Notifiers : Claimed(c) => MarkerStays(c)
  /\ \A c, d \in Notifiers : Apart(c, d)

(* The times to live are natural numbers, in seconds and in ticks.            *)
LEMMA TimesOK ==
  /\ TicksPerSecond \in Nat /\ TicksPerSecond > 0
  /\ DedupSeconds \in Nat /\ CooldownSeconds \in Nat
  /\ DedupSeconds * TicksPerSecond \in Nat /\ DedupSeconds * TicksPerSecond > 0
  /\ CooldownSeconds * TicksPerSecond \in Nat
<1>1. /\ TicksPerSecond \in Nat /\ TicksPerSecond > 0
      /\ DedupSeconds \in Nat /\ DedupSeconds > 0 /\ CooldownSeconds \in Nat
  BY TimesAssumption
<1> QED BY <1>1

(* So is every number of seconds, in ticks.                                   *)
LEMMA TimesOfSeconds == \A n \in Nat : n * TicksPerSecond \in Nat
BY TimesOK

(* Rounded up, the seconds are never short.                                   *)
LEMMA RetryAfterLasts ==
  ASSUME tick \in Nat, NEW until \in Nat, tick < until
  PROVE  /\ RetryAfter(until) \in Nat
         /\ tick + RetryAfter(until) * TicksPerSecond >= until
<1> DEFINE a == until - tick + TicksPerSecond - 1
           q == a \div TicksPerSecond
<1>1. a \in Nat
  BY TimesOK
<1>2. q \in Nat /\ a < q * TicksPerSecond + TicksPerSecond
  BY <1>1, TimesOK
<1>3. q * TicksPerSecond \in Nat
  BY <1>2, TimesOfSeconds
<1>4. tick + q * TicksPerSecond >= until
  BY <1>2, <1>3, TimesOK
<1> QED BY <1>2, <1>4 DEF RetryAfter

(* The step of a call whose marker nobody claims now.                         *)
LEMMA OthersStay ==
  ASSUME NoticesInv, NEW c \in Notifiers, NoticesTypeOK',
         UNCHANGED <<tick, markers>>,
         \A d \in Notifiers \ {c} : notice'[d] = notice[d],
         \A d \in Notifiers \ {c}, channel \in Channels :
           <<channel, d>> \in announced' => <<channel, d>> \in announced,
         ClaimedFirst(c)', LongEnough(c)',
         \/ ~Claimed(c)'
         \/ /\ notice'[c].mark = notice[c].mark /\ notice'[c].kind = notice[c].kind
            /\ notice'[c].claimed = notice[c].claimed
  PROVE  NoticesInv'
<1>1. \A d \in Notifiers : ClaimedFirst(d)' /\ LongEnough(d)'
  BY DEF NoticesInv, ClaimedFirst, LongEnough, HasMark
<1>2. \A d \in Notifiers : Claimed(d)' =>
        /\ notice'[d].mark = notice[d].mark /\ notice'[d].kind = notice[d].kind
        /\ notice'[d].claimed = notice[d].claimed
        /\ Claimed(d) /\ QuietUntil(d)' = QuietUntil(d)
  BY DEF Claimed, HasMark, QuietUntil
<1>3. \A d \in Notifiers : Claimed(d)' => MarkerStays(d)'
  BY <1>2 DEF NoticesInv, MarkerStays
<1>4. \A d, e \in Notifiers : Apart(d, e)'
  BY <1>2 DEF NoticesInv, Apart
<1> QED BY <1>1, <1>3, <1>4 DEF NoticesInv

(* A step that changes no notice, no marker and no row.                       *)
LEMMA NothingAnnounced ==
  ASSUME NoticesInv, UNCHANGED <<markers, notice, announced>>, NoticesTypeOK', tick' >= tick
  PROVE  NoticesInv'
<1>1. \A c \in Notifiers : ClaimedFirst(c)' /\ (Claimed(c)' => Claimed(c))
  BY DEF NoticesInv, ClaimedFirst, HasMark, Claimed
<1>2. \A c \in Notifiers : QuietUntil(c)' = QuietUntil(c)
  BY DEF QuietUntil
<1>3. \A c \in Notifiers : LongEnough(c)'
  <2> SUFFICES ASSUME NEW c \in Notifiers, notice[c].place \in {"task", "claim"}, HasMark(c),
                      notice[c].kind = "cooldown_block"
               PROVE  tick' + notice[c].ttl * TicksPerSecond >= notice[c].mark[2]
    BY DEF LongEnough, HasMark, NoticesInv
  <2>1. notice[c].mark[2] \in Nat
    BY DEF HasMark, NoticesInv, ClaimedFirst, NoticesTypeOK, Notices, Marks
  <2>2. notice[c].ttl * TicksPerSecond \in Nat
    BY TimesOfSeconds DEF NoticesInv, NoticesTypeOK, Notices
  <2> QED BY <2>1, <2>2 DEF NoticesInv, LongEnough, HasMark, NoticesTypeOK
<1>4. \A c \in Notifiers : Claimed(c)' => MarkerStays(c)'
  <2> SUFFICES ASSUME NEW c \in Notifiers, Claimed(c) PROVE MarkerStays(c)'
    BY <1>1
  <2>1. MarkerStays(c) /\ notice[c].claimed \in Nat
    BY DEF NoticesInv, Claimed, NoticesTypeOK, Notices
  <2> QED BY <1>2, <2>1 DEF MarkerStays, NoticesInv, NoticesTypeOK
<1>5. \A c, d \in Notifiers : Apart(c, d)'
  BY <1>1, <1>2 DEF NoticesInv, Apart
<1> QED BY <1>1, <1>3, <1>4, <1>5 DEF NoticesInv

(* A notice is made: what it asks for lasts long enough.                      *)
LEMMA MakeNotice ==
  ASSUME NoticesInv, NEW c \in Notifiers,
         \/ BlockNotice(c) \/ CooldownNotice(c) \/ ClampNotice(c) \/ DetectionNotice(c)
         \/ \E r \in Reported : FailClosedNotice(c, r)
  PROVE  NoticesInv'
<1>1. PICK n \in Notices :
        /\ notice' = [notice EXCEPT ![c] = n] /\ n.claimed = NoTime /\ n.place # "none"
        /\ n.mark # <<>> => n.kind = n.mark[1] /\ n.place \in {"task", "claim"}
        /\ n.mark # <<>> =>
             IF n.kind = "cooldown_block"
             THEN tick + n.ttl * TicksPerSecond >= n.mark[2]
             ELSE n.ttl = DedupSeconds
        /\ UNCHANGED <<tick, markers, announced>>
        /\ blockedUntil' \in Nat \cup {NoTime}
  <2> DEFINE made(place, kind, mark, ttl) ==
               [place |-> place, kind |-> kind, mark |-> mark, ttl |-> ttl, claimed |-> NoTime]
  <2>1. CASE BlockNotice(c)
    <3>1. made("task", "block", <<>>, 0) \in Notices
      BY DEF Notices, Marks
    <3>2. tick + CooldownSeconds * TicksPerSecond \in Nat
      BY TimesOK DEF NoticesInv, NoticesTypeOK
    <3> QED BY <2>1, <3>1, <3>2 DEF BlockNotice, Announces
  <2>2. CASE CooldownNotice(c)
    <3> DEFINE seconds == RetryAfter(blockedUntil)
    <3>1. blockedUntil \in Nat /\ tick \in Nat /\ tick < blockedUntil
      BY <2>2 DEF CooldownNotice, InCooldown, NoticesInv, NoticesTypeOK
    <3>2. seconds \in Nat /\ tick + seconds * TicksPerSecond >= blockedUntil
      BY <3>1, RetryAfterLasts
    <3>3. seconds >= 1
      BY <3>1, <3>2, TimesOK
    <3> DEFINE n == made("task", "cooldown_block", <<"cooldown_block", blockedUntil>>, seconds)
    <3>4. n \in Notices
      BY <3>1, <3>2 DEF Notices, Marks
    <3>5. /\ notice' = [notice EXCEPT ![c] = n] /\ UNCHANGED <<tick, markers, announced>>
          /\ blockedUntil' = blockedUntil
      <4>1. (IF seconds < 1 THEN 1 ELSE seconds) = seconds
        BY <3>2, <3>3
      <4> QED BY <2>2, <4>1 DEF CooldownNotice, Announces
    <3>6. /\ n.claimed = NoTime /\ n.place = "task" /\ n.kind = "cooldown_block"
          /\ n.mark[1] = n.kind /\ n.mark[2] = blockedUntil /\ n.ttl = seconds
      OBVIOUS
    <3> HIDE DEF n
    <3> QED BY <3>1, <3>2, <3>4, <3>5, <3>6
  <2>3. CASE ClampNotice(c)
    <3>1. made("task", "clamp_started", <<"clamp_started">>, DedupSeconds) \in Notices
      BY TimesOK DEF Notices, Marks
    <3> QED BY <2>3, <3>1 DEF ClampNotice, Announces, NoticesInv, NoticesTypeOK
  <2>4. CASE DetectionNotice(c)
    <3>1. made("webhook", "incident", <<>>, 0) \in Notices
      BY DEF Notices, Marks
    <3> QED BY <2>4, <3>1 DEF DetectionNotice, Announces, NoticesInv, NoticesTypeOK
  <2>5. CASE \E r \in Reported : FailClosedNotice(c, r)
    <3>1. PICK r \in Reported : FailClosedNotice(c, r)
      BY <2>5
    <3>2. made("claim", "fail_closed", <<"fail_closed", r>>, DedupSeconds) \in Notices
      BY TimesOK DEF Notices, Marks
    <3> QED BY <3>1, <3>2 DEF FailClosedNotice, Announces, NoticesInv, NoticesTypeOK
  <2> QED BY <2>1, <2>2, <2>3, <2>4, <2>5
<1>2. NoticesTypeOK' /\ notice'[c] = n
  BY <1>1 DEF NoticesInv, NoticesTypeOK
<1>3. \A channel \in Channels : <<channel, c>> \notin announced
  BY DEF BlockNotice, CooldownNotice, ClampNotice, DetectionNotice, FailClosedNotice, Announces,
         NoticesInv, ClaimedFirst
<1>4. ClaimedFirst(c)' /\ LongEnough(c)' /\ ~Claimed(c)'
  BY <1>1, <1>2, <1>3 DEF ClaimedFirst, LongEnough, Claimed, HasMark
<1> QED BY <1>1, <1>2, <1>4, OthersStay DEF NoticesInv, NoticesTypeOK

(* A notice that is given up before its marker is set promises nothing.       *)
LEMMA ForgetNotice ==
  ASSUME NoticesInv, NEW c \in Notifiers, Forget(c),
         UNCHANGED <<tick, blockedUntil, markers, announced>>
  PROVE  NoticesInv'
<1>1. NoticesTypeOK' /\ ~HasMark(c)' /\ notice'[c].place = "over"
  BY DEF Forget, Silent, NoticesInv, NoticesTypeOK, Notices, Marks, HasMark
<1>2. ClaimedFirst(c)' /\ LongEnough(c)' /\ ~Claimed(c)'
  BY <1>1 DEF ClaimedFirst, LongEnough, Claimed, HasMark
<1> QED BY <1>1, <1>2, OthersStay DEF Forget, NoticesInv, NoticesTypeOK

(* A notice moves on, and may leave a row behind once it is past its claim.   *)
LEMMA MoveNotice ==
  ASSUME NoticesInv, NEW c \in Notifiers, NEW place \in {"claim", "webhook", "email", "over"},
         Reach(c, place), UNCHANGED <<tick, blockedUntil, markers>>,
         \A d \in Notifiers \ {c}, channel \in Channels :
           <<channel, d>> \in announced' => <<channel, d>> \in announced,
         \/ notice[c].place \in {"webhook", "email"} /\ place # "claim"
         \/ notice[c].place = "task" /\ announced' = announced
            /\ (place = "claim" \/ (place = "webhook" /\ notice[c].kind = "block"))
         \/ place = "over" /\ announced' = announced
  PROVE  NoticesInv'
<1>1. /\ NoticesTypeOK' /\ notice'[c] = [notice[c] EXCEPT !.place = place]
      /\ \A d \in Notifiers \ {c} : notice'[d] = notice[d]
  BY DEF Reach, NoticesInv, NoticesTypeOK, Notices
<1>2. /\ notice'[c].mark = notice[c].mark /\ notice'[c].kind = notice[c].kind
      /\ notice'[c].claimed = notice[c].claimed /\ notice'[c].ttl = notice[c].ttl
      /\ notice'[c].place = place
  BY <1>1 DEF NoticesInv, NoticesTypeOK, Notices
<1>3. HasMark(c) => notice[c].kind # "block"
  BY DEF HasMark, NoticesInv, ClaimedFirst, NoticesTypeOK, Notices, Marks
<1>4. ClaimedFirst(c)'
  BY <1>2, <1>3 DEF NoticesInv, ClaimedFirst, HasMark
<1>5. LongEnough(c)'
  BY <1>2 DEF NoticesInv, LongEnough, HasMark
<1> QED BY <1>1, <1>2, <1>4, <1>5, OthersStay

(* The marker is set: no other call holds one that still lasts, so whoever     *)
(* claimed it before may be followed.                                         *)
LEMMA ClaimNotice ==
  ASSUME NoticesInv, NEW c \in Notifiers, notice[c].place = "claim",
         ~Marked(notice[c].mark),
         markers' = {m \in markers : tick < m.expires} \cup
           {[mark |-> notice[c].mark, expires |-> tick + notice[c].ttl * TicksPerSecond]},
         notice' = [notice EXCEPT ![c].place = "webhook", ![c].claimed = tick],
         UNCHANGED <<tick, blockedUntil, announced>>
  PROVE  NoticesInv'
<1> DEFINE fresh == [mark |-> notice[c].mark,
                     expires |-> tick + notice[c].ttl * TicksPerSecond]
<1>1. tick \in Nat /\ fresh.expires \in Nat /\ notice[c] \in Notices /\ tick # NoTime
  BY TimesOfSeconds, TimesAssumption DEF NoticesInv, NoticesTypeOK, Notices
<1>2. /\ notice'[c].mark = notice[c].mark /\ notice'[c].kind = notice[c].kind
      /\ notice'[c].claimed = tick /\ notice'[c].place = "webhook"
      /\ \A d \in Notifiers \ {c} : notice'[d] = notice[d]
  BY DEF NoticesInv, NoticesTypeOK, Notices
<1>3. NoticesTypeOK'
  <2>1. notice' \in [Notifiers -> Notices]
    BY <1>1 DEF NoticesInv, NoticesTypeOK, Notices
  <2>2. \A m \in markers' : m.expires \in Nat
    BY <1>1 DEF NoticesInv, NoticesTypeOK
  <2> QED BY <2>1, <2>2 DEF NoticesInv, NoticesTypeOK
<1>4. \A d \in Notifiers : ClaimedFirst(d)' /\ LongEnough(d)'
  <2>1. ASSUME NEW d \in Notifiers \ {c} PROVE ClaimedFirst(d)' /\ LongEnough(d)'
    <3>1. notice'[d] = notice[d] /\ ClaimedFirst(d) /\ LongEnough(d)
      BY <1>2 DEF NoticesInv
    <3> QED BY <3>1 DEF ClaimedFirst, LongEnough, HasMark
  <2>2. ClaimedFirst(c)' /\ LongEnough(c)'
    <3>1. ClaimedFirst(c)
      BY DEF NoticesInv
    <3> QED BY <1>1, <1>2, <3>1 DEF ClaimedFirst, LongEnough, HasMark
  <2> QED BY <2>1, <2>2
<1>5. \A d \in Notifiers \ {c} :
        (Claimed(d)' => Claimed(d)) /\ QuietUntil(d)' = QuietUntil(d)
  <2> SUFFICES ASSUME NEW d \in Notifiers \ {c}
               PROVE  (Claimed(d)' => Claimed(d)) /\ QuietUntil(d)' = QuietUntil(d)
    OBVIOUS
  <2>1. notice'[d] = notice[d]
    BY <1>2
  <2> QED BY <2>1 DEF Claimed, HasMark, QuietUntil
<1>6. /\ QuietUntil(c)' = IF notice[c].kind = "cooldown_block" THEN notice[c].mark[2]
                          ELSE tick + DedupSeconds * TicksPerSecond
      /\ HasMark(c) => QuietUntil(c)' \in Nat /\ fresh.expires >= QuietUntil(c)'
  <2>1. QuietUntil(c)' = IF notice[c].kind = "cooldown_block" THEN notice[c].mark[2]
                         ELSE tick + DedupSeconds * TicksPerSecond
    BY <1>2 DEF QuietUntil
  <2>2. ASSUME HasMark(c), notice[c].kind = "cooldown_block"
        PROVE  notice[c].mark[2] \in Nat
    BY <2>2 DEF HasMark, NoticesInv, ClaimedFirst, NoticesTypeOK, Notices, Marks
  <2>3. HasMark(c) => IF notice[c].kind = "cooldown_block"
                      THEN fresh.expires >= notice[c].mark[2]
                      ELSE notice[c].ttl = DedupSeconds
    BY DEF NoticesInv, LongEnough
  <2> QED BY <1>1, <2>1, <2>2, <2>3, TimesOK
<1>7. \A d \in Notifiers : Claimed(d)' => MarkerStays(d)'
  <2>1. ASSUME HasMark(c) PROVE MarkerStays(c)'
    <3>1. fresh \in markers' /\ fresh.mark = notice[c].mark
      OBVIOUS
    <3>2. QuietUntil(c)' \in Nat /\ fresh.expires >= QuietUntil(c)'
      BY <1>6, <2>1
    <3>3. notice'[c].claimed <= tick'
      BY <1>1, <1>2
    <3> HIDE DEF fresh
    <3> QED BY <1>2, <3>1, <3>2, <3>3 DEF MarkerStays
  <2>2. ASSUME NEW d \in Notifiers \ {c}, Claimed(d)' PROVE MarkerStays(d)'
    <3>1. MarkerStays(d) /\ QuietUntil(d)' = QuietUntil(d) /\ notice'[d] = notice[d]
      BY <1>2, <1>5, <2>2 DEF NoticesInv
    <3>2. ASSUME tick < QuietUntil(d)
          PROVE  \E m \in markers' : m.mark = notice[d].mark /\ m.expires >= QuietUntil(d)
      <4>1. PICK m \in markers : m.mark = notice[d].mark /\ m.expires >= QuietUntil(d)
        BY <3>1, <3>2 DEF MarkerStays
      <4>2. tick < m.expires
        BY <1>1, <3>1, <3>2, <4>1 DEF MarkerStays, NoticesInv, NoticesTypeOK
      <4> QED BY <4>1, <4>2
    <3> QED BY <3>1, <3>2 DEF MarkerStays
  <2>3. Claimed(c)' => HasMark(c)
    BY <1>2 DEF Claimed, HasMark
  <2> QED BY <2>1, <2>2, <2>3
<1> DEFINE SameMark(d) == d \in Notifiers \ {c} /\ Claimed(d) /\ notice[d].mark = notice[c].mark
<1>8. \A d : SameMark(d) => QuietUntil(d) \in Nat /\ tick >= QuietUntil(d)
  <2> SUFFICES ASSUME NEW d, SameMark(d), ~(QuietUntil(d) \in Nat /\ tick >= QuietUntil(d))
               PROVE  FALSE
    OBVIOUS
  <2>1. MarkerStays(d) /\ tick < QuietUntil(d)
    BY <1>1 DEF NoticesInv, MarkerStays
  <2>2. PICK m \in markers : m.mark = notice[c].mark /\ m.expires >= QuietUntil(d)
    BY <2>1 DEF MarkerStays
  <2>3. tick < m.expires
    BY <1>1, <2>1, <2>2 DEF NoticesInv, NoticesTypeOK, MarkerStays
  <2> QED BY <2>2, <2>3 DEF Marked
<1>9. \A d, e \in Notifiers : Apart(d, e)'
  <2>1. ASSUME NEW d \in Notifiers, NEW e \in Notifiers, d # c, e # c PROVE Apart(d, e)'
    BY <1>2, <1>5, <2>1 DEF NoticesInv, Apart
  <2>2. ASSUME NEW d \in Notifiers \ {c} PROVE Apart(d, c)'
    BY <1>2, <1>5, <1>8 DEF Apart
  <2>3. ASSUME NEW d \in Notifiers \ {c} PROVE Apart(c, d)'
    <3> SUFFICES ASSUME Claimed(c)', Claimed(d)', notice[c].mark = notice[d].mark,
                        tick <= notice[d].claimed
                 PROVE  notice[d].claimed >= QuietUntil(c)'
      BY <1>2 DEF Apart
    <3>1. SameMark(d) /\ HasMark(c) /\ HasMark(d)
      BY <1>2, <1>5 DEF Claimed, HasMark
    <3>2. notice[d].claimed = tick /\ tick >= QuietUntil(d)
      BY <1>1, <1>8, <3>1 DEF NoticesInv, MarkerStays, Claimed, NoticesTypeOK, Notices
    <3>3. notice[c].kind = notice[d].kind
      BY <3>1 DEF NoticesInv, ClaimedFirst
    <3> QED BY <1>1, <1>6, <3>2, <3>3, TimesOK DEF QuietUntil
  <2>4. Apart(c, c)'
    BY DEF Apart
  <2> QED BY <2>1, <2>2, <2>3, <2>4
<1> QED BY <1>3, <1>4, <1>7, <1>9 DEF NoticesInv

(* Every step of a notice keeps NoticesInv.                                   *)
LEMMA NoticeStep ==
  ASSUME NoticesInv, NEW c \in Notifiers,
         \/ Postprocess(c) \/ MarkReport(c)
         \/ EnqueueWebhook(c) \/ EnqueueEmail(c) \/ DropNotice(c)
  PROVE  NoticesInv'
<1>1. CASE Postprocess(c)
  <2>1. CASE Reach(c, IF notice[c].kind = "block" THEN "webhook" ELSE "claim")
    <3>1. CASE notice[c].kind = "block"
      BY <1>1, <2>1, <3>1, MoveNotice DEF Postprocess
    <3>2. CASE notice[c].kind # "block"
      BY <1>1, <2>1, <3>2, MoveNotice DEF Postprocess
    <3> QED BY <3>1, <3>2
  <2> QED BY <1>1, <2>1, ForgetNotice DEF Postprocess
<1>2. CASE MarkReport(c)
  BY <1>2, ClaimNotice, ForgetNotice DEF MarkReport
<1>3. CASE EnqueueWebhook(c) \/ EnqueueEmail(c)
  <2>1. PICK place \in {"email", "over"}, channel \in {"webhook", "email"} :
          Enqueue(c, channel, place)
    BY <1>3 DEF EnqueueWebhook, EnqueueEmail
  <2> QED BY <2>1, MoveNotice DEF Enqueue
<1>4. CASE DropNotice(c)
  BY <1>4, MoveNotice, ForgetNotice DEF DropNotice
<1> QED BY <1>1, <1>2, <1>3, <1>4

(* NoticesInv is inductive: the clock only moves on, and lifting a cooldown   *)
(* touches no marker.                                                         *)
LEMMA NoticesStep == NoticesInv /\ [NoticesNext]_noticeVars => NoticesInv'
<1>1. ASSUME NoticesInv, LiftCooldown \/ NextTick \/ UNCHANGED noticeVars PROVE NoticesInv'
  <2>1. /\ UNCHANGED <<markers, notice, announced>>
        /\ tick' >= tick /\ NoticesTypeOK'
    BY <1>1 DEF LiftCooldown, NextTick, noticeVars, NoticesInv, NoticesTypeOK
  <2> QED BY <1>1, <2>1, NothingAnnounced
<1> QED
  BY <1>1, MakeNotice, NoticeStep DEF NoticesNext

(* Nothing is announced and no marker is set at first.                        *)
LEMMA NoticesInitInv == NoticesInit => NoticesInv
<1> SUFFICES ASSUME NoticesInit PROVE NoticesInv
  OBVIOUS
<1>1. NoticesTypeOK /\ \A c \in Notifiers : ~HasMark(c)
  BY DEF NoticesInit, NoticesTypeOK, Notices, Marks, Silent, HasMark
<1>2. \A c \in Notifiers : notice[c].place = "none" /\ announced = {}
  BY DEF NoticesInit, Silent
<1> QED
  BY <1>1, <1>2 DEF NoticesInv, ClaimedFirst, LongEnough, Claimed, HasMark, Apart

(* A channel announces one cooldown once while it lasts, clamping and a kept   *)
(* back request once per window, for any number of calls and any times to     *)
(* live: SET NX EX lets one call through, and rounding up keeps its marker     *)
(* until the cooldown ends.                                                   *)
THEOREM AnnouncedOnceHolds == NoticesSpec => []AnnouncedOnce
<1>1. NoticesInv => AnnouncedOnce
  BY DEF NoticesInv, AnnouncedOnce, ClaimedFirst, Apart, Claimed, HasMark
<1> QED
  BY <1>1, NoticesInitInv, NoticesStep, PTL DEF NoticesSpec

-----------------------------------------------------------------------------
(* The detectors' incidents.                                                  *)

DetectorNames == {"retry_storm", "loop_suspect", "token_explosion"}
Rows(prints) ==
  [print : prints, status : {"open", "resolved", "auto_resolved"},
   created : Nat, seen : Nat, count : Nat]

(* The types, with prints the fingerprints that signals have had so far.      *)
EpisodesTypeOK(prints) ==
  /\ \A p \in prints : p[1] \in DetectorNames
  /\ incidents \in Seq(Rows(prints))
  /\ clock \in Nat
  /\ at \in [Ingesters -> WorkerPlaces]
  /\ due \in [Ingesters -> Seq(prints)]
  /\ moment \in [Ingesters -> Nat]
  /\ found \in [Ingesters -> [row : Nat \cup {NoRow}, count : Nat]]
  /\ raced \in BOOLEAN /\ setBack \in BOOLEAN

(* An ingest has signals left until it is over, its time and those of the rows *)
(* are past, and the row it found is one of its signal's fingerprint.         *)
IngestsOK ==
  /\ \A i \in DOMAIN incidents : incidents[i].seen <= clock
  /\ \A w \in Ingesters :
       /\ moment[w] <= clock
       /\ at[w] \in {"screen", "lookup", "write"} => due[w] # <<>>
       /\ at[w] = "write" /\ found[w].row # NoRow =>
            /\ found[w].row \in DOMAIN incidents
            /\ incidents[found[w].row].print = Signal(w)

(* Two open incidents of a fingerprint are of two episodes.                   *)
RowsApart ==
  \A i, j \in DOMAIN incidents :
    /\ incidents[i].print = incidents[j].print
    /\ incidents[i].status = "open" /\ incidents[j].status = "open" /\ i # j
    => LET window == Episode[incidents[i].print[1]]
       IN  \/ incidents[i].seen + window < incidents[j].seen
           \/ incidents[j].seen + window < incidents[i].seen

(* An ingest about to write, whose lookup is not out of date, knows that the   *)
(* open incidents of its fingerprint other than the one it found are cold.    *)
Knows(w) ==
  at[w] = "write" /\ w \notin outrun =>
    \A i \in DOMAIN incidents :
      /\ incidents[i].status = "open" /\ incidents[i].print = Signal(w)
      /\ i # found[w].row
      => incidents[i].seen + Episode[Signal(w)[1]] < moment[w]

EpisodeInv ==
  /\ \E prints : EpisodesTypeOK(prints)
  /\ IngestsOK
  /\ ~raced /\ ~setBack => RowsApart /\ \A w \in Ingesters : Knows(w)

(* The windows of the fingerprints that signals have.                         *)
LEMMA EpisodesAreNat ==
  ASSUME NEW prints, EpisodesTypeOK(prints), NEW p \in prints
  PROVE  Episode[p[1]] \in Nat
BY WindowsAssumption DEF EpisodesTypeOK, DetectorNames

(* A row and what is in it.                                                   *)
LEMMA RowTyped ==
  ASSUME NEW prints, EpisodesTypeOK(prints), NEW i \in DOMAIN incidents
  PROVE  /\ incidents[i] \in Rows(prints)
         /\ incidents[i].seen \in Nat /\ incidents[i].count \in Nat
         /\ incidents[i].print \in prints /\ Episode[incidents[i].print[1]] \in Nat
<1>1. incidents[i] \in Rows(prints)
  BY DEF EpisodesTypeOK
<1>2. /\ incidents[i].seen \in Nat /\ incidents[i].count \in Nat
      /\ incidents[i].print \in prints
  BY <1>1 DEF Rows
<1> QED BY <1>1, <1>2, EpisodesAreNat

(* What the detectors return is a sequence of fingerprints.                   *)
LEMMA SignalsAreFingerprints ==
  ASSUME NEW events, NEW n, NEW requests, NEW used, NEW time
  PROVE  \E prints : /\ \A p \in prints : p[1] \in DetectorNames
                     /\ Signals(events, n, requests, used, time) \in Seq(prints)
<1> DEFINE e == events[n]
           storm == <<"retry_storm", e.model>>
           loop == <<"loop_suspect", e.model, e.stream, e.fingerprint>>
           explosion == <<"token_explosion", e.model>>
           prints == {storm, loop, explosion}
<1>1. \A p \in prints : p[1] \in DetectorNames
  BY DEF DetectorNames
<1>2. \A c \in BOOLEAN, p \in prints : (IF c THEN <<p>> ELSE <<>>) \in Seq(prints)
  <2> HIDE DEF prints
  <2> QED OBVIOUS
<1>3. storm \in prints /\ loop \in prints /\ explosion \in prints
  OBVIOUS
<1>4. \A a, b, c \in Seq(prints) : a \o b \o c \in Seq(prints)
  <2> HIDE DEF prints
  <2> QED OBVIOUS
<1> DEFINE first(c) == IF c THEN <<storm>> ELSE <<>>
           second(c) == IF c THEN <<loop>> ELSE <<>>
           third(c) == IF c THEN <<explosion>> ELSE <<>>
<1>5. \A a, b, c : first(a) \o second(b) \o third(c) \in Seq(prints)
  <2> HIDE DEF prints, storm, loop, explosion
  <2> QED BY <1>3, <1>4
<1>6. Signals(events, n, requests, used, time) \in Seq(prints)
  BY <1>5 DEF Signals
<1> QED BY <1>1, <1>6

(* Steps that write no incident and find none.                                *)
LEMMA NothingWritten ==
  ASSUME EpisodeInv, UNCHANGED <<incidents, raced, setBack>>,
         NEW prints, EpisodesTypeOK(prints)', clock' >= clock,
         NEW P, EpisodesTypeOK(P),
         \A w \in Ingesters :
           /\ moment'[w] <= clock'
           /\ at'[w] \in {"screen", "lookup"} => due'[w] # <<>>
           /\ at'[w] = "write" =>
                /\ at[w] = "write" /\ due'[w] = due[w] /\ found'[w] = found[w]
                /\ moment'[w] = moment[w] /\ (w \in outrun => w \in outrun')
  PROVE  EpisodeInv'
<1>1. IngestsOK'
  <2>1. \A i \in DOMAIN incidents : incidents[i].seen <= clock'
    <3> SUFFICES ASSUME NEW i \in DOMAIN incidents PROVE incidents[i].seen <= clock'
      OBVIOUS
    <3>1. incidents[i].seen \in Nat /\ clock \in Nat /\ clock' \in Nat
      BY RowTyped DEF EpisodesTypeOK
    <3> QED BY <3>1 DEF EpisodeInv, IngestsOK
  <2> QED BY <2>1 DEF EpisodeInv, IngestsOK, Signal
<1>2. RowsApart' <=> RowsApart
  BY DEF RowsApart
<1>3. ASSUME NEW w \in Ingesters, Knows(w) PROVE Knows(w)'
  BY <1>3 DEF Knows, Signal
<1> QED BY <1>1, <1>2, <1>3 DEF EpisodeInv
(* LookUp: with a time that no open row of the fingerprint is past, the rows    *)
(* that are not cold lie within one window, so there is one of them at most.  *)
LEMMA LookUpKeeps ==
  ASSUME EpisodeInv, NEW w \in Ingesters, LookUp(w)
  PROVE  EpisodeInv'
<1>1. PICK prints : EpisodesTypeOK(prints)
  BY DEF EpisodeInv
<1> DEFINE print == Signal(w)
           window == Episode[print[1]]
           rows == ActiveSince(print, moment[w])
<1>2. /\ at[w] = "lookup" /\ due[w] # <<>>
      /\ at' = [at EXCEPT ![w] = "write"]
      /\ UNCHANGED <<incidents, clock, due, moment, outrun, raced>>
      /\ setBack' = (setBack \/ Overtaken(w))
  BY DEF LookUp, Pass, EpisodeInv, IngestsOK
<1>3. print \in prints /\ window \in Nat /\ moment[w] \in Nat
  <2>1. due[w] \in Seq(prints) /\ moment[w] \in Nat
    BY <1>1 DEF EpisodesTypeOK
  <2>2. print \in prints
    BY <1>2, <2>1 DEF Signal
  <2> QED BY <1>1, <2>1, <2>2, EpisodesAreNat
<1>4. /\ rows \subseteq DOMAIN incidents /\ DOMAIN incidents = 1..Len(incidents)
      /\ Len(incidents) \in Nat
  BY <1>1 DEF ActiveSince, EpisodesTypeOK
<1>5. \A i \in DOMAIN incidents :
        i \in rows <=> /\ incidents[i].print = print /\ incidents[i].status = "open"
                       /\ incidents[i].seen >= moment[w] - window
  BY DEF ActiveSince
<1>6. \/ rows = {} /\ found' = [found EXCEPT ![w] = NothingFound]
      \/ \E i \in rows :
           found' = [found EXCEPT ![w] = [row |-> i, count |-> incidents[i].count]]
  BY DEF LookUp, Newest
<1> HIDE DEF rows, print, window
<1> DEFINE Found(f) ==
             /\ f \in [row : Nat \cup {NoRow}, count : Nat]
             /\ found' = [found EXCEPT ![w] = f]
             /\ (rows = {} /\ f.row = NoRow) \/ f.row \in rows
<1>7. \E f : Found(f)
  <2>1. ASSUME rows = {}, found' = [found EXCEPT ![w] = NothingFound]
        PROVE  Found(NothingFound)
    BY <2>1 DEF NothingFound
  <2>2. ASSUME NEW i \in rows,
               found' = [found EXCEPT ![w] = [row |-> i, count |-> incidents[i].count]]
        PROVE  Found([row |-> i, count |-> incidents[i].count])
    <3>1. i \in Nat /\ incidents[i].count \in Nat
      BY <1>1, <1>4, RowTyped
    <3> QED BY <2>2, <3>1
  <2> HIDE DEF Found
  <2> QED BY <1>6, <2>1, <2>2
<1>8. PICK f : Found(f)
  BY <1>7
<1>9. EpisodesTypeOK(prints)'
  <2>1. at' \in [Ingesters -> WorkerPlaces]
    BY <1>1, <1>2 DEF EpisodesTypeOK, WorkerPlaces
  <2>2. found' \in [Ingesters -> [row : Nat \cup {NoRow}, count : Nat]]
    BY <1>1, <1>8 DEF EpisodesTypeOK
  <2> QED BY <1>1, <1>2, <2>1, <2>2 DEF EpisodesTypeOK, Overtaken
<1>10. found'[w] = f /\ \A v \in Ingesters \ {w} : found'[v] = found[v] /\ at'[v] = at[v]
  BY <1>1, <1>2, <1>8 DEF EpisodesTypeOK
<1>11. IngestsOK'
  <2>1. f.row # NoRow => f.row \in DOMAIN incidents /\ incidents[f.row].print = print
    BY <1>4, <1>5, <1>8
  <2> QED BY <1>2, <1>10, <2>1 DEF EpisodeInv, IngestsOK, Signal, print
<1>12. ASSUME ~raced', ~setBack' PROVE RowsApart' /\ \A v \in Ingesters : Knows(v)'
  <2>1. RowsApart /\ ~Overtaken(w) /\ \A v \in Ingesters : Knows(v)
    BY <1>1, <1>2, <1>12 DEF EpisodeInv, EpisodesTypeOK
  <2>2. RowsApart'
    BY <1>2, <2>1 DEF RowsApart
  <2>3. ASSUME NEW v \in Ingesters \ {w} PROVE Knows(v)'
    BY <1>2, <1>10, <2>1 DEF Knows, Signal
  <2>4. ASSUME NEW i \in DOMAIN incidents,
               incidents[i].status = "open", incidents[i].print = print, i # f.row
        PROVE  incidents[i].seen + window < moment[w]
    <3>1. incidents[i].seen \in Nat /\ incidents[i].seen <= moment[w]
      BY <1>1, <1>3, <2>1, <2>4, RowTyped DEF Overtaken, print
    <3>2. CASE i \notin rows
      BY <1>3, <1>5, <2>4, <3>1, <3>2
    <3>3. CASE i \in rows
      <4> DEFINE k == f.row
      <4>1. k \in rows /\ k # i /\ k \in DOMAIN incidents
        BY <1>4, <1>8, <2>4, <3>3
      <4>2. incidents[k].status = "open" /\ incidents[k].print = print
        BY <1>5, <4>1
      <4>3. incidents[k].seen \in Nat /\ incidents[k].seen <= moment[w]
        BY <1>1, <1>3, <2>1, <4>1, <4>2, RowTyped DEF Overtaken, print
      <4>4. /\ incidents[k].seen >= moment[w] - window
            /\ incidents[i].seen >= moment[w] - window
        BY <1>5, <3>3, <4>1
      <4>5. \/ incidents[i].seen + window < incidents[k].seen
            \/ incidents[k].seen + window < incidents[i].seen
        BY <2>1, <2>4, <4>1, <4>2 DEF RowsApart, window
      <4> HIDE DEF k
      <4> QED BY <1>3, <3>1, <4>3, <4>4, <4>5
    <3> QED BY <3>2, <3>3
  <2>5. Knows(w)'
    BY <1>2, <1>10, <2>4 DEF Knows, Signal, print, window
  <2> QED BY <2>2, <2>3, <2>5
<1> QED BY <1>9, <1>11, <1>12 DEF EpisodeInv

(* What a write does to the rows: row k is opened or refreshed, and is the one *)
(* that the lookup found if it found one; it has the time of the ingest, or   *)
(* is closed and left alone.                                                  *)
LEMMA RowWritten ==
  ASSUME NEW prints, EpisodesTypeOK(prints), IngestsOK, NEW w \in Ingesters, Process(w)
  PROVE  /\ incidents' \in Seq(Rows(prints))
         /\ \E k \in Nat :
              /\ DOMAIN incidents' = DOMAIN incidents \cup {k}
              /\ \A i \in DOMAIN incidents \ {k} : incidents'[i] = incidents[i]
              /\ k \in DOMAIN incidents => incidents[k].print = Signal(w)
              /\ incidents'[k].print = Signal(w)
              /\ incidents'[k].seen <= clock
              /\ incidents'[k].status = "open" => incidents'[k].seen = moment[w]
              /\ found[w].row \in {NoRow, k}
              /\ found[w].row = NoRow => k \notin DOMAIN incidents
<1> DEFINE row == found[w].row
           print == Signal(w)
<1>1. /\ at[w] = "write" /\ due[w] # <<>> /\ due[w] \in Seq(prints)
      /\ moment[w] \in Nat /\ moment[w] <= clock
      /\ row \in Nat \cup {NoRow} /\ found[w].count \in Nat
      /\ incidents' = IF row = NoRow THEN Opened(w) ELSE Refreshed(w)
      /\ row # NoRow => row \in DOMAIN incidents /\ incidents[row].print = print
  BY DEF Process, IngestsOK, EpisodesTypeOK
<1>2. print \in prints
  BY <1>1 DEF Signal
<1>3. /\ incidents \in Seq(Rows(prints)) /\ Len(incidents) \in Nat
      /\ DOMAIN incidents = 1..Len(incidents)
      /\ \A i \in DOMAIN incidents : incidents[i] \in Rows(prints) /\ incidents[i].seen <= clock
  BY DEF EpisodesTypeOK, IngestsOK
<1> HIDE DEF row, print
<1>4. CASE row = NoRow
  <2> DEFINE fresh == [print |-> print, status |-> "open", created |-> moment[w],
                      seen |-> moment[w], count |-> 1]
             k == Len(incidents) + 1
  <2>1. fresh \in Rows(prints) /\ incidents' = Append(incidents, fresh)
    BY <1>1, <1>2, <1>4 DEF Rows, Opened, print
  <2> HIDE DEF fresh
  <2>2. /\ incidents' \in Seq(Rows(prints))
        /\ DOMAIN incidents' = DOMAIN incidents \cup {k} /\ k \in Nat
        /\ incidents'[k] = fresh /\ k \notin DOMAIN incidents
        /\ \A i \in DOMAIN incidents : incidents'[i] = incidents[i]
    BY <1>3, <2>1
  <2>3. fresh.print = print /\ fresh.seen = moment[w]
    BY DEF fresh
  <2> HIDE DEF k
  <2> QED BY <1>1, <1>4, <2>2, <2>3 DEF print, row
<1>5. CASE row # NoRow /\ incidents[row].status # "open"
  <2>1. incidents' = incidents /\ row \in Nat
    BY <1>1, <1>5 DEF Refreshed, row
  <2> QED BY <1>1, <1>3, <1>5, <2>1 DEF print, row
<1>6. CASE row # NoRow /\ incidents[row].status = "open"
  <2> DEFINE written(x, c, time) == [x EXCEPT !.count = c, !.seen = time]
             r == written(incidents[row], found[w].count + 1, moment[w])
  <2>1. incidents[row] \in Rows(prints) /\ row \in DOMAIN incidents /\ row \in Nat
    BY <1>1, <1>3, <1>6
  <2>2. r \in Rows(prints) /\ r.print = print /\ r.seen = moment[w]
    <3>1. \A x \in Rows(prints), c, time \in Nat :
            /\ written(x, c, time) \in Rows(prints)
            /\ written(x, c, time).print = x.print /\ written(x, c, time).seen = time
      BY DEF Rows
    <3>2. /\ found[w].count + 1 \in Nat /\ moment[w] \in Nat
          /\ incidents[row].print = print
      BY <1>1, <1>6
    <3> HIDE DEF written
    <3> QED BY <2>1, <3>1, <3>2
  <2>3. incidents' = [incidents EXCEPT ![row] = r]
    BY <1>1, <1>6, <2>1 DEF Refreshed, row, Rows
  <2> HIDE DEF r
  <2>4. /\ incidents' \in Seq(Rows(prints)) /\ DOMAIN incidents' = DOMAIN incidents
        /\ incidents'[row] = r
        /\ \A i \in DOMAIN incidents \ {row} : incidents'[i] = incidents[i]
    BY <1>3, <2>1, <2>2, <2>3
  <2> QED BY <1>1, <1>6, <2>1, <2>2, <2>4 DEF print, row
<1> QED BY <1>4, <1>5, <1>6

(* Process: an ingest whose lookup is not out of date writes a row that lies    *)
(* apart from the others, and puts every other lookup of the fingerprint out  *)
(* of date.                                                                   *)
LEMMA ProcessKeeps ==
  ASSUME EpisodeInv, NEW w \in Ingesters, Process(w)
  PROVE  EpisodeInv'
<1>1. PICK prints : EpisodesTypeOK(prints)
  BY DEF EpisodeInv
<1> DEFINE print == Signal(w)
           window == Episode[print[1]]
<1>2. PICK k \in Nat :
        /\ incidents' \in Seq(Rows(prints))
        /\ DOMAIN incidents' = DOMAIN incidents \cup {k}
        /\ \A i \in DOMAIN incidents \ {k} : incidents'[i] = incidents[i]
        /\ k \in DOMAIN incidents => incidents[k].print = print
        /\ incidents'[k].print = print
        /\ incidents'[k].seen <= clock
        /\ incidents'[k].status = "open" => incidents'[k].seen = moment[w]
        /\ found[w].row \in {NoRow, k}
        /\ found[w].row = NoRow => k \notin DOMAIN incidents
  BY <1>1, RowWritten DEF EpisodeInv
<1>3. /\ at[w] = "write" /\ UNCHANGED <<clock, setBack>>
      /\ raced' = (raced \/ w \in outrun)
      /\ outrun' = (outrun \cup OutrunBy(w, print)) \ {w}
      /\ due[w] # <<>> /\ due[w] \in Seq(prints) /\ moment[w] \in Nat
  BY <1>1 DEF Process, EpisodeInv, IngestsOK, EpisodesTypeOK
<1>4. print \in prints /\ window \in Nat
  <2>1. print \in prints
    BY <1>3 DEF Signal
  <2> QED BY <1>1, <2>1, EpisodesAreNat
<1>5. /\ at' \in [Ingesters -> WorkerPlaces] /\ due' \in [Ingesters -> Seq(prints)]
      /\ moment' \in [Ingesters -> Nat]
      /\ found' \in [Ingesters -> [row : Nat \cup {NoRow}, count : Nat]]
      /\ at'[w] \in {"lookup", "idle"} /\ moment'[w] <= clock
      /\ at'[w] = "lookup" => due'[w] # <<>>
      /\ \A v \in Ingesters \ {w} : /\ at'[v] = at[v] /\ due'[v] = due[v]
                                    /\ moment'[v] = moment[v] /\ found'[v] = found[v]
  <2>1. NothingFound \in [row : Nat \cup {NoRow}, count : Nat]
    BY DEF NothingFound
  <2>2. moment[w] <= clock /\ clock \in Nat
    BY <1>1 DEF EpisodeInv, IngestsOK, EpisodesTypeOK
  <2>3. CASE Len(due[w]) = 1
    <3>1. Finish(w)
      BY <2>3 DEF Process
    <3>2. <<>> \in Seq(prints)
      OBVIOUS
    <3> QED BY <1>1, <2>1, <2>2, <3>1, <3>2 DEF Finish, Pass, EpisodesTypeOK, WorkerPlaces
  <2>4. CASE Len(due[w]) # 1
    <3>1. /\ due' = [due EXCEPT ![w] = Tail(due[w])]
          /\ found' = [found EXCEPT ![w] = NothingFound]
          /\ at' = [at EXCEPT ![w] = "lookup"] /\ moment' = moment
      BY <2>4 DEF Process, Pass
    <3>2. Tail(due[w]) \in Seq(prints) /\ Tail(due[w]) # <<>>
      <4>1. \A s \in Seq(prints) :
              s # <<>> => Tail(s) \in Seq(prints) /\ Len(Tail(s)) = Len(s) - 1
        OBVIOUS
      <4>2. \A s \in Seq(prints) : s # <<>> <=> Len(s) # 0
        OBVIOUS
      <4>3. \A s \in Seq(prints) : Len(s) \in Nat
        OBVIOUS
      <4> DEFINE rest == Tail(due[w])
      <4>4. rest \in Seq(prints) /\ Len(rest) = Len(due[w]) - 1
        BY <1>3, <4>1
      <4>5. Len(due[w]) \in Nat /\ Len(due[w]) # 0
        BY <1>3, <4>2, <4>3
      <4> HIDE DEF rest
      <4>6. Len(rest) # 0
        BY <2>4, <4>4, <4>5
      <4> QED BY <4>2, <4>4, <4>6 DEF rest
    <3> QED BY <1>1, <2>1, <2>2, <3>1, <3>2 DEF EpisodesTypeOK, WorkerPlaces
  <2> QED BY <2>3, <2>4
<1>6. EpisodesTypeOK(prints)'
  <2>1. raced' \in BOOLEAN
    BY <1>3
  <2> QED BY <1>1, <1>2, <1>3, <1>5, <2>1 DEF EpisodesTypeOK
<1> HIDE DEF print, window
<1>7. \A i \in DOMAIN incidents' : i # k => i \in DOMAIN incidents /\ incidents'[i] = incidents[i]
  BY <1>2
<1>8. IngestsOK'
  <2>1. \A i \in DOMAIN incidents' : incidents'[i].seen <= clock
    BY <1>2, <1>7 DEF EpisodeInv, IngestsOK
  <2>2. ASSUME NEW v \in Ingesters, at'[v] = "write", found'[v].row # NoRow
        PROVE  /\ found'[v].row \in DOMAIN incidents'
               /\ incidents'[found'[v].row].print = Head(due'[v])
    <3> DEFINE row == found[v].row
    <3>1. v # w /\ found'[v] = found[v] /\ due'[v] = due[v] /\ at[v] = "write"
      BY <1>5, <2>2
    <3>2. row \in DOMAIN incidents /\ incidents[row].print = Head(due[v])
      BY <2>2, <3>1 DEF EpisodeInv, IngestsOK, Signal
    <3>3. row \in DOMAIN incidents' /\ incidents'[row].print = incidents[row].print
      BY <1>2, <3>2
    <3> QED BY <3>1, <3>2, <3>3
  <2>3. \A v \in Ingesters :
          moment'[v] <= clock /\ (at'[v] \in {"screen", "lookup", "write"} => due'[v] # <<>>)
    BY <1>5 DEF EpisodeInv, IngestsOK
  <2> QED BY <1>3, <2>1, <2>2, <2>3 DEF IngestsOK, Signal
<1>9. ASSUME ~raced', ~setBack' PROVE RowsApart' /\ \A v \in Ingesters : Knows(v)'
  <2>1. w \notin outrun /\ RowsApart /\ \A v \in Ingesters : Knows(v)
    BY <1>1, <1>3, <1>9 DEF EpisodeInv, EpisodesTypeOK
  <2>2. \A i \in DOMAIN incidents \ {k} :
          incidents[i].status = "open" /\ incidents[i].print = print =>
            incidents[i].seen + window < moment[w]
    <3>1. \A i \in DOMAIN incidents \ {k} : i # found[w].row
      BY <1>1, <1>2, NoRowAssumption DEF EpisodesTypeOK
    <3> QED BY <1>3, <2>1, <3>1 DEF Knows, print, window
  <2>3. RowsApart'
    <3> SUFFICES ASSUME NEW i \in DOMAIN incidents', NEW j \in DOMAIN incidents',
                        incidents'[i].print = incidents'[j].print, i # j,
                        incidents'[i].status = "open", incidents'[j].status = "open"
                 PROVE  \/ incidents'[i].seen + Episode[incidents'[i].print[1]] < incidents'[j].seen
                        \/ incidents'[j].seen + Episode[incidents'[i].print[1]] < incidents'[i].seen
      BY DEF RowsApart
    <3>1. CASE i # k /\ j # k
      BY <1>7, <2>1, <3>1 DEF RowsApart
    <3>2. CASE i = k
      BY <1>2, <1>7, <2>2, <3>2 DEF window
    <3>3. CASE j = k
      BY <1>2, <1>7, <2>2, <3>3 DEF window
    <3> QED BY <3>1, <3>2, <3>3
  <2>4. ASSUME NEW v \in Ingesters, at'[v] = "write", v \notin outrun',
               NEW i \in DOMAIN incidents', incidents'[i].status = "open",
               incidents'[i].print = Head(due'[v]), i # found'[v].row
        PROVE  incidents'[i].seen + Episode[Head(due'[v])[1]] < moment'[v]
    <3>1. /\ v # w /\ at[v] = "write" /\ v \notin outrun /\ due'[v] = due[v]
          /\ found'[v] = found[v] /\ moment'[v] = moment[v]
      BY <1>3, <1>5, <2>4
    <3>2. Head(due[v]) # print
      BY <1>3, <2>4, <3>1 DEF OutrunBy, Signal
    <3>3. i # k
      BY <1>2, <2>4, <3>1, <3>2
    <3> QED BY <1>7, <2>1, <2>4, <3>1, <3>3 DEF Knows, Signal
  <2>5. \A v \in Ingesters : Knows(v)'
    BY <2>4 DEF Knows, Signal
  <2> QED BY <2>3, <2>5
<1> QED BY <1>6, <1>8, <1>9 DEF EpisodeInv

(* An incident that is resolved or closed is one row less to be apart from.    *)
LEMMA ClosingKeeps ==
  ASSUME EpisodeInv, AutoCloseCold \/ \E i \in DOMAIN incidents : ResolveByUser(i)
  PROVE  EpisodeInv'
<1>1. PICK prints : EpisodesTypeOK(prints)
  BY DEF EpisodeInv
<1>2. /\ UNCHANGED <<clock, at, due, moment, found, raced, setBack>>
      /\ \A v : v \notin outrun' => v \notin outrun
      /\ incidents' \in Seq(Rows(prints)) /\ DOMAIN incidents' = DOMAIN incidents
      /\ \A i \in DOMAIN incidents :
           /\ incidents'[i].print = incidents[i].print
           /\ incidents'[i].seen = incidents[i].seen
           /\ incidents'[i].status = "open" => incidents[i].status = "open"
  <2>1. /\ incidents \in Seq(Rows(prints)) /\ Len(incidents) \in Nat
        /\ DOMAIN incidents = 1..Len(incidents)
        /\ \A i \in DOMAIN incidents : incidents[i] \in Rows(prints)
    BY <1>1 DEF EpisodesTypeOK
  <2>2. \A r \in Rows(prints), s \in {"resolved", "auto_resolved"} :
          LET q == [r EXCEPT !.status = s]
          IN  q \in Rows(prints) /\ q.print = r.print /\ q.seen = r.seen /\ q.status = s
    BY DEF Rows
  <2>3. CASE AutoCloseCold
    <3> DEFINE closed(i) == IF i \in Cold THEN [incidents[i] EXCEPT !.status = "auto_resolved"]
                            ELSE incidents[i]
    <3>1. incidents' = [i \in 1..Len(incidents) |-> closed(i)]
      BY <2>1, <2>3 DEF AutoCloseCold
    <3>2. \A i \in 1..Len(incidents) :
            /\ closed(i) \in Rows(prints) /\ closed(i).print = incidents[i].print
            /\ closed(i).seen = incidents[i].seen
            /\ closed(i).status = "open" => incidents[i].status = "open"
      BY <2>1, <2>2
    <3> HIDE DEF closed
    <3>3. incidents' \in Seq(Rows(prints)) /\ DOMAIN incidents' = DOMAIN incidents
      BY <2>1, <3>1, <3>2
    <3> QED BY <2>1, <2>3, <3>1, <3>2, <3>3 DEF AutoCloseCold
  <2>4. CASE \E i \in DOMAIN incidents : ResolveByUser(i)
    <3>1. PICK i \in DOMAIN incidents : ResolveByUser(i)
      BY <2>4
    <3> DEFINE r == [incidents[i] EXCEPT !.status = "resolved"]
    <3>2. /\ r \in Rows(prints) /\ r.print = incidents[i].print /\ r.seen = incidents[i].seen
          /\ r.status = "resolved"
      BY <2>1, <2>2
    <3>3. incidents' = [incidents EXCEPT ![i] = r]
      BY <3>1 DEF ResolveByUser
    <3> HIDE DEF r
    <3>4. /\ incidents' \in Seq(Rows(prints)) /\ DOMAIN incidents' = DOMAIN incidents
          /\ incidents'[i] = r /\ \A j \in DOMAIN incidents \ {i} : incidents'[j] = incidents[j]
      BY <2>1, <3>2, <3>3
    <3> QED BY <3>1, <3>2, <3>4 DEF ResolveByUser
  <2> QED BY <2>3, <2>4
<1>3. EpisodesTypeOK(prints)'
  BY <1>1, <1>2 DEF EpisodesTypeOK
<1>4. IngestsOK'
  BY <1>2 DEF EpisodeInv, IngestsOK, Signal
<1>5. RowsApart => RowsApart'
  BY <1>2 DEF RowsApart
<1>6. ASSUME NEW v \in Ingesters, Knows(v) PROVE Knows(v)'
  BY <1>2, <1>6 DEF Knows, Signal
<1> QED BY <1>2, <1>3, <1>4, <1>5, <1>6 DEF EpisodeInv

(* EpisodeInv is inductive: besides LookUp, Process and the closing of incidents *)
(* nothing touches a row or a lookup.                                         *)
LEMMA EpisodeStep == EpisodeInv /\ [DetectorsNext]_detectorVars => EpisodeInv'
<1> SUFFICES ASSUME EpisodeInv, [DetectorsNext]_detectorVars PROVE EpisodeInv'
  OBVIOUS
<1>1. PICK prints : EpisodesTypeOK(prints)
  BY DEF EpisodeInv
<1>2. ASSUME NEW w \in Ingesters, Finish(w),
             UNCHANGED <<incidents, clock, raced, setBack>>, outrun \ {w} \subseteq outrun'
      PROVE  EpisodeInv'
  <2>1. EpisodesTypeOK(prints)'
    <3>1. NothingFound \in [row : Nat \cup {NoRow}, count : Nat] /\ <<>> \in Seq(prints)
      BY DEF NothingFound
    <3> QED BY <1>1, <1>2, <3>1 DEF Finish, Pass, EpisodesTypeOK, WorkerPlaces
  <2>2. /\ clock \in Nat /\ clock' = clock
        /\ at'[w] = "idle" /\ moment'[w] = 0
        /\ \A v \in Ingesters \ {w} : /\ at'[v] = at[v] /\ due'[v] = due[v]
                                      /\ moment'[v] = moment[v] /\ found'[v] = found[v]
    BY <1>1, <1>2 DEF Finish, Pass, EpisodesTypeOK
  <2> QED BY <1>1, <1>2, <2>1, <2>2, NothingWritten DEF EpisodeInv, IngestsOK
<1>3. ASSUME NEW w \in Ingesters, Store(w) PROVE EpisodeInv'
  <2>1. /\ at' = [at EXCEPT ![w] = "detect"]
        /\ UNCHANGED <<incidents, clock, due, moment, found, outrun, raced, setBack>>
    BY <1>3 DEF Store, Pass
  <2>2. EpisodesTypeOK(prints)'
    BY <1>1, <2>1 DEF EpisodesTypeOK, WorkerPlaces
  <2>3. clock \in Nat /\ at'[w] = "detect" /\ \A v \in Ingesters \ {w} : at'[v] = at[v]
    BY <1>1, <2>1 DEF EpisodesTypeOK
  <2> QED BY <1>1, <2>1, <2>2, <2>3, NothingWritten DEF EpisodeInv, IngestsOK
<1>4. ASSUME NEW w \in Ingesters, Detect(w) PROVE EpisodeInv'
  <2> DEFINE signals == Signals(log, mine[w], Requests60, Tokens60, clock)
  <2>1. UNCHANGED <<incidents, clock, outrun, raced, setBack>>
    BY <1>4 DEF Detect
  <2>2. CASE signals = <<>>
    BY <1>2, <1>4, <2>1, <2>2 DEF Detect
  <2>3. CASE signals # <<>>
    <3>1. PICK more : (\A p \in more : p[1] \in DetectorNames) /\ signals \in Seq(more)
      BY SignalsAreFingerprints
    <3>2. /\ due' = [due EXCEPT ![w] = signals] /\ at' = [at EXCEPT ![w] = "screen"]
          /\ UNCHANGED <<moment, found>>
      BY <1>4, <2>3 DEF Detect, Pass
    <3> HIDE DEF signals
    <3>3. EpisodesTypeOK(prints \cup more)'
      <4>1. Seq(Rows(prints)) \subseteq Seq(Rows(prints \cup more))
        <5>1. Rows(prints) \subseteq Rows(prints \cup more)
          BY DEF Rows
        <5>2. \A A, B : A \subseteq B => Seq(A) \subseteq Seq(B)
          OBVIOUS
        <5> QED BY <5>1, <5>2
      <4>2. Seq(prints) \subseteq Seq(prints \cup more) /\ Seq(more) \subseteq Seq(prints \cup more)
        OBVIOUS
      <4> QED BY <1>1, <2>1, <3>1, <3>2, <4>1, <4>2 DEF EpisodesTypeOK, WorkerPlaces
    <3>4. /\ clock \in Nat /\ at'[w] = "screen" /\ due'[w] = signals
          /\ \A v \in Ingesters \ {w} : at'[v] = at[v] /\ due'[v] = due[v]
      BY <1>1, <3>2 DEF EpisodesTypeOK
    <3> QED BY <1>1, <2>1, <2>3, <3>2, <3>3, <3>4, NothingWritten DEF EpisodeInv, IngestsOK
  <2> QED BY <2>2, <2>3
<1>5. ASSUME NEW w \in Ingesters, Screen(w) PROVE EpisodeInv'
  <2>1. UNCHANGED <<incidents, clock, outrun, raced, setBack>>
    BY <1>5 DEF Screen
  <2>2. CASE Muted
    BY <1>2, <1>5, <2>1, <2>2 DEF Screen
  <2>3. CASE ~Muted
    <3>1. /\ moment' = [moment EXCEPT ![w] = clock] /\ at' = [at EXCEPT ![w] = "lookup"]
          /\ UNCHANGED <<due, found>> /\ at[w] = "screen"
      BY <1>5, <2>3 DEF Screen, Pass
    <3>2. EpisodesTypeOK(prints)'
      BY <1>1, <2>1, <3>1 DEF EpisodesTypeOK, WorkerPlaces
    <3>3. /\ clock \in Nat /\ at'[w] = "lookup" /\ moment'[w] = clock
          /\ \A v \in Ingesters \ {w} : at'[v] = at[v] /\ moment'[v] = moment[v]
      BY <1>1, <3>1 DEF EpisodesTypeOK
    <3> QED BY <1>1, <2>1, <3>1, <3>2, <3>3, NothingWritten DEF EpisodeInv, IngestsOK
  <2> QED BY <2>2, <2>3
<1>6. ASSUME NEW w \in Ingesters, Abandon(w) PROVE EpisodeInv'
  BY <1>2, <1>6 DEF Abandon
<1>7. ASSUME \/ SeeBlock \/ EndBlock \/ PassTime \/ UNCHANGED detectorVars PROVE EpisodeInv'
  <2>1. /\ UNCHANGED <<incidents, at, due, moment, found, outrun, raced, setBack>>
        /\ clock \in Nat /\ clock' \in Nat /\ clock' >= clock
    BY <1>1, <1>7 DEF SeeBlock, EndBlock, PassTime, detectorVars, EpisodesTypeOK
  <2>2. EpisodesTypeOK(prints)'
    BY <1>1, <2>1 DEF EpisodesTypeOK
  <2>3. \A w \in Ingesters : moment[w] <= clock'
    <3> SUFFICES ASSUME NEW w \in Ingesters PROVE moment[w] <= clock'
      OBVIOUS
    <3>1. moment[w] \in Nat /\ moment[w] <= clock
      BY <1>1 DEF EpisodeInv, IngestsOK, EpisodesTypeOK
    <3> QED BY <2>1, <3>1
  <2> QED BY <1>1, <2>1, <2>2, <2>3, NothingWritten DEF EpisodeInv, IngestsOK
<1> QED
  BY <1>3, <1>4, <1>5, <1>6, <1>7, LookUpKeeps, ProcessKeeps, ClosingKeeps DEF DetectorsNext

(* There are no incidents at first.                                           *)
LEMMA EpisodeInitInv == DetectorsInit => EpisodeInv
<1> SUFFICES ASSUME DetectorsInit PROVE EpisodeInv
  OBVIOUS
<1>1. EpisodesTypeOK({})
  <2>1. NothingFound \in [row : Nat \cup {NoRow}, count : Nat]
    BY DEF NothingFound
  <2>2. <<>> \in Seq({}) /\ <<>> \in Seq(Rows({}))
    OBVIOUS
  <2> QED BY <2>1, <2>2 DEF DetectorsInit, EpisodesTypeOK, WorkerPlaces
<1>2. /\ DOMAIN incidents = {} /\ clock = 0
      /\ \A w \in Ingesters : at[w] = "idle" /\ moment[w] = 0
  BY DEF DetectorsInit
<1> QED BY <1>1, <1>2 DEF EpisodeInv, IngestsOK, RowsApart, Knows

(* A fingerprint has one active incident at a time, for any number of ingests, *)
(* events and windows: rows that are apart are not both within the window     *)
(* that ends now.                                                             *)
THEOREM OneEpisodeHolds == DetectorsSpec => []OneEpisode
<1>1. EpisodeInv => OneEpisode
  <2> SUFFICES ASSUME EpisodeInv, ~raced, ~setBack,
                      NEW i \in DOMAIN incidents, NEW j \in DOMAIN incidents,
                      incidents[i].print = incidents[j].print,
                      incidents[i].status = "open", incidents[j].status = "open",
                      Min({incidents[i].seen, incidents[j].seen})
                        >= clock - Episode[incidents[i].print[1]]
               PROVE  i = j
    BY DEF OneEpisode
  <2>1. PICK prints : EpisodesTypeOK(prints)
    BY DEF EpisodeInv
  <2> DEFINE a == incidents[i].seen
             b == incidents[j].seen
             window == Episode[incidents[i].print[1]]
  <2>2. a \in Nat /\ b \in Nat /\ window \in Nat /\ clock \in Nat /\ a <= clock /\ b <= clock
    BY <2>1, RowTyped DEF EpisodeInv, IngestsOK, EpisodesTypeOK
  <2>3. i # j => a + window < b \/ b + window < a
    BY DEF EpisodeInv, RowsApart
  <2>4. Min({a, b}) >= clock - window
    OBVIOUS
  <2> HIDE DEF a, b, window
  <2>5. Min({a, b}) \in {a, b} /\ Min({a, b}) <= a /\ Min({a, b}) <= b
    <3>1. \E x \in {a, b} : \A y \in {a, b} : x <= y
      BY <2>2
    <3> QED BY <3>1 DEF Min
  <2> QED BY <2>2, <2>3, <2>4, <2>5
<1> QED
  BY <1>1, EpisodeInitInv, EpisodeStep, PTL DEF DetectorsSpec

(* A nonempty set of numbers up to a bound has a greatest element.            *)
LEMMA GreatestOf ==
  ASSUME NEW n \in Int, NEW S, S \subseteq Int, \A i \in S : i <= n, S # {}
  PROVE  \E i \in S : \A j \in S : j <= i
<1> DEFINE T == {k \in Nat : n - k \in S}
<1>1. T \subseteq Nat
  OBVIOUS
<1>2. T # {}
  <2>1. PICK i \in S : TRUE
    OBVIOUS
  <2>2. n - i \in Nat /\ n - (n - i) = i
    BY <2>1
  <2> QED BY <2>1, <2>2
<1> HIDE DEF T
<1>3. PICK x \in T : \A y \in T : ~(<<y, x>> \in OpToRel(<, Nat))
  BY <1>1, <1>2, NatLessThanWellFounded, WFMin
<1> USE DEF T
<1>4. n - x \in S /\ x \in Nat
  OBVIOUS
<1>5. ASSUME NEW j \in S PROVE j <= n - x
  <2>1. n - j \in Nat /\ n - (n - j) = j
    OBVIOUS
  <2>2. n - j \in T
    BY <2>1
  <2>3. ~(n - j < x)
    BY <1>3, <2>1, <2>2, <1>4 DEF OpToRel
  <2> QED BY <1>4, <2>1, <2>3
<1> QED BY <1>4, <1>5

(* The rows of the log, of which a late one is stamped before the one ahead.  *)
LogOK ==
  /\ \E rows : log \in Seq(rows)
  /\ \A i \in DOMAIN log :
       /\ log[i].ts \in {2 * i, 2 * i - 3}
       /\ log[i].total \in Nat /\ log[i].explosion \in Nat \cup {NoTokens}

(* What is in the rows.                                                       *)
LEMMA LogTyped ==
  ASSUME LogOK
  PROVE  /\ Len(log) \in Nat /\ DOMAIN log = 1..Len(log)
         /\ \A i \in DOMAIN log : /\ log[i].ts \in Int /\ log[i].ts <= 2 * Len(log)
                                  /\ ContextTokens(log[i]) \in Nat
<1>1. Len(log) \in Nat /\ DOMAIN log = 1..Len(log)
  BY DEF LogOK
<1> QED BY <1>1 DEF LogOK, ContextTokens

(* A nonempty set of rows has a latest one by ts.                             *)
LEMMA LatestOf ==
  ASSUME LogOK, NEW rows, rows \subseteq DOMAIN log, rows # {}
  PROVE  /\ Latest(log, rows) \in rows
         /\ \A j \in rows : log[j].ts <= log[Latest(log, rows)].ts
<1> DEFINE stamps == {log[i].ts : i \in rows}
<1>1. stamps \subseteq Int /\ stamps # {} /\ \A t \in stamps : t <= 2 * Len(log)
  BY LogTyped
<1>2. 2 * Len(log) \in Int
  BY LogTyped
<1> HIDE DEF stamps
<1>3. PICK t \in stamps : \A u \in stamps : u <= t
  BY <1>1, <1>2, GreatestOf
<1>4. \E i \in rows : \A j \in rows : log[j].ts <= log[i].ts
  BY <1>3 DEF stamps
<1> QED BY <1>4 DEF Latest

(* An event that is a suspect of a loop is no growth.  Its context is not above *)
(* that of the event before it, which is the point directly before it unless  *)
(* one of them is below the floor.                                           *)
LEMMA LoopIsNoGrowth ==
  ASSUME LogOK, NEW recent, recent \subseteq DOMAIN log, NEW n \in DOMAIN log,
         NEW requests, NEW used, NEW time,
         LoopSuspect(log, recent, log[n], Previous(log, recent, n), requests, time)
  PROVE  ~GrowthHit(log, recent, n, requests, used)
<1> SUFFICES ASSUME GrowthHit(log, recent, n, requests, used) PROVE FALSE
  OBVIOUS
<1> DEFINE points == GrowthPoints(log, recent, n)
           After(i) == {j \in points : Precedes(log, n, i, j)}
           others == Others(log, recent, n)
           last == Latest(log, others)
<1>1. GrowthFloor \in Nat /\ GrowthFloor > 0 /\ GrowthCount \in Nat /\ GrowthCount > 0
  BY ThresholdsAssumption
<1>2. /\ ContextTokens(log[n]) >= GrowthFloor
      /\ \A i, j \in points :
           After(i) = After(j) \cup {j} /\ Cardinality(After(i)) <= GrowthCount
           => 10 * ContextTokens(log[j]) >= 17 * ContextTokens(log[i])
  BY DEF GrowthHit
<1>3. others # {} /\ ContextTokens(log[n]) <= ContextTokens(log[last])
  <2>1. ~LooksLikeGrowth(log[n], Previous(log, recent, n))
    BY DEF LoopSuspect
  <2>2. /\ Previous(log, recent, n) # NoTokens
        /\ ~(ContextTokens(log[n]) > Previous(log, recent, n))
    BY <1>2, <2>1 DEF LooksLikeGrowth
  <2>3. others # {} /\ Previous(log, recent, n) = ContextTokens(log[last])
    BY <2>2 DEF Previous
  <2>4. others \subseteq DOMAIN log
    BY DEF Others
  <2>5. last \in DOMAIN log
    BY <2>3, <2>4, LatestOf
  <2>6. ContextTokens(log[n]) \in Nat /\ ContextTokens(log[last]) \in Nat
    BY <2>5, LogTyped
  <2> QED BY <2>2, <2>3, <2>6
<1>4. last \in others /\ \A j \in others : log[j].ts <= log[last].ts
  <2>1. others \subseteq DOMAIN log
    BY DEF Others
  <2> QED BY <1>3, <2>1, LatestOf
<1>5. last \in DOMAIN log /\ last # n
  BY <1>4 DEF Others
<1>6. ContextTokens(log[n]) \in Nat /\ ContextTokens(log[last]) \in Nat
  BY <1>5, LogTyped
<1>7. last \in points /\ n \in points
  BY <1>1, <1>2, <1>3, <1>4, <1>6 DEF GrowthPoints
<1>8. After(n) = {}
  BY DEF Precedes
<1>9. After(last) = {n}
  <2>1. \A j \in points : j = n \/ j \in others
    BY DEF GrowthPoints
  <2>2. \A j \in others : log[j].ts \in Int /\ log[last].ts \in Int
    BY <1>5, LogTyped DEF Others
  <2>3. \A j \in others : ~(log[last].ts < log[j].ts)
    BY <1>4, <2>2
  <2> QED BY <1>5, <1>7, <2>1, <2>3 DEF Precedes
<1>10. Cardinality(After(last)) <= GrowthCount
  <2>1. Cardinality({n}) = 1
    BY FS_Singleton
  <2>2. 1 <= GrowthCount
    BY <1>1
  <2> HIDE DEF After, last
  <2> QED BY <1>9, <2>1, <2>2
<1> HIDE DEF points, last, others
<1>11. 10 * ContextTokens(log[n]) >= 17 * ContextTokens(log[last])
  BY <1>2, <1>7, <1>8, <1>9, <1>10
<1> QED BY <1>1, <1>2, <1>3, <1>6, <1>11

(* A signal is of a detector that found something.                            *)
LEMMA SignalsNamed ==
  ASSUME NEW n, NEW requests, NEW used, NEW time,
         NEW i \in DOMAIN Signals(log, n, requests, used, time)
  PROVE  LET signal == Signals(log, n, requests, used, time)[i]
             recent == Recent(log)
         IN  /\ signal[1] = "loop_suspect" =>
                  LoopSuspect(log, recent, log[n], Previous(log, recent, n), requests, time)
             /\ signal[1] = "token_explosion" => TokenExplosion(log, recent, n, requests, used)
<1> DEFINE e == log[n]
           recent == Recent(log)
           storm == <<"retry_storm", e.model>>
           loop == <<"loop_suspect", e.model, e.stream, e.fingerprint>>
           explosion == <<"token_explosion", e.model>>
           first == IF RetryStorm(log, recent, e, time) THEN <<storm>> ELSE <<>>
           second == IF LoopSuspect(log, recent, e, Previous(log, recent, n), requests, time)
                     THEN <<loop>> ELSE <<>>
           third == IF TokenExplosion(log, recent, n, requests, used)
                    THEN <<explosion>> ELSE <<>>
           parts == {storm, loop, explosion}
<1>1. Signals(log, n, requests, used, time) = first \o second \o third
  BY DEF Signals
<1>2. storm \in parts /\ loop \in parts /\ explosion \in parts
  OBVIOUS
<1>3. first \in Seq(parts) /\ second \in Seq(parts) /\ third \in Seq(parts)
  <2> HIDE DEF parts, storm, loop, explosion
  <2> QED BY <1>2
<1>4. \A a, b, c \in Seq(parts) : \A j \in DOMAIN (a \o b \o c) :
        \/ \E k \in DOMAIN a : (a \o b \o c)[j] = a[k]
        \/ \E k \in DOMAIN b : (a \o b \o c)[j] = b[k]
        \/ \E k \in DOMAIN c : (a \o b \o c)[j] = c[k]
  <2> HIDE DEF parts
  <2>1. \A a, b \in Seq(parts) : \A j \in DOMAIN (a \o b) :
          \/ \E k \in DOMAIN a : (a \o b)[j] = a[k]
          \/ \E k \in DOMAIN b : (a \o b)[j] = b[k]
    <3> SUFFICES ASSUME NEW a \in Seq(parts), NEW b \in Seq(parts), NEW j \in DOMAIN (a \o b)
                 PROVE  \/ \E k \in DOMAIN a : (a \o b)[j] = a[k]
                        \/ \E k \in DOMAIN b : (a \o b)[j] = b[k]
      OBVIOUS
    <3>1. CASE j <= Len(a)
      BY <3>1
    <3>2. CASE ~(j <= Len(a))
      <4>1. j - Len(a) \in DOMAIN b /\ (a \o b)[j] = b[j - Len(a)]
        BY <3>2
      <4> QED BY <4>1
    <3> QED BY <3>1, <3>2
  <2> SUFFICES ASSUME NEW a \in Seq(parts), NEW b \in Seq(parts), NEW c \in Seq(parts),
                      NEW j \in DOMAIN (a \o b \o c)
               PROVE  \/ \E k \in DOMAIN a : (a \o b \o c)[j] = a[k]
                      \/ \E k \in DOMAIN b : (a \o b \o c)[j] = b[k]
                      \/ \E k \in DOMAIN c : (a \o b \o c)[j] = c[k]
    OBVIOUS
  <2>2. a \o b \in Seq(parts)
    OBVIOUS
  <2>3. CASE \E k \in DOMAIN c : ((a \o b) \o c)[j] = c[k]
    BY <2>3
  <2>4. CASE \E k \in DOMAIN (a \o b) : ((a \o b) \o c)[j] = (a \o b)[k]
    <3>1. PICK k \in DOMAIN (a \o b) : ((a \o b) \o c)[j] = (a \o b)[k]
      BY <2>4
    <3>2. \/ \E m \in DOMAIN a : (a \o b)[k] = a[m]
          \/ \E m \in DOMAIN b : (a \o b)[k] = b[m]
      BY <2>1, <3>1
    <3> QED BY <3>1, <3>2
  <2>5. \/ \E k \in DOMAIN (a \o b) : ((a \o b) \o c)[j] = (a \o b)[k]
        \/ \E k \in DOMAIN c : ((a \o b) \o c)[j] = c[k]
    BY <2>1, <2>2
  <2> QED BY <2>3, <2>4, <2>5
<1>5. \/ \E k \in DOMAIN first : (first \o second \o third)[i] = first[k]
      \/ \E k \in DOMAIN second : (first \o second \o third)[i] = second[k]
      \/ \E k \in DOMAIN third : (first \o second \o third)[i] = third[k]
  <2> HIDE DEF first, second, third, parts
  <2>1. i \in DOMAIN (first \o second \o third)
    BY <1>1
  <2> QED BY <1>3, <1>4, <2>1
<1>6. /\ \A k \in DOMAIN first : first[k] = storm
      /\ \A k \in DOMAIN second : /\ second[k] = loop
           /\ LoopSuspect(log, recent, e, Previous(log, recent, n), requests, time)
      /\ \A k \in DOMAIN third : /\ third[k] = explosion
           /\ TokenExplosion(log, recent, n, requests, used)
  <2>1. \A c, x : \A k \in DOMAIN (IF c THEN <<x>> ELSE <<>>) :
          (IF c THEN <<x>> ELSE <<>>)[k] = x /\ c
    OBVIOUS
  <2> HIDE DEF storm, loop, explosion, recent, e
  <2> QED BY <2>1
<1>7. storm[1] = "retry_storm" /\ loop[1] = "loop_suspect" /\ explosion[1] = "token_explosion"
  OBVIOUS
<1> HIDE DEF first, second, third, storm, loop, explosion, parts
<1> QED BY <1>1, <1>5, <1>6, <1>7

(* Before the detectors ran an ingest has no signals, and after that its event *)
(* is a row of the log.                                                      *)
DetectionInv ==
  /\ LogOK
  /\ \A w \in Ingesters :
       /\ at[w] # "idle" => mine[w] \in DOMAIN log
       /\ at[w] \in {"idle", "detect"} => due[w] = <<>>
  /\ mine \in [Ingesters -> Nat \cup {NoRow}]
  /\ GrowthIsNoLoop

(* Ingest w reports its event as a loop and as an explosion.                  *)
Clash(w) ==
  /\ \E i \in DOMAIN due[w] : due[w][i][1] = "loop_suspect"
  /\ \E i \in DOMAIN due[w] : due[w][i][1] = "token_explosion"

ClashesOverAbs == \A w \in Ingesters : Clash(w) => ContextTokens(log[mine[w]]) >= Abs

(* The invariant without the sets of names.                                   *)
LEMMA GrowthIsNoLoopByClash ==
  GrowthIsNoLoop <=> ClashesOverAbs
<1> SUFFICES ASSUME NEW w \in Ingesters
             PROVE  {"loop_suspect", "token_explosion"}
                      \subseteq {due[w][i][1] : i \in DOMAIN due[w]} <=> Clash(w)
  BY DEF GrowthIsNoLoop, ClashesOverAbs
<1>1. \A name : name \in {due[w][i][1] : i \in DOMAIN due[w]}
                <=> \E i \in DOMAIN due[w] : due[w][i][1] = name
  OBVIOUS
<1> QED BY <1>1 DEF Clash

(* What Detect finds.                                                         *)
LEMMA DetectedNoClash ==
  ASSUME LogOK, NEW n \in DOMAIN log, NEW requests, NEW used, NEW time,
         NEW i \in DOMAIN Signals(log, n, requests, used, time),
         NEW j \in DOMAIN Signals(log, n, requests, used, time),
         Signals(log, n, requests, used, time)[i][1] = "loop_suspect",
         Signals(log, n, requests, used, time)[j][1] = "token_explosion"
  PROVE  ContextTokens(log[n]) >= Abs
<1>1. /\ LoopSuspect(log, Recent(log), log[n], Previous(log, Recent(log), n), requests, time)
      /\ TokenExplosion(log, Recent(log), n, requests, used)
  BY SignalsNamed
<1>2. Recent(log) \subseteq DOMAIN log
  BY DEF Recent
<1>3. ~GrowthHit(log, Recent(log), n, requests, used)
  BY <1>1, <1>2, LoopIsNoGrowth
<1> QED BY <1>1, <1>3 DEF TokenExplosion

(* Steps that give no ingest a signal but those it has, with the same event.  *)
LEMMA NothingDetected ==
  ASSUME EpisodeInv, DetectionInv, LogOK', mine' \in [Ingesters -> Nat \cup {NoRow}],
         DOMAIN log \subseteq DOMAIN log', \A i \in DOMAIN log : log'[i] = log[i],
         \A w \in Ingesters :
           /\ at'[w] # "idle" => mine'[w] \in DOMAIN log'
           /\ at'[w] \in {"idle", "detect"} => due'[w] = <<>>
           /\ due'[w] # <<>> =>
                /\ mine'[w] = mine[w] /\ mine[w] \in DOMAIN log
                /\ \A i \in DOMAIN due'[w] : \E j \in DOMAIN due[w] : due'[w][i] = due[w][j]
  PROVE  DetectionInv'
<1>1. ASSUME NEW w \in Ingesters, Clash(w)' PROVE ContextTokens(log'[mine'[w]]) >= Abs
  <2>1. due'[w] # <<>>
    BY <1>1 DEF Clash
  <2>2. Clash(w)
    BY <1>1, <2>1 DEF Clash
  <2>3. ContextTokens(log[mine[w]]) >= Abs
    BY <2>2, GrowthIsNoLoopByClash DEF DetectionInv, ClashesOverAbs
  <2> QED BY <2>1, <2>3
<1>2. GrowthIsNoLoop'
  <2>1. ClashesOverAbs'
    BY <1>1 DEF ContextTokens, ClashesOverAbs
  <2> QED BY <2>1, GrowthIsNoLoopByClash, PTL
<1> QED BY <1>2 DEF DetectionInv

(* DetectionInv is inductive: Detect alone gives signals, of the log as it is. *)
LEMMA DetectionStep ==
  EpisodeInv /\ DetectionInv /\ [DetectorsNext]_detectorVars => DetectionInv'
<1> SUFFICES ASSUME EpisodeInv, DetectionInv, [DetectorsNext]_detectorVars
             PROVE  DetectionInv'
  OBVIOUS
<1>1. PICK prints : EpisodesTypeOK(prints)
  BY DEF EpisodeInv
<1>2. /\ at \in [Ingesters -> WorkerPlaces] /\ due \in [Ingesters -> Seq(prints)]
      /\ mine \in [Ingesters -> Nat \cup {NoRow}]
      /\ \A w \in Ingesters :
           /\ at[w] # "idle" => mine[w] \in DOMAIN log
           /\ at[w] \in {"idle", "detect"} => due[w] = <<>>
  BY <1>1 DEF EpisodesTypeOK, DetectionInv
<1>3. ASSUME NEW w \in Ingesters, Finish(w), log' = log PROVE DetectionInv'
  <2>1. /\ at' = [at EXCEPT ![w] = "idle"] /\ mine' = [mine EXCEPT ![w] = NoRow]
        /\ due' = [due EXCEPT ![w] = <<>>]
    BY <1>3 DEF Finish, Pass
  <2>2. mine' \in [Ingesters -> Nat \cup {NoRow}] /\ LogOK'
    BY <1>2, <1>3, <2>1 DEF DetectionInv, LogOK, ContextTokens
  <2>3. \A v \in Ingesters :
          /\ at'[v] # "idle" => mine'[v] \in DOMAIN log
          /\ at'[v] \in {"idle", "detect"} => due'[v] = <<>>
          /\ due'[v] # <<>> => due'[v] = due[v] /\ mine'[v] = mine[v] /\ mine[v] \in DOMAIN log
    BY <1>2, <2>1
  <2> QED BY <1>3, <2>2, <2>3, NothingDetected
<1>4. ASSUME NEW w \in Ingesters, NEW place \in {"lookup", "write"},
             at[w] \notin {"idle", "detect"}, at' = [at EXCEPT ![w] = place],
             due' = due \/ (due' = [due EXCEPT ![w] = Tail(@)] /\ due[w] # <<>>),
             UNCHANGED <<log, mine>>
      PROVE  DetectionInv'
  <2>1. mine' \in [Ingesters -> Nat \cup {NoRow}] /\ LogOK'
    BY <1>2, <1>4 DEF DetectionInv, LogOK
  <2>2. \A v \in Ingesters : at'[v] = (IF v = w THEN place ELSE at[v])
    BY <1>2, <1>4
  <2>3. ASSUME NEW v \in Ingesters, NEW i \in DOMAIN due'[v]
        PROVE  \E j \in DOMAIN due[v] : due'[v][i] = due[v][j]
    <3>1. CASE due'[v] = due[v]
      BY <2>3, <3>1
    <3>2. CASE due'[v] = Tail(due[v]) /\ due[v] # <<>>
      <4>1. due[v] \in Seq(prints)
        BY <1>2
      <4>2. i + 1 \in DOMAIN due[v] /\ due'[v][i] = due[v][i + 1]
        BY <2>3, <3>2, <4>1
      <4> QED BY <4>2
    <3> QED BY <1>2, <1>4, <3>1, <3>2
  <2>4. \A v \in Ingesters : v # w => due'[v] = due[v]
    BY <1>2, <1>4
  <2>5. \A v \in Ingesters :
          /\ at'[v] # "idle" => mine'[v] \in DOMAIN log'
          /\ at'[v] \in {"idle", "detect"} => due'[v] = <<>>
          /\ due'[v] # <<>> => mine'[v] = mine[v] /\ mine[v] \in DOMAIN log
    BY <1>2, <1>4, <2>2, <2>4
  <2> QED BY <1>4, <2>1, <2>3, <2>5, NothingDetected
<1>5. ASSUME UNCHANGED <<log, at, mine, due>> PROVE DetectionInv'
  <2>1. mine' \in [Ingesters -> Nat \cup {NoRow}] /\ LogOK'
    BY <1>2, <1>5 DEF DetectionInv, LogOK
  <2>2. \A w \in Ingesters : due'[w] # <<>> => mine[w] \in DOMAIN log
    BY <1>2, <1>5 DEF WorkerPlaces
  <2> QED BY <1>2, <1>5, <2>1, <2>2, NothingDetected
<1>6. ASSUME NEW w \in Ingesters, Store(w) PROVE DetectionInv'
  <2> DEFINE n == Len(log) + 1
  <2>1. PICK kind \in EventKinds, stamp \in {2 * n, 2 * n - 3} :
          log' = Append(log, Row(kind, stamp))
    BY <1>6 DEF Store
  <2> DEFINE row == Row(kind, stamp)
  <2>2. row.ts = stamp /\ row.total = kind.total /\ row.explosion = kind.explosion
    BY DEF Row
  <2>3. PICK rows : log \in Seq(rows)
    BY DEF DetectionInv, LogOK
  <2> HIDE DEF row
  <2>4. log' = Append(log, row)
    BY <2>1 DEF row
  <2>5. /\ log' \in Seq(rows \cup {row}) /\ DOMAIN log' = DOMAIN log \cup {n} /\ log'[n] = row
        /\ \A i \in DOMAIN log : log'[i] = log[i]
    <3>1. log \in Seq(rows \cup {row}) /\ row \in rows \cup {row}
      BY <2>3
    <3> QED BY <2>4, <3>1
  <2>6. LogOK'
    <3>1. row.total \in Nat /\ row.explosion \in Nat \cup {NoTokens} /\ row.ts \in {2 * n, 2 * n - 3}
      BY <2>1, <2>2, KindsAssumption
    <3> HIDE DEF n
    <3> QED BY <2>5, <3>1 DEF LogOK, DetectionInv
  <2>7. n \in Nat
    BY <2>3
  <2> HIDE DEF n
  <2>8. /\ at' = [at EXCEPT ![w] = "detect"] /\ mine' = [mine EXCEPT ![w] = n]
        /\ due' = due /\ at[w] = "idle"
    BY <1>6 DEF Store, Pass, n
  <2>9. mine' \in [Ingesters -> Nat \cup {NoRow}]
    BY <1>2, <2>7, <2>8
  <2>10. \A v \in Ingesters :
          /\ at'[v] # "idle" => mine'[v] \in DOMAIN log'
          /\ at'[v] \in {"idle", "detect"} => due'[v] = <<>>
          /\ due'[v] # <<>> => mine'[v] = mine[v] /\ mine[v] \in DOMAIN log
    BY <1>2, <2>5, <2>8 DEF WorkerPlaces
  <2> QED BY <2>5, <2>6, <2>8, <2>9, <2>10, NothingDetected
<1>7. ASSUME NEW w \in Ingesters, Detect(w) PROVE DetectionInv'
  <2> DEFINE signals == Signals(log, mine[w], Requests60, Tokens60, clock)
  <2>1. CASE signals = <<>>
    BY <1>3, <1>7, <2>1 DEF Detect
  <2>2. CASE signals # <<>>
    <3>1. /\ due' = [due EXCEPT ![w] = signals] /\ at' = [at EXCEPT ![w] = "screen"]
          /\ UNCHANGED <<log, mine>> /\ at[w] = "detect"
      BY <1>7, <2>2 DEF Detect, Pass
    <3>2. LogOK' /\ mine[w] \in DOMAIN log /\ LogOK
      BY <1>2, <3>1 DEF DetectionInv, LogOK
    <3>3. \A i, j \in DOMAIN signals :
            signals[i][1] = "loop_suspect" /\ signals[j][1] = "token_explosion"
            => ContextTokens(log[mine[w]]) >= Abs
      BY <3>2, DetectedNoClash
    <3> HIDE DEF signals
    <3>4. ASSUME NEW v \in Ingesters, Clash(v)' PROVE ContextTokens(log'[mine'[v]]) >= Abs
      <4>1. CASE v = w
        <5>1. due'[w] = signals
          BY <1>2, <3>1
        <5> QED BY <3>1, <3>3, <3>4, <4>1, <5>1 DEF Clash
      <4>2. CASE v # w
        <5>1. Clash(v)
          BY <1>2, <3>1, <3>4, <4>2 DEF Clash
        <5> QED BY <3>1, <5>1, GrowthIsNoLoopByClash DEF DetectionInv, ClashesOverAbs
      <4> QED BY <4>1, <4>2
    <3>5. ClashesOverAbs'
      BY <3>4 DEF ContextTokens, ClashesOverAbs
    <3>6. GrowthIsNoLoop'
      BY <3>5, GrowthIsNoLoopByClash, PTL
    <3>7. \A v \in Ingesters : at'[v] = (IF v = w THEN "screen" ELSE at[v])
                               /\ (v # w => due'[v] = due[v])
      BY <1>2, <3>1
    <3> QED BY <1>2, <3>1, <3>2, <3>6, <3>7 DEF DetectionInv
  <2> QED BY <2>1, <2>2
<1>8. ASSUME NEW w \in Ingesters, Screen(w) PROVE DetectionInv'
  <2>1. CASE Muted
    BY <1>3, <1>8, <2>1 DEF Screen
  <2>2. CASE ~Muted
    <3>1. /\ at' = [at EXCEPT ![w] = "lookup"] /\ at[w] = "screen"
          /\ UNCHANGED <<log, mine, due>>
      BY <1>8, <2>2 DEF Screen, Pass
    <3> QED BY <1>4, <3>1
  <2> QED BY <2>1, <2>2
<1>9. ASSUME NEW w \in Ingesters, LookUp(w) PROVE DetectionInv'
  <2>1. /\ at' = [at EXCEPT ![w] = "write"] /\ at[w] = "lookup"
        /\ UNCHANGED <<log, mine, due>>
    BY <1>9 DEF LookUp, Pass
  <2> QED BY <1>4, <2>1
<1>10. ASSUME NEW w \in Ingesters, Process(w) PROVE DetectionInv'
  <2>1. at[w] = "write" /\ due[w] # <<>> /\ log' = log
    BY <1>10 DEF Process, EpisodeInv, IngestsOK
  <2> QED BY <1>3, <1>4, <1>10, <2>1 DEF Process, Pass
<1>11. ASSUME NEW w \in Ingesters, Abandon(w) PROVE DetectionInv'
  BY <1>3, <1>11 DEF Abandon
<1>12. ASSUME \/ \E i \in DOMAIN incidents : ResolveByUser(i)
              \/ AutoCloseCold \/ SeeBlock \/ EndBlock \/ PassTime \/ UNCHANGED detectorVars
       PROVE  DetectionInv'
  BY <1>5, <1>12 DEF ResolveByUser, AutoCloseCold, SeeBlock, EndBlock, PassTime, detectorVars
<1> QED
  BY <1>6, <1>7, <1>8, <1>9, <1>10, <1>11, <1>12 DEF DetectorsNext

(* No ingest has a signal at first.                                           *)
LEMMA DetectionInit == DetectorsInit => DetectionInv
<1> SUFFICES ASSUME DetectorsInit PROVE DetectionInv
  OBVIOUS
<1>1. /\ log = <<>> /\ \A w \in Ingesters : at[w] = "idle" /\ due[w] = <<>>
      /\ mine \in [Ingesters -> Nat \cup {NoRow}]
  BY DEF DetectorsInit
<1>2. LogOK
  <2>1. log \in Seq({}) /\ DOMAIN log = {}
    BY <1>1
  <2> QED BY <2>1 DEF LogOK
<1>3. GrowthIsNoLoop
  BY <1>1, GrowthIsNoLoopByClash DEF Clash, ClashesOverAbs
<1> QED BY <1>1, <1>2, <1>3 DEF DetectionInv

(* Whatever the thresholds, the stream and the order its events arrive in, one *)
(* event is reported as a loop and as an explosion only for its size.         *)
THEOREM GrowthIsNoLoopHolds == DetectorsSpec => []GrowthIsNoLoop
<1>1. EpisodeInv /\ DetectionInv => GrowthIsNoLoop
  BY DEF DetectionInv
<1> QED BY <1>1, EpisodeInitInv, EpisodeStep, DetectionInit, DetectionStep, PTL DEF DetectorsSpec

(* The signals counted if the count of incident i were count[i].              *)
Places(count) == UNION {{i} \X (1..count[i]) : i \in DOMAIN count}

(* A place is that of an incident, below its count.                           *)
LEMMA PlacesAre ==
  ASSUME NEW count
  PROVE  /\ \A p \in Places(count) :
              /\ p = <<p[1], p[2]>> /\ p[1] \in DOMAIN count /\ p[2] \in 1..count[p[1]]
         /\ \A i \in DOMAIN count : \A n \in 1..count[i] : <<i, n>> \in Places(count)
BY DEF Places

(* One more signal in the count of an incident, old or new.                   *)
LEMMA OneMorePlace ==
  ASSUME NEW D, NEW k, NEW count \in [D -> Nat], NEW more \in [D \cup {k} -> Nat],
         \A i \in D \ {k} : more[i] = count[i],
         more[k] = (IF k \in D THEN count[k] + 1 ELSE 1),
         IsFiniteSet(Places(count))
  PROVE  /\ IsFiniteSet(Places(more))
         /\ Cardinality(Places(more)) = Cardinality(Places(count)) + 1
<1>1. Places(more) = Places(count) \cup {<<k, more[k]>>}
  <2>1. ASSUME NEW p \in Places(more) PROVE p \in Places(count) \cup {<<k, more[k]>>}
    <3>1. p = <<p[1], p[2]>> /\ p[1] \in D \cup {k} /\ p[2] \in 1..more[p[1]]
      BY PlacesAre
    <3>2. CASE p[1] # k
      <4>1. p[1] \in DOMAIN count /\ p[2] \in 1..count[p[1]]
        BY <3>1, <3>2
      <4> QED BY <3>1, <4>1, PlacesAre
    <3>3. CASE p[1] = k /\ p[2] = more[k]
      BY <3>1, <3>3
    <3>4. CASE p[1] = k /\ p[2] # more[k]
      <4>1. k \in D /\ p[2] \in 1..count[k]
        BY <3>1, <3>4
      <4> QED BY <3>1, <3>4, <4>1, PlacesAre
    <3> QED BY <3>2, <3>3, <3>4
  <2>2. ASSUME NEW p \in Places(count) PROVE p \in Places(more)
    <3>1. p = <<p[1], p[2]>> /\ p[1] \in D /\ p[2] \in 1..count[p[1]]
      BY PlacesAre
    <3>2. p[1] \in DOMAIN more /\ p[2] \in 1..more[p[1]]
      BY <3>1
    <3> QED BY <3>1, <3>2, PlacesAre
  <2>3. <<k, more[k]>> \in Places(more)
    <3>1. k \in DOMAIN more /\ more[k] \in 1..more[k]
      OBVIOUS
    <3> QED BY <3>1, PlacesAre
  <2> QED BY <2>1, <2>2, <2>3
<1>2. <<k, more[k]>> \notin Places(count)
  <2> SUFFICES ASSUME <<k, more[k]>> \in Places(count) PROVE FALSE
    OBVIOUS
  <2> DEFINE p == <<k, more[k]>>
  <2>1. p[1] \in D /\ p[2] \in 1..count[p[1]]
    BY PlacesAre
  <2>2. p[1] = k /\ p[2] = more[k]
    OBVIOUS
  <2> HIDE DEF p
  <2> QED BY <2>1, <2>2
<1> QED BY <1>1, <1>2, FS_AddElement

(* With smaller counts there are no more places.                              *)
LEMMA FewerPlaces ==
  ASSUME NEW D, NEW count \in [D -> Nat], NEW more \in [D -> Nat],
         \A i \in D : count[i] <= more[i], IsFiniteSet(Places(more))
  PROVE  IsFiniteSet(Places(count)) /\ Cardinality(Places(count)) <= Cardinality(Places(more))
<1>1. ASSUME NEW p \in Places(count) PROVE p \in Places(more)
  <2>1. p = <<p[1], p[2]>> /\ p[1] \in D /\ p[2] \in 1..count[p[1]]
    BY PlacesAre
  <2>2. p[1] \in DOMAIN more /\ p[2] \in 1..more[p[1]]
    BY <2>1
  <2> QED BY <2>1, <2>2, PlacesAre
<1> QED BY <1>1, FS_Subset

(* Ingest w is about to refresh a row it found.                               *)
Looked(w) == at[w] = "write" /\ found[w].row # NoRow

(* What the counts have been: count[i] is not above the highest count of       *)
(* incident i, each step of which was a signal processed.                     *)
CountsOK(highest) ==
  /\ highest \in [DOMAIN incidents -> Nat]
  /\ IsFiniteSet(Places(highest)) /\ Cardinality(Places(highest)) <= processed
  /\ \A i \in DOMAIN incidents : incidents[i].count <= highest[i]
  /\ \A w \in Ingesters : Looked(w) => found[w].count <= highest[found[w].row]

(* Before a write on a lookup out of date every signal is still counted, and an *)
(* ingest whose lookup is not knows the row it found as it is.                *)
CountsExact(highest) ==
  /\ Cardinality(Places(highest)) = processed
  /\ \A i \in DOMAIN incidents : incidents[i].count = highest[i]
  /\ \A w \in Ingesters \ outrun : Looked(w) =>
       /\ incidents[found[w].row].status = "open"
       /\ found[w].count = incidents[found[w].row].count

CountsInv ==
  /\ processed \in Nat
  /\ \E highest : CountsOK(highest) /\ (~raced => CountsExact(highest))

(* Steps that write no count, and after which a lookup is as it was, fresh of    *)
(* an open row, or out of date.                                              *)
LEMMA NothingCounted ==
  ASSUME EpisodeInv, CountsInv, UNCHANGED <<processed, raced>>,
         DOMAIN incidents' = DOMAIN incidents,
         \A i \in DOMAIN incidents : incidents'[i].count = incidents[i].count,
         \A w \in Ingesters : Looked(w)' =>
           \/ /\ Looked(w) /\ found'[w] = found[w] /\ (w \in outrun => w \in outrun')
              /\ w \notin outrun' => incidents'[found[w].row].status = incidents[found[w].row].status
           \/ /\ found'[w].row \in DOMAIN incidents /\ incidents'[found'[w].row].status = "open"
              /\ found'[w].count = incidents[found'[w].row].count
  PROVE  CountsInv'
<1>1. PICK highest : CountsOK(highest) /\ (~raced => CountsExact(highest))
  BY DEF CountsInv
<1>2. \A w \in Ingesters : Looked(w) => found[w].row \in DOMAIN incidents
  BY DEF EpisodeInv, IngestsOK, Looked
<1>3. CountsOK(highest)'
  BY <1>1, <1>2 DEF CountsOK
<1>4. ASSUME ~raced PROVE CountsExact(highest)'
  <2>1. CountsExact(highest)
    BY <1>1, <1>4
  <2>2. ASSUME NEW w \in Ingesters \ outrun', Looked(w)'
        PROVE  /\ incidents'[found'[w].row].status = "open"
               /\ found'[w].count = incidents'[found'[w].row].count
    <3>1. CASE /\ Looked(w) /\ found'[w] = found[w] /\ (w \in outrun => w \in outrun')
               /\ w \notin outrun' => incidents'[found[w].row].status = incidents[found[w].row].status
      BY <1>2, <2>1, <2>2, <3>1 DEF CountsExact
    <3>2. CASE /\ found'[w].row \in DOMAIN incidents /\ incidents'[found'[w].row].status = "open"
               /\ found'[w].count = incidents[found'[w].row].count
      BY <3>2
    <3> QED BY <2>2, <3>1, <3>2
  <2> QED BY <2>1, <2>2 DEF CountsExact
<1> QED BY <1>1, <1>3, <1>4 DEF CountsInv

(* The count that a write leaves: none, for a row closed since the lookup, one  *)
(* for a new row, and one more than was read for the row found.               *)
LEMMA CountWritten ==
  ASSUME NEW prints, EpisodesTypeOK(prints), IngestsOK, NEW w \in Ingesters, Process(w)
  PROVE  \/ /\ found[w].row # NoRow /\ incidents[found[w].row].status # "open"
            /\ incidents' = incidents
         \/ \E k \in Nat :
              /\ DOMAIN incidents' = DOMAIN incidents \cup {k}
              /\ \A i \in DOMAIN incidents \ {k} : incidents'[i] = incidents[i]
              /\ k \in DOMAIN incidents <=> found[w].row # NoRow
              /\ found[w].row # NoRow => found[w].row = k /\ incidents[k].print = Signal(w)
              /\ incidents'[k].count = (IF k \in DOMAIN incidents THEN found[w].count + 1 ELSE 1)
<1> DEFINE row == found[w].row
<1>1. /\ at[w] = "write" /\ due[w] # <<>>
      /\ row \in Nat \cup {NoRow} /\ found[w].count \in Nat
      /\ incidents' = IF row = NoRow THEN Opened(w) ELSE Refreshed(w)
      /\ row # NoRow => row \in DOMAIN incidents /\ incidents[row].print = Signal(w)
  BY DEF Process, IngestsOK, EpisodesTypeOK
<1>2. /\ incidents \in Seq(Rows(prints)) /\ Len(incidents) \in Nat
      /\ DOMAIN incidents = 1..Len(incidents)
      /\ \A i \in DOMAIN incidents : incidents[i] \in Rows(prints)
  BY DEF EpisodesTypeOK
<1>3. CASE row = NoRow
  <2> DEFINE fresh == [print |-> Signal(w), status |-> "open", created |-> moment[w],
                      seen |-> moment[w], count |-> 1]
             k == Len(incidents) + 1
  <2>1. incidents' = Append(incidents, fresh) /\ fresh.count = 1
    BY <1>1, <1>3 DEF Opened
  <2>2. incidents' \in Seq(Rows(prints))
    BY RowWritten
  <2> HIDE DEF fresh
  <2>3. /\ DOMAIN incidents' = DOMAIN incidents \cup {k} /\ k \in Nat
        /\ incidents'[k] = fresh /\ k \notin DOMAIN incidents
        /\ \A i \in DOMAIN incidents : incidents'[i] = incidents[i]
    BY <1>2, <2>1
  <2> HIDE DEF k
  <2> QED BY <1>1, <1>3, <2>1, <2>3
<1>4. CASE row # NoRow /\ incidents[row].status # "open"
  BY <1>1, <1>4 DEF Refreshed
<1>5. CASE row # NoRow /\ incidents[row].status = "open"
  <2>1. incidents[row] \in Rows(prints) /\ row \in DOMAIN incidents /\ row \in Nat
    BY <1>1, <1>2, <1>5
  <2> DEFINE r == [incidents[row] EXCEPT !.count = found[w].count + 1, !.seen = moment[w]]
  <2>2. incidents' = [incidents EXCEPT ![row] = r]
    BY <1>1, <1>5, <2>1 DEF Refreshed, Rows
  <2>3. r.count = found[w].count + 1
    BY <2>1 DEF Rows
  <2> HIDE DEF r
  <2>4. /\ DOMAIN incidents' = DOMAIN incidents \cup {row} /\ incidents'[row] = r
        /\ \A i \in DOMAIN incidents \ {row} : incidents'[i] = incidents[i]
    BY <1>2, <2>1, <2>2
  <2> QED BY <1>1, <1>5, <2>1, <2>3, <2>4
<1> QED BY <1>3, <1>4, <1>5

(* Process: the highest count of the row goes up with the signals processed;   *)
(* the row of a lookup that stays valid is of another fingerprint.            *)
LEMMA ProcessCounts ==
  ASSUME EpisodeInv, CountsInv, NEW w \in Ingesters, Process(w)
  PROVE  CountsInv'
<1>1. PICK prints : EpisodesTypeOK(prints)
  BY DEF EpisodeInv
<1>2. PICK highest : CountsOK(highest) /\ (~raced => CountsExact(highest))
  BY DEF CountsInv
<1>3. /\ at[w] = "write" /\ processed' = processed + 1 /\ processed \in Nat
      /\ raced \in BOOLEAN /\ raced' = (raced \/ w \in outrun)
      /\ outrun' = (outrun \cup OutrunBy(w, Signal(w))) \ {w}
  BY <1>1 DEF Process, CountsInv, EpisodesTypeOK
<1>4. ~Looked(w)' /\ \A v \in Ingesters \ {w} : at'[v] = at[v] /\ found'[v] = found[v]
  <2>1. \/ Finish(w)
        \/ at' = [at EXCEPT ![w] = "lookup"] /\ found' = [found EXCEPT ![w] = NothingFound]
    BY DEF Process, Pass
  <2> QED BY <1>1, <2>1 DEF Finish, Pass, Looked, EpisodesTypeOK
<1>5. \A v \in Ingesters : Looked(v)' => v # w /\ Looked(v) /\ found'[v] = found[v]
  BY <1>4 DEF Looked
<1>6. \A v \in Ingesters : Looked(v) =>
        found[v].row \in DOMAIN incidents /\ incidents[found[v].row].print = Signal(v)
  BY DEF EpisodeInv, IngestsOK, Looked
<1>7. /\ IsFiniteSet(Places(highest)) /\ Cardinality(Places(highest)) \in Nat
      /\ Cardinality(Places(highest)) <= processed /\ highest \in [DOMAIN incidents -> Nat]
      /\ \A i \in DOMAIN incidents : incidents[i].count <= highest[i]
      /\ \A v \in Ingesters : Looked(v) => found[v].count <= highest[found[v].row]
  BY <1>2, FS_CardinalityType DEF CountsOK
<1>8. CASE /\ found[w].row # NoRow /\ incidents[found[w].row].status # "open"
           /\ incidents' = incidents
  <2>1. raced'
    BY <1>2, <1>3, <1>8 DEF CountsExact, Looked
  <2>2. Cardinality(Places(highest)) <= processed'
    BY <1>3, <1>7
  <2>3. CountsOK(highest)'
    BY <1>5, <1>7, <1>8, <2>2 DEF CountsOK
  <2> QED BY <1>3, <2>1, <2>3 DEF CountsInv
<1>9. CASE \E k \in Nat :
             /\ DOMAIN incidents' = DOMAIN incidents \cup {k}
             /\ \A i \in DOMAIN incidents \ {k} : incidents'[i] = incidents[i]
             /\ k \in DOMAIN incidents <=> found[w].row # NoRow
             /\ found[w].row # NoRow => found[w].row = k /\ incidents[k].print = Signal(w)
             /\ incidents'[k].count = (IF k \in DOMAIN incidents THEN found[w].count + 1 ELSE 1)
  <2>1. PICK k \in Nat :
          /\ DOMAIN incidents' = DOMAIN incidents \cup {k}
          /\ \A i \in DOMAIN incidents \ {k} : incidents'[i] = incidents[i]
          /\ k \in DOMAIN incidents <=> found[w].row # NoRow
          /\ found[w].row # NoRow => found[w].row = k /\ incidents[k].print = Signal(w)
          /\ incidents'[k].count = (IF k \in DOMAIN incidents THEN found[w].count + 1 ELSE 1)
    BY <1>9
  <2> DEFINE D == DOMAIN incidents
  <2>2. PICK more \in [D \cup {k} -> Nat] :
          /\ \A i \in D \ {k} : more[i] = highest[i]
          /\ more[k] = (IF k \in D THEN highest[k] + 1 ELSE 1)
    <3> DEFINE f == [i \in D \cup {k} |-> IF i # k THEN highest[i]
                                          ELSE IF k \in D THEN highest[k] + 1 ELSE 1]
    <3>1. /\ f \in [D \cup {k} -> Nat] /\ \A i \in D \ {k} : f[i] = highest[i]
          /\ f[k] = (IF k \in D THEN highest[k] + 1 ELSE 1)
      BY <1>7
    <3> QED BY <3>1
  <2>3. /\ IsFiniteSet(Places(more))
        /\ Cardinality(Places(more)) = Cardinality(Places(highest)) + 1
    BY <1>7, <2>2, OneMorePlace
  <2>4. Looked(w) <=> k \in D
    BY <1>3, <2>1 DEF Looked
  <2>5. found[w].count \in Nat
    BY <1>1 DEF EpisodesTypeOK
  <2>6. CountsOK(more)'
    <3>1. incidents'[k].count <= more[k]
      <4>1. CASE k \in D
        <5>1. found[w].count <= highest[k] /\ highest[k] \in Nat
          BY <1>7, <2>1, <2>4, <4>1
        <5> QED BY <2>1, <2>2, <2>5, <4>1, <5>1
      <4>2. CASE k \notin D
        BY <2>1, <2>2, <4>2
      <4> QED BY <4>1, <4>2
    <3>2. \A i \in DOMAIN incidents' : incidents'[i].count <= more[i]
      BY <1>7, <2>1, <2>2, <3>1
    <3>3. ASSUME NEW v \in Ingesters, Looked(v)' PROVE found'[v].count <= more[found'[v].row]
      <4> DEFINE row == found[v].row
      <4>1. /\ row \in D /\ found'[v] = found[v] /\ found[v].count <= highest[row]
            /\ found[v].count \in Nat /\ highest[row] \in Nat
        BY <1>1, <1>5, <1>6, <1>7, <3>3 DEF EpisodesTypeOK
      <4>2. highest[row] <= more[row] /\ more[row] \in Nat
        BY <2>2, <4>1
      <4> HIDE DEF row
      <4>3. found[v].count <= more[row]
        BY <4>1, <4>2
      <4> QED BY <4>1, <4>3 DEF row
    <3>4. Cardinality(Places(more)) <= processed'
      BY <1>3, <1>7, <2>3
    <3> QED BY <2>1, <2>2, <2>3, <3>2, <3>3, <3>4 DEF CountsOK
  <2>7. ASSUME ~raced' PROVE CountsExact(more)'
    <3>1. CountsExact(highest) /\ w \notin outrun
      BY <1>2, <1>3, <2>7
    <3>2. Cardinality(Places(more)) = processed'
      BY <1>3, <2>3, <3>1 DEF CountsExact
    <3>3. \A i \in DOMAIN incidents' : incidents'[i].count = more[i]
      BY <2>1, <2>2, <2>4, <3>1 DEF CountsExact
    <3>4. ASSUME NEW v \in Ingesters \ outrun', Looked(v)'
          PROVE  /\ incidents'[found'[v].row].status = "open"
                 /\ found'[v].count = incidents'[found'[v].row].count
      <4>1. v # w /\ Looked(v) /\ found'[v] = found[v] /\ at[v] = "write"
        BY <1>5, <3>4 DEF Looked
      <4>2. v \notin outrun /\ Signal(v) # Signal(w)
        BY <1>3, <3>4, <4>1 DEF OutrunBy
      <4>3. found[v].row \in D /\ found[v].row # k
        BY <1>6, <2>1, <4>1, <4>2
      <4> QED BY <2>1, <3>1, <4>1, <4>2, <4>3 DEF CountsExact
    <3> QED BY <3>2, <3>3, <3>4 DEF CountsExact
  <2> QED BY <1>3, <2>6, <2>7 DEF CountsInv
<1> QED BY <1>1, <1>8, <1>9, CountWritten DEF EpisodeInv

(* CountsInv is inductive: besides Process, only LookUp reads a count.        *)
LEMMA CountsStep == EpisodeInv /\ CountsInv /\ [DetectorsNext]_detectorVars => CountsInv'
<1> SUFFICES ASSUME EpisodeInv, CountsInv, [DetectorsNext]_detectorVars PROVE CountsInv'
  OBVIOUS
<1>1. PICK prints : EpisodesTypeOK(prints)
  BY DEF EpisodeInv
<1>2. /\ at \in [Ingesters -> WorkerPlaces]
      /\ found \in [Ingesters -> [row : Nat \cup {NoRow}, count : Nat]]
  BY <1>1 DEF EpisodesTypeOK
<1>3. ASSUME NEW w \in Ingesters, Finish(w), UNCHANGED <<incidents, processed, raced>>,
             outrun \ {w} \subseteq outrun'
      PROVE  CountsInv'
  <2>1. at'[w] = "idle" /\ \A v \in Ingesters \ {w} : at'[v] = at[v] /\ found'[v] = found[v]
    BY <1>2, <1>3 DEF Finish, Pass
  <2> QED BY <1>3, <2>1, NothingCounted DEF Looked
<1>4. ASSUME NEW w \in Ingesters, NEW place \in {"detect", "screen", "lookup"},
             at' = [at EXCEPT ![w] = place],
             UNCHANGED <<incidents, processed, found, outrun, raced>>
      PROVE  CountsInv'
  <2>1. at'[w] # "write" /\ \A v \in Ingesters \ {w} : at'[v] = at[v]
    BY <1>2, <1>4
  <2> QED BY <1>4, <2>1, NothingCounted DEF Looked
<1>5. ASSUME NEW w \in Ingesters, LookUp(w) PROVE CountsInv'
  <2>1. /\ at' = [at EXCEPT ![w] = "write"] /\ UNCHANGED <<incidents, processed, outrun, raced>>
        /\ \/ found' = [found EXCEPT ![w] = NothingFound]
           \/ \E i \in ActiveSince(Signal(w), moment[w]) :
                found' = [found EXCEPT ![w] = [row |-> i, count |-> incidents[i].count]]
    BY <1>5 DEF LookUp, Pass, Newest
  <2>2. \A v \in Ingesters \ {w} : at'[v] = at[v] /\ found'[v] = found[v]
    BY <1>2, <2>1
  <2>3. Looked(w)' =>
          /\ found'[w].row \in DOMAIN incidents /\ incidents[found'[w].row].status = "open"
          /\ found'[w].count = incidents[found'[w].row].count
    BY <1>2, <2>1 DEF Looked, NothingFound, ActiveSince
  <2> QED BY <2>1, <2>2, <2>3, NothingCounted DEF Looked
<1>6. ASSUME AutoCloseCold \/ \E i \in DOMAIN incidents : ResolveByUser(i) PROVE CountsInv'
  <2> DEFINE closed == {i \in DOMAIN incidents : incidents'[i].status # incidents[i].status}
  <2>1. /\ DOMAIN incidents' = DOMAIN incidents
        /\ \A i \in DOMAIN incidents : incidents'[i].count = incidents[i].count
        /\ UNCHANGED <<at, due, found, processed, raced>> /\ outrun \subseteq outrun'
        /\ \A i \in closed : \A v \in Ingesters :
             at[v] = "write" /\ Signal(v) = incidents[i].print => v \in outrun'
    <3>1. \A i \in DOMAIN incidents : incidents[i] \in Rows(prints)
      BY <1>1 DEF EpisodesTypeOK
    <3>2. \A r \in Rows(prints), s \in {"resolved", "auto_resolved"} :
            [r EXCEPT !.status = s].count = r.count
      BY DEF Rows
    <3>3. CASE AutoCloseCold
      BY <3>1, <3>2, <3>3 DEF AutoCloseCold
    <3>4. CASE \E i \in DOMAIN incidents : ResolveByUser(i)
      BY <3>1, <3>2, <3>4 DEF ResolveByUser
    <3> QED BY <1>6, <3>3, <3>4
  <2>2. \A v \in Ingesters : Looked(v) =>
          found[v].row \in DOMAIN incidents /\ incidents[found[v].row].print = Signal(v)
    BY DEF EpisodeInv, IngestsOK, Looked
  <2> QED BY <2>1, <2>2, NothingCounted DEF Looked
<1>7. ASSUME NEW w \in Ingesters, Store(w) PROVE CountsInv'
  BY <1>4, <1>7 DEF Store, Pass
<1>8. ASSUME NEW w \in Ingesters, Detect(w) PROVE CountsInv'
  BY <1>3, <1>4, <1>8 DEF Detect, Pass
<1>9. ASSUME NEW w \in Ingesters, Screen(w) PROVE CountsInv'
  BY <1>3, <1>4, <1>9 DEF Screen, Pass
<1>10. ASSUME NEW w \in Ingesters, Abandon(w) PROVE CountsInv'
  BY <1>3, <1>10 DEF Abandon
<1>11. ASSUME SeeBlock \/ EndBlock \/ PassTime \/ UNCHANGED detectorVars PROVE CountsInv'
  <2>1. UNCHANGED <<incidents, at, found, processed, outrun, raced>>
    BY <1>11 DEF SeeBlock, EndBlock, PassTime, detectorVars
  <2> QED BY <2>1, NothingCounted DEF Looked
<1> QED
  BY <1>5, <1>6, <1>7, <1>8, <1>9, <1>10, <1>11, ProcessCounts DEF DetectorsNext

(* Nothing is counted at first.                                               *)
LEMMA CountsInit == DetectorsInit => CountsInv
<1> SUFFICES ASSUME DetectorsInit PROVE CountsInv
  OBVIOUS
<1>1. DOMAIN incidents = {} /\ processed = 0 /\ \A w \in Ingesters : at[w] = "idle"
  BY DEF DetectorsInit
<1> DEFINE none == [i \in {} |-> 0]
<1>2. Places(none) = {} /\ none \in [{} -> Nat]
  BY DEF Places
<1> HIDE DEF none
<1>3. IsFiniteSet(Places(none)) /\ Cardinality(Places(none)) = 0
  BY <1>2, FS_EmptySet
<1>4. CountsOK(none) /\ CountsExact(none)
  BY <1>1, <1>2, <1>3 DEF CountsOK, CountsExact, Looked
<1> QED BY <1>1, <1>4 DEF CountsInv

(* No race counts a signal twice, and without one none is lost, for any number *)
(* of ingests, events and windows: an incident whose count a write sets back   *)
(* has been counted higher by signals of its own.                             *)
THEOREM SignalsCountedHolds == DetectorsSpec => []SignalsCounted
<1>1. EpisodeInv /\ CountsInv => SignalsCounted
  <2> SUFFICES ASSUME EpisodeInv, CountsInv PROVE SignalsCounted
    OBVIOUS
  <2>1. PICK prints : EpisodesTypeOK(prints)
    BY DEF EpisodeInv
  <2>2. PICK highest : CountsOK(highest) /\ (~raced => CountsExact(highest))
    BY DEF CountsInv
  <2> DEFINE count == [i \in DOMAIN incidents |-> incidents[i].count]
  <2>3. count \in [DOMAIN incidents -> Nat]
    BY <2>1, RowTyped
  <2>4. CountedSignals = Places(count)
    BY DEF CountedSignals, Places
  <2>5. \A i \in DOMAIN incidents : count[i] <= highest[i] /\ (~raced => count[i] = highest[i])
    BY <2>2 DEF CountsOK, CountsExact
  <2> HIDE DEF count
  <2>6. /\ highest \in [DOMAIN incidents -> Nat] /\ IsFiniteSet(Places(highest))
        /\ Cardinality(Places(highest)) <= processed /\ processed \in Nat
    BY <2>2 DEF CountsOK, CountsInv
  <2>7. /\ Cardinality(Places(count)) <= Cardinality(Places(highest))
        /\ Cardinality(Places(count)) \in Nat /\ Cardinality(Places(highest)) \in Nat
    BY <2>3, <2>5, <2>6, FewerPlaces, FS_CardinalityType
  <2>8. ~raced => count = highest
    BY <2>3, <2>5, <2>6
  <2> QED BY <2>2, <2>4, <2>6, <2>7, <2>8 DEF SignalsCounted, CountsExact
<1> QED BY <1>1, EpisodeInitInv, EpisodeStep, CountsInit, CountsStep, PTL DEF DetectorsSpec
=============================================================================
