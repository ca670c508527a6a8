------------------------ MODULE ProtectedCallsProofs ------------------------
(***************************************************************************)
(* Proofs about ProtectedCalls: types, the fail mode the engine falls back  *)
(* by, what fail-closed keeps away from the providers, and the budget a     *)
(* clamp keeps to.                                                          *)
(***************************************************************************)
EXTENDS ProtectedCalls, FiniteSetTheorems, TLAPS

-----------------------------------------------------------------------------
(* The ladder.                                                               *)

Ratios == {90, 80, 70, 55, 40, 25}

(* A set of stages has a last one.                                           *)
LEMMA LastStage ==
  ASSUME NEW S \in SUBSET Stages, S # {}
  PROVE  \E i \in S : \A j \in S : j <= i
<1>1. S \subseteq {1, 2, 3, 4, 5, 6} BY DEF Stages
<1>2. CASE 6 \in S BY <1>1, <1>2
<1>3. CASE 6 \notin S /\ 5 \in S BY <1>1, <1>3
<1>4. CASE 6 \notin S /\ 5 \notin S /\ 4 \in S BY <1>1, <1>4
<1>5. CASE 6 \notin S /\ 5 \notin S /\ 4 \notin S /\ 3 \in S BY <1>1, <1>5
<1>6. CASE S \subseteq {1, 2} /\ 2 \in S BY <1>6
<1>7. CASE S = {1} BY <1>7
<1> QED BY <1>1, <1>2, <1>3, <1>4, <1>5, <1>6, <1>7

(* The ratio of a call is one of the six, or there is none.                  *)
LEMMA RatioType ==
  ASSUME NEW projected \in Int, NEW maxTok \in Nat
  PROVE  ClampRatio(projected, maxTok) \in Ratios \cup {None}
<1> DEFINE S == Reached(projected, maxTok)
<1>1. CASE S = {} BY <1>1 DEF ClampRatio
<1>2. CASE S # {}
  <2>1. S \in SUBSET Stages BY DEF Reached
  <2>2. \E i \in S : \A j \in S : j <= i BY <1>2, <2>1, LastStage
  <2> DEFINE last == CHOOSE i \in S : \A j \in S : j <= i
  <2>3. last \in S BY <2>2
  <2>4. last \in {1, 2, 3, 4, 5, 6} BY <2>1, <2>3 DEF Stages
  <2>5. ClampRatio(projected, maxTok) = OutputRatios[last] BY <1>2 DEF ClampRatio
  <2> HIDE DEF last
  <2>6. OutputRatios[last] \in Ratios BY <2>4 DEF OutputRatios, Ratios
  <2> QED BY <2>5, <2>6
<1> QED BY <1>1, <1>2

(* A share of a number is a number.                                          *)
LEMMA TruncatedType ==
  ASSUME NEW n \in Int, NEW p \in Int
  PROVE  Truncated(n, p) \in Int
BY DEF Truncated

(* A recommendation is a positive number, no more than what the cap leaves, *)
(* unless it is one token.                                                   *)
LEMMA RecommendedFits ==
  ASSUME NEW maxTok \in Nat, NEW tokens0 \in Int, NEW cap \in Int, NEW estimated \in Int,
         ClampRatio(tokens0 + estimated, maxTok) \in Ratios
  PROVE  LET recommended == Recommended(maxTok, tokens0, cap, estimated)
         IN  /\ recommended \in Nat \ {0}
             /\ \/ recommended = 1
                \/ /\ recommended <= cap
                   /\ recommended <= maxTok - tokens0 - AtLeast(0, estimated - cap)
<1> DEFINE ratio == ClampRatio(tokens0 + estimated, maxTok)
           share == Truncated(cap, ratio)
<1>1. ratio \in Int BY DEF Ratios
<1>2. share \in Int BY <1>1, TruncatedType
<1> HIDE DEF share
<1>3. Recommended(maxTok, tokens0, cap, estimated) =
        AtLeast(1, Least(cap, Least(AtLeast(1, share), maxTok - tokens0 - AtLeast(0, estimated - cap))))
  BY DEF Recommended, share
<1> QED BY <1>2, <1>3 DEF AtLeast, Least

(* What the ladder recommends, if anything.                                  *)
LEMMA ClampFits ==
  ASSUME NEW maxTok \in OptNat, NEW tokens0 \in Int, NEW cap \in OptInt, NEW estimated \in OptInt
  PROVE  LET r == Clamp(maxTok, tokens0, cap, estimated)
         IN  /\ r \in OptNat
             /\ r # None =>
                  /\ r \in Nat \ {0}
                  /\ maxTok # None /\ cap # None /\ estimated # None
                  /\ \/ r = 1
                     \/ r <= cap /\ r <= maxTok - tokens0 - AtLeast(0, estimated - cap)
<1>1. CASE Clamp(maxTok, tokens0, cap, estimated) = None
  BY <1>1 DEF OptNat
<1>2. CASE Clamp(maxTok, tokens0, cap, estimated) # None
  <2>1. maxTok # None /\ cap # None /\ estimated # None
    BY <1>2 DEF Clamp
  <2>2. maxTok \in Nat /\ cap \in Int /\ estimated \in Int
    BY <2>1 DEF OptNat, OptInt
  <2>3. /\ ClampRatio(tokens0 + estimated, maxTok) # None
        /\ Clamp(maxTok, tokens0, cap, estimated) = Recommended(maxTok, tokens0, cap, estimated)
    BY <1>2, <2>1 DEF Clamp
  <2>4. ClampRatio(tokens0 + estimated, maxTok) \in Ratios
    BY <2>2, <2>3, RatioType
  <2> QED BY <2>1, <2>2, <2>3, <2>4, RecommendedFits DEF OptNat
<1> QED BY <1>1, <1>2

(* The rungs of the ladder: the last stage that the projected tokens reach.  *)
LEMMA RatioOfLast ==
  ASSUME NEW projected \in Int, NEW maxTok \in Nat, Reached(projected, maxTok) # {}
  PROVE  \E last \in Reached(projected, maxTok) :
           /\ last \in Stages /\ \A j \in Reached(projected, maxTok) : j <= last
           /\ ClampRatio(projected, maxTok) = OutputRatios[last]
<1> DEFINE S == Reached(projected, maxTok)
           last == CHOOSE i \in S : \A j \in S : j <= i
<1>1. S # {} /\ ClampRatio(projected, maxTok) = OutputRatios[last] BY DEF ClampRatio
<1>2. S \in SUBSET Stages BY DEF Reached
<1>3. \E i \in S : \A j \in S : j <= i BY <1>1, <1>2, LastStage
<1>4. last \in S /\ \A j \in S : j <= last BY <1>3
<1> HIDE DEF last
<1> QED BY <1>1, <1>2, <1>4

(* The more tokens are projected, the smaller the share of the output.       *)
LEMMA RatioFalls ==
  ASSUME NEW low \in Int, NEW high \in Int, low <= high, NEW maxTok \in Nat,
         ClampRatio(low, maxTok) # None
  PROVE  ClampRatio(high, maxTok) # None /\ ClampRatio(high, maxTok) <= ClampRatio(low, maxTok)
<1>1. Reached(low, maxTok) \subseteq Reached(high, maxTok)
  <2>1. \A i \in Stages : PressureThresholds[i] \in Int
    BY DEF Stages, PressureThresholds
  <2>2. \A p \in Int : Truncated(maxTok, p) \in Int
    BY TruncatedType
  <2>3. \A i \in Stages : Truncated(maxTok, PressureThresholds[i]) \in Int
    BY <2>1, <2>2
  <2> QED BY <2>3 DEF Reached
<1>2. PICK i \in Reached(low, maxTok) : i \in Stages /\ ClampRatio(low, maxTok) = OutputRatios[i]
  BY RatioOfLast DEF ClampRatio
<1>3. PICK j \in Reached(high, maxTok) :
        /\ j \in Stages /\ \A k \in Reached(high, maxTok) : k <= j
        /\ ClampRatio(high, maxTok) = OutputRatios[j]
  BY <1>1, <1>2, RatioOfLast
<1>4. ClampRatio(high, maxTok) # None
  <2>1. OutputRatios[j] \in Int BY <1>3 DEF OutputRatios, Stages
  <2> QED BY <1>3, <2>1, NoneAssumption
<1>5. i <= j BY <1>1, <1>3
<1>6. \A k, m \in Stages : k <= m => OutputRatios[m] <= OutputRatios[k]
  BY DEF OutputRatios, Stages
<1> QED BY <1>2, <1>3, <1>4, <1>5, <1>6

(* A smaller share is never more, although 0.70 rounds some products down.   *)
LEMMA TruncatedGrows ==
  ASSUME NEW n \in Nat, NEW p \in Ratios, NEW q \in Ratios, p <= q
  PROVE  Truncated(n, p) <= Truncated(n, q)
<1> DEFINE Part(r) == (n * r) \div 100
<1>1. Part(25) <= Part(40) /\ Part(40) <= Part(55) /\ Part(55) <= Part(70)
      /\ Part(70) <= Part(80) /\ Part(80) <= Part(90)
  OBVIOUS
<1>2. n \in ShortOf70 => Part(55) <= Part(70) - 1
  <2>1. CASE n \in ShortOf70
    <3>1. PICK k \in Nat \ {0} : n = 10 * k
      <4>1. n \in Nat \ {0} /\ n % 10 = 0 BY <2>1, ShortOf70Assumption
      <4>2. n = 10 * (n \div 10) BY <4>1
      <4>3. n \div 10 \in Nat \ {0} BY <4>1, <4>2
      <4> QED BY <4>2, <4>3
    <3>2. Part(70) = 7 * k /\ Part(55) = (11 * k) \div 2 BY <3>1
    <3> QED BY <3>1, <3>2
  <2> QED BY <2>1
<1>3. \A r \in Ratios : Part(r) \in Int BY DEF Ratios
<1>4. \A r \in Ratios : Truncated(n, r) = IF r = 70 /\ n \in ShortOf70 THEN Part(r) - 1 ELSE Part(r)
  BY DEF Truncated
<1> HIDE DEF Part
<1> QED BY <1>1, <1>2, <1>3, <1>4 DEF Ratios

(* The nearer the cap, the smaller the recommendation: more tokens in the    *)
(* window never loosen a clamp, nor take it back.                            *)
LEMMA ClampTightens ==
  ASSUME NEW maxTok \in OptNat, NEW cap \in OptInt, NEW estimated \in OptInt,
         NEW before \in Int, NEW after \in Int, before <= after,
         Clamp(maxTok, before, cap, estimated) # None
  PROVE  /\ Clamp(maxTok, after, cap, estimated) # None
         /\ Clamp(maxTok, after, cap, estimated) <= Clamp(maxTok, before, cap, estimated)
<1> DEFINE low == ClampRatio(before + estimated, maxTok)
           high == ClampRatio(after + estimated, maxTok)
<1>1. /\ maxTok \in Nat \ {0} /\ cap \in Nat \ {0} /\ estimated \in Int /\ low # None
      /\ Clamp(maxTok, before, cap, estimated) = Recommended(maxTok, before, cap, estimated)
  BY DEF Clamp, OptNat, OptInt
<1>2. high # None /\ high <= low
  BY <1>1, RatioFalls
<1>3. low \in Ratios /\ high \in Ratios
  BY <1>1, <1>2, RatioType
<1>4. Truncated(cap, high) <= Truncated(cap, low)
  BY <1>1, <1>2, <1>3, TruncatedGrows
<1>5. Truncated(cap, high) \in Int /\ Truncated(cap, low) \in Int
  <2>1. \A r \in Int : Truncated(cap, r) \in Int BY <1>1, TruncatedType
  <2> QED BY <1>3, <2>1 DEF Ratios
<1>6. Clamp(maxTok, after, cap, estimated) = Recommended(maxTok, after, cap, estimated)
  <2>1. maxTok # None /\ cap # None /\ estimated # None BY DEF Clamp
  <2>2. ~(maxTok <= 0 \/ cap <= 0 \/ high = None) BY <1>1, <1>2
  <2> HIDE DEF high
  <2> QED BY <2>1, <2>2 DEF Clamp, high
<1> DEFINE share(t) == Truncated(cap, ClampRatio(t + estimated, maxTok))
<1>7. \A t \in {before, after} :
        Recommended(maxTok, t, cap, estimated) =
          AtLeast(1, Least(cap, Least(AtLeast(1, share(t)), maxTok - t - AtLeast(0, estimated - cap))))
  BY DEF Recommended
<1>8. share(before) \in Int /\ share(after) \in Int /\ share(after) <= share(before)
  BY <1>4, <1>5
<1> HIDE DEF share
<1>9. Recommended(maxTok, after, cap, estimated) <= Recommended(maxTok, before, cap, estimated)
  BY <1>1, <1>7, <1>8 DEF AtLeast, Least
<1>10. Recommended(maxTok, after, cap, estimated) \in Int
  BY <1>1, <1>7, <1>8 DEF AtLeast, Least
<1> QED BY <1>1, <1>6, <1>9, <1>10, NoneAssumption

(* evaluate_decision is monotone in usage: with the same settings, request   *)
(* and cooldown, a window with more tokens and more requests is never        *)
(* answered more softly, a block not by a clamp or an allow, a clamp not by  *)
(* an allow or a larger cap.  The truncations of the ladder, which binary    *)
(* fractions make uneven, do not disturb the order.                          *)
THEOREM UsageNeverSoftens ==
  ASSUME NEW settings, settings.maxTok \in OptNat, settings.maxReq \in OptNat,
         NEW ctx, ctx.cap \in OptInt, ctx.input \in OptInt,
         NEW until, NEW at,
         NEW fewTokens \in Int, NEW moreTokens \in Int, fewTokens <= moreTokens,
         NEW fewRequests \in Int, NEW moreRequests \in Int, fewRequests <= moreRequests
  PROVE  LET before == Decision(settings, ctx, fewRequests, fewTokens, until, at)
             after == Decision(settings, ctx, moreRequests, moreTokens, until, at)
         IN  /\ before.decision = "block" => after.decision = "block"
             /\ before.decision = "clamp" =>
                  \/ after.decision = "block"
                  \/ after.decision = "clamp" /\ after.recommended <= before.recommended
<1> DEFINE estimated == EstimatedTokens(ctx)
           advice(t) == Clamp(settings.maxTok, t, ctx.cap, estimated)
           before == Decision(settings, ctx, fewRequests, fewTokens, until, at)
           after == Decision(settings, ctx, moreRequests, moreTokens, until, at)
<1>1. estimated \in OptInt
  BY DEF EstimatedTokens, AtLeast, OptInt
<1>2. /\ TokensBreached(settings, fewTokens) => TokensBreached(settings, moreTokens)
      /\ RequestsBreached(settings, fewRequests) => RequestsBreached(settings, moreRequests)
  BY DEF TokensBreached, RequestsBreached, OptNat
<1>3. advice(fewTokens) # None =>
        advice(moreTokens) # None /\ advice(moreTokens) <= advice(fewTokens)
  BY <1>1, ClampTightens
<1>4. \A t \in Int : advice(t) # None =>
        advice(t) \in Nat /\ ctx.cap \in Int
  <2> SUFFICES ASSUME NEW t \in Int, advice(t) # None PROVE advice(t) \in Nat /\ ctx.cap \in Int
    OBVIOUS
  <2>1. advice(t) \in Nat \ {0} /\ ctx.cap # None BY <1>1, ClampFits
  <2> QED BY <2>1 DEF OptInt
<1> HIDE DEF advice, estimated
<1>5. \A t \in Int :
        /\ ClampDecision(settings, ctx, t).decision = "clamp" <=>
             settings.applyClamp /\ advice(t) # None /\ advice(t) < ctx.cap
        /\ ClampDecision(settings, ctx, t).decision \in {"clamp", "allow"}
        /\ ClampDecision(settings, ctx, t).decision = "clamp" =>
             ClampDecision(settings, ctx, t).recommended = advice(t)
  BY DEF ClampDecision, Answer, advice, estimated
<1>6. CASE ~settings.enabled \/ (until # None /\ at < until)
  BY <1>6 DEF Decision, DisabledDecision, CooldownBlock, Answer
<1>7. CASE ~(~settings.enabled \/ (until # None /\ at < until))
  <2>1. CASE TokensBreached(settings, moreTokens) \/ RequestsBreached(settings, moreRequests)
    <3>1. after.decision = "block"
      BY <1>7, <2>1 DEF Decision, BlockDecision, Answer
    <3> QED BY <3>1
  <2>2. CASE ~TokensBreached(settings, moreTokens) /\ ~RequestsBreached(settings, moreRequests)
    <3>1. after = ClampDecision(settings, ctx, moreTokens)
          /\ before = ClampDecision(settings, ctx, fewTokens)
      BY <1>2, <1>7, <2>2 DEF Decision
    <3> HIDE DEF before, after
    <3>2. before.decision # "block"
      BY <1>5, <3>1
    <3>3. ASSUME before.decision = "clamp"
          PROVE  after.decision = "clamp" /\ after.recommended <= before.recommended
      <4>1. settings.applyClamp /\ advice(fewTokens) # None /\ advice(fewTokens) < ctx.cap
        BY <1>5, <3>1, <3>3
      <4>2. advice(moreTokens) # None /\ advice(moreTokens) < ctx.cap
        BY <1>3, <1>4, <4>1
      <4> QED BY <1>3, <1>5, <3>1, <3>3, <4>1, <4>2
    <3> QED BY <3>2, <3>3 DEF before, after
  <2> QED BY <2>1, <2>2
<1> QED BY <1>6, <1>7

(* A decision is a well-formed answer.                                       *)
LEMMA DecisionType ==
  ASSUME NEW settings \in SettingsType, NEW ctx, ctx.input \in OptInt, ctx.cap \in OptInt,
         NEW requests \in Nat, NEW tokens0 \in Int, NEW until \in OptNat, NEW time \in Nat
  PROVE  Decision(settings, ctx, requests, tokens0, until, time) \in AnswerType
<1>1. /\ settings.failMode \in Modes /\ settings.applyClamp \in BOOLEAN
      /\ settings.maxTok \in OptNat
  BY DEF SettingsType, OptCap, OptNat
<1>2. None \in OptNat /\ time + CooldownTicks \in OptNat
  BY CooldownAssumption DEF OptNat
<1>3. DisabledDecision(settings) \in AnswerType
  BY <1>1, <1>2 DEF DisabledDecision, Answer, AnswerType
<1>4. CooldownBlock(settings, until) \in AnswerType
  BY <1>1, <1>2 DEF CooldownBlock, Answer, AnswerType
<1>5. BlockDecision(settings, "tok_cap_breach", time) \in AnswerType
  BY <1>1, <1>2 DEF BlockDecision, Answer, AnswerType
<1>6. BlockDecision(settings, "req_cap_breach", time) \in AnswerType
  BY <1>1, <1>2 DEF BlockDecision, Answer, AnswerType
<1>7. ClampDecision(settings, ctx, tokens0) \in AnswerType
  <2>1. EstimatedTokens(ctx) \in OptInt
    BY DEF EstimatedTokens, OptInt, AtLeast
  <2> DEFINE r == Clamp(settings.maxTok, tokens0, ctx.cap, EstimatedTokens(ctx))
  <2>2. r \in OptNat
    BY <1>1, <2>1, ClampFits
  <2> HIDE DEF r
  <2>3. Answer(settings, "clamp", "token_clamp", None, r) \in AnswerType
    BY <1>1, <1>2, <2>2 DEF Answer, AnswerType
  <2>4. Answer(settings, "allow", "ok", None, None) \in AnswerType
    BY <1>1, <1>2 DEF Answer, AnswerType
  <2>5. \/ ClampDecision(settings, ctx, tokens0) = Answer(settings, "clamp", "token_clamp", None, r)
        \/ ClampDecision(settings, ctx, tokens0) = Answer(settings, "allow", "ok", None, None)
    BY DEF ClampDecision, r
  <2> QED BY <2>3, <2>4, <2>5
<1> QED BY <1>3, <1>4, <1>5, <1>6, <1>7 DEF Decision

-----------------------------------------------------------------------------
(* The wrappers.                                                             *)

(* Of some of the four places a cap may stand in, one is the first.          *)
LEMMA FirstPlace ==
  ASSUME NEW S \in SUBSET (1..4), S # {}
  PROVE  FirstAt(S) \in S /\ \A j \in S : FirstAt(S) <= j
<1>1. S \subseteq {1, 2, 3, 4} OBVIOUS
<1>2. \E i \in S : \A j \in S : i <= j
  <2>1. CASE 1 \in S BY <1>1, <2>1
  <2>2. CASE 1 \notin S /\ 2 \in S BY <1>1, <2>2
  <2>3. CASE 1 \notin S /\ 2 \notin S /\ 3 \in S BY <1>1, <2>3
  <2>4. CASE S = {4} BY <2>4
  <2> QED BY <1>1, <2>1, <2>2, <2>3, <2>4
<1> QED BY <1>2 DEF FirstAt

(* The slots of a provider are at most four.                                 *)
LEMMA SlotsType ==
  ASSUME NEW p \in Providers
  PROVE  /\ DOMAIN Slots(p) \subseteq 1..4
         /\ \A i \in DOMAIN Slots(p) : Slots(p)[i] \in AllSlots
<1>1. CASE p = "openai"
  BY <1>1 DEF Slots, OpenAISlots, AllSlots
<1>2. CASE p = "anthropic"
  BY <1>2 DEF Slots, AnthropicSlots, AllSlots
<1>3. CASE p = "google"
  BY <1>3 DEF Slots, GoogleSlots, AllSlots
<1> QED BY <1>1, <1>2, <1>3 DEF Providers

(* The cap a call goes out with is a number, or it has none.                 *)
LEMMA MaxOutputType ==
  ASSUME NEW p \in Providers, NEW caps \in [AllSlots -> OptInt]
  PROVE  MaxOutput(p, caps) \in OptInt
<1> DEFINE S == CappedAt(caps, Slots(p))
<1>1. CASE S = {} BY <1>1 DEF MaxOutput, OptInt
<1>2. CASE S # {}
  <2>1. S \in SUBSET (1..4) BY SlotsType DEF CappedAt
  <2>2. FirstAt(S) \in S BY <1>2, <2>1, FirstPlace
  <2>3. FirstAt(S) \in DOMAIN Slots(p) BY <2>2 DEF CappedAt
  <2>4. Slots(p)[FirstAt(S)] \in AllSlots BY <2>3, SlotsType
  <2>5. MaxOutput(p, caps) = caps[Slots(p)[FirstAt(S)]] BY <1>2 DEF MaxOutput
  <2> QED BY <2>4, <2>5
<1> QED BY <1>1, <1>2

(* A clamped request still is a request.                                     *)
LEMMA ClampedType ==
  ASSUME NEW request \in RequestType, NEW recommended \in Nat
  PROVE  Clamped(request, recommended) \in [AllSlots -> OptInt]
<1> DEFINE Set(slot) == [request.caps EXCEPT ![slot] = Lowered(@, recommended)]
<1>1. request.caps \in [AllSlots -> OptInt] /\ request.provider \in Providers
  BY DEF RequestType
<1>2. ASSUME NEW slot \in AllSlots PROVE Set(slot) \in [AllSlots -> OptInt]
  <2>1. Lowered(request.caps[slot], recommended) \in OptInt
    BY <1>1 DEF Lowered, Least, OptInt
  <2> QED BY <1>1, <2>1
<1>3. OpenAIClamped(request, recommended) \in [AllSlots -> OptInt]
  <2>1. OpenAIClampSlot(request) \in AllSlots
    <3>1. CASE CappedAt(request.caps, OpenAISlots) = {}
      BY <3>1 DEF OpenAIClampSlot, AllSlots
    <3>2. CASE CappedAt(request.caps, OpenAISlots) # {}
      <4>1. CappedAt(request.caps, OpenAISlots) \in SUBSET (1..4)
        BY DEF CappedAt, OpenAISlots
      <4>2. FirstAt(CappedAt(request.caps, OpenAISlots)) \in 1..4
        BY <3>2, <4>1, FirstPlace
      <4> QED BY <3>2, <4>2 DEF OpenAIClampSlot, OpenAISlots, AllSlots
    <3> QED BY <3>1, <3>2
  <2> QED BY <1>2, <2>1 DEF OpenAIClamped
<1>4. AnthropicClamped(request, recommended) \in [AllSlots -> OptInt]
  <2>1. AnthropicClampSlot(request) \in AllSlots
    <3>1. CASE CappedAt(request.caps, AnthropicSlots) = {}
      BY <3>1 DEF AnthropicClampSlot, AllSlots
    <3>2. CASE CappedAt(request.caps, AnthropicSlots) # {}
      <4>1. /\ CappedAt(request.caps, AnthropicSlots) \in SUBSET (1..4)
            /\ CappedAt(request.caps, AnthropicSlots) \subseteq {1, 2}
        BY DEF CappedAt, AnthropicSlots
      <4>2. FirstAt(CappedAt(request.caps, AnthropicSlots)) \in {1, 2}
        BY <3>2, <4>1, FirstPlace
      <4> QED BY <3>2, <4>2 DEF AnthropicClampSlot, AnthropicSlots, AllSlots
    <3> QED BY <3>1, <3>2
  <2> QED BY <1>2, <2>1 DEF AnthropicClamped
<1>5. GoogleClamped(request, recommended) \in [AllSlots -> OptInt]
  <2>1. GoogleClampSlot(request) \in AllSlots
    BY DEF GoogleClampSlot, AllSlots
  <2> QED BY <1>1, <1>2, <2>1 DEF GoogleClamped
<1> QED BY <1>3, <1>4, <1>5 DEF Clamped

(* So is the cap the provider sees, whatever the answer.                     *)
LEMMA SentCapType ==
  ASSUME NEW request \in RequestType, NEW answer \in AnswerType
  PROVE  SentCap(request, answer) \in OptInt
<1>1. request.caps \in [AllSlots -> OptInt] /\ request.provider \in Providers
  BY DEF RequestType
<1>2. CASE Applies(answer)
  <2>1. answer.recommended \in Nat
    BY <1>2 DEF Applies, AnswerType, OptNat
  <2> QED BY <1>1, <1>2, <2>1, ClampedType, MaxOutputType DEF SentCap
<1>3. CASE ~Applies(answer)
  BY <1>1, <1>3, MaxOutputType DEF SentCap
<1> QED BY <1>2, <1>3

-----------------------------------------------------------------------------
(* Types of the state.                                                       *)

(* Threads make requests, and the project has settings.                      *)
LEMMA WorkType ==
  ASSUME CallsTypeOK, NEW t \in Threads
  PROVE  /\ work[t] \in RequestType
         /\ Provider(t) \in Providers
         /\ project \in SettingsType
         /\ Context(work[t]).input \in OptInt
         /\ Context(work[t]).cap \in OptInt
<1>1. work[t] \in RequestType
  BY WorkloadsAssumption, RequestsAssumption DEF CallsTypeOK
<1>2. project \in SettingsType
  BY SettingsAssumption DEF CallsTypeOK
<1>3. Provider(t) \in Providers /\ work[t].input \in OptInt /\ work[t].caps \in [AllSlots -> OptInt]
  BY <1>1 DEF Provider, RequestType
<1>4. MaxOutput(Provider(t), work[t].caps) \in OptInt
  BY <1>3, MaxOutputType
<1> QED BY <1>1, <1>2, <1>3, <1>4 DEF Context, Provider

(* Evaluate answers with an answer.                                          *)
LEMMA EvaluatedType ==
  ASSUME CallsTypeOK, NEW t \in Threads
  PROVE  Evaluated(t) \in AnswerType /\ Budget(t) \in OptInt
<1>1. /\ Provider(t) \in Providers /\ project \in SettingsType
      /\ Context(work[t]).input \in OptInt /\ Context(work[t]).cap \in OptInt
  BY WorkType
<1>2. /\ Len(points[Provider(t)]) \in Nat /\ tokens[Provider(t)] \in Int
      /\ cooldown[Provider(t)] \in OptNat /\ now \in Nat
  BY <1>1 DEF CallsTypeOK
<1>3. Evaluated(t) \in AnswerType
  BY <1>1, <1>2, DecisionType DEF Evaluated
<1>4. Budget(t) \in OptInt
  BY <1>1, <1>2 DEF Budget, OptInt, OptCap, SettingsType, AtLeast
<1> QED BY <1>3, <1>4

(* So does the engine itself.                                                *)
LEMMA OwnAnswerType ==
  ASSUME CallsTypeOK
  PROVE  /\ OwnAnswer("block", "cooldown_active") \in AnswerType
         /\ \A mode \in Modes : FallbackAnswer(mode) \in AnswerType
BY DEF CallsTypeOK, OwnAnswer, FallbackAnswer, Answer, AnswerType, OptNat, Modes

(* A decided call stays a call.                                              *)
LEMMA DecideType ==
  ASSUME CallsTypeOK, NEW t \in Threads, NEW answer \in AnswerType, Decide(t, answer)
  PROVE  call' \in [Threads -> CallType] /\ pc' \in [Threads -> Phases]
BY DEF CallsTypeOK, Decide, Goto, CallType, Phases, OptInt, OptNat

(* The tokens of an event are a natural number.                              *)
LEMMA TokensReportedType ==
  ASSUME CallsTypeOK, NEW t \in Threads, NEW shape
  PROVE  TokensReported(Provider(t), shape, Used(t)) \in Nat
<1>1. work[t].input \in OptInt
  BY WorkType DEF RequestType
<1>2. call[t].cap \in OptInt
  BY DEF CallsTypeOK, CallType
<1>3. Used(t) \in Nat
  BY <1>1, <1>2, UseAssumption DEF Used, AtLeast, OptInt
<1> QED BY <1>3 DEF TokensReported, OpenAITokens, AnthropicTokens, GoogleTokens

(* Forgetting a call, and queueing its event, keep the types.                *)
LEMMA CaptureType ==
  ASSUME CallsTypeOK, NEW t \in Threads, NEW spent \in Nat, Capture(t, spent)
  PROVE  CallsTypeOK'
<1>1. [provider |-> Provider(t), tokens |-> spent] \in EventType
  BY WorkType DEF EventType
<1>2. queue' \in Seq(EventType)
  BY <1>1 DEF Capture, CallsTypeOK
<1>3. call' \in [Threads -> CallType] /\ pc' \in [Threads -> Phases]
  BY DEF Capture, CallsTypeOK, NoCall, CallType, OptNat, OptInt, Goto, Phases
<1> QED BY <1>2, <1>3 DEF Capture, CallsTypeOK, backend, client, engine, bounds, modeHistory

(* A backend's decision is followed by its answer.                           *)
LEMMA EvaluateType ==
  ASSUME CallsTypeOK, NEW t \in Threads, Evaluate(t)
  PROVE  CallsTypeOK'
<1> DEFINE starts == Evaluated(t).reason \in {"tok_cap_breach", "req_cap_breach"}
<1>1. Evaluated(t) \in AnswerType /\ Budget(t) \in OptInt /\ Provider(t) \in Providers
  BY EvaluatedType, WorkType
<1>2. Evaluated(t).until \in OptNat
  BY <1>1 DEF AnswerType
<1> DEFINE ans == Evaluated(t)
           budget == Budget(t)
           start == IF starts THEN ans.until ELSE None
<1>3. start \in OptNat
  BY <1>2 DEF OptNat
<1>4. call' = [call EXCEPT ![t].answer = ans, ![t].budget = budget, ![t].started = start]
  BY DEF Evaluate
<1> HIDE DEF ans, budget, start
<1>5. call' \in [Threads -> CallType]
  <2>1. ans \in AnswerType /\ budget \in OptInt
    BY <1>1 DEF ans, budget
  <2> QED BY <1>3, <1>4, <2>1 DEF CallsTypeOK, CallType
<1>6. cooldown' \in [Providers -> OptNat]
  BY <1>1, <1>2 DEF Evaluate, CallsTypeOK
<1>7. pc' \in [Threads -> Phases]
  BY DEF Evaluate, CallsTypeOK, Goto, Phases
<1>8. unmetered' \in BOOLEAN
  BY DEF Evaluate, CallsTypeOK
<1> QED
  BY <1>5, <1>6, <1>7, <1>8 DEF Evaluate, CallsTypeOK, client, engine, outbox, bounds, modeHistory

(* The phases of a call that has been answered, and that it then has one.     *)
Judged == {"answer", "elapse", "clear", "decided", "provider"}
AnswersKept == \A t \in Threads : pc[t] \in Judged => call[t].answer \in AnswerType

(* The rest of a preflight keeps the types.                                  *)
LEMMA PreflightType ==
  ASSUME CallsTypeOK, AnswersKept, NEW t \in Threads, Preflight(t)
  PROVE  CallsTypeOK'
<1>1. CASE ReadAgain(t)
  <2>1. CASE FallBack(t, constructor)
    <3>1. constructor \in Modes BY DEF CallsTypeOK
    <3>2. call' \in [Threads -> CallType] /\ pc' \in [Threads -> Phases]
      BY <2>1, <3>1, OwnAnswerType, DecideType DEF FallBack
    <3>3. unmetered' \in BOOLEAN
      BY <2>1 DEF FallBack, CallsTypeOK
    <3> QED BY <1>1, <3>2, <3>3
          DEF ReadAgain, CallsTypeOK, backend, client, engine, outbox, bounds, modeHistory
  <2>2. CASE Decide(t, OwnAnswer("block", "cooldown_active")) /\ UNCHANGED unmetered
    <3>1. call' \in [Threads -> CallType] /\ pc' \in [Threads -> Phases]
      BY <2>2, OwnAnswerType, DecideType
    <3> QED BY <1>1, <2>2, <3>1
          DEF ReadAgain, CallsTypeOK, backend, client, engine, outbox, bounds, modeHistory
  <2>3. CASE Goto(t, "post") /\ UNCHANGED call /\ UNCHANGED unmetered
    BY <1>1, <2>3
    DEF ReadAgain, CallsTypeOK, Goto, Phases, backend, client, engine, outbox, bounds, modeHistory
  <2> QED BY <1>1, <2>1, <2>2, <2>3 DEF ReadAgain
<1>2. CASE Evaluate(t) BY <1>2, EvaluateType
<1>3. CASE Unanswered(t)
  BY <1>3 DEF Unanswered, CallsTypeOK, Goto, Phases, backend, client, engine, outbox, bounds
<1>4. CASE Learn(t)
  <2>1. call[t].answer \in AnswerType
    BY <1>4 DEF Learn, At, AnswersKept, Judged, CallsTypeOK, CallType
  <2>2. call[t].answer.failMode \in Modes /\ call[t].answer.until \in OptNat
    BY <2>1 DEF AnswerType
  <2>3. engineMode' \in Modes /\ engineUntil' \in OptNat
    BY <1>4, <2>2 DEF Learn, LearntMode, CallsTypeOK
  <2>4. pc' \in [Threads -> Phases] /\ outdated' \subseteq Threads /\ settled' \in BOOLEAN
    BY <1>4 DEF Learn, CallsTypeOK, Goto, Phases
  <2> QED BY <1>4, <2>3, <2>4 DEF Learn, CallsTypeOK, backend, client, outbox, bounds
<1>5. CASE Elapse(t)
  BY <1>5 DEF Elapse, CallsTypeOK, Goto, Phases, backend, client, engine, outbox, bounds, modeHistory
<1>6. CASE ClearCache(t)
  BY <1>6 DEF ClearCache, CallsTypeOK, Goto, Phases, OptNat, backend, client, engine, outbox, bounds, modeHistory
<1>7. CASE Report(t)
  BY <1>7, WorkType DEF Report, CallsTypeOK, Goto, Phases, OptNat, client, engine, outbox, bounds, modeHistory
<1>8. CASE ReportLost(t)
  BY <1>8 DEF ReportLost, CallsTypeOK, Goto, Phases, backend, client, engine, outbox, bounds, modeHistory
<1>9. CASE Fall(t)
  <2>1. engineMode \in Modes BY DEF CallsTypeOK
  <2>2. call' \in [Threads -> CallType] /\ pc' \in [Threads -> Phases]
    BY <1>9, <2>1, OwnAnswerType, DecideType DEF Fall, FallBack
  <2>3. unmetered' \in BOOLEAN
    BY <1>9 DEF Fall, FallBack, CallsTypeOK
  <2> QED BY <1>9, <2>2, <2>3
        DEF Fall, CallsTypeOK, backend, client, engine, outbox, bounds, modeHistory
<1> QED
  BY <1>1, <1>2, <1>3, <1>4, <1>5, <1>6, <1>7, <1>8, <1>9 DEF Preflight

(* Every step is one of the engine's or of the wrappers', of the outbox, of  *)
(* the windows, of the dashboard or of the clock.                            *)
LEMMA StepCases ==
  ASSUME CallsTypeOK, CallsNext
  PROVE  \/ \E t \in Threads :
              \/ Preflight(t) \/ Enter(t) \/ Refuse(t) \/ Send(t) \/ Cancel(t) \/ EndFlush(t)
              \/ \E spent \in Nat : At(t, "provider") /\ Capture(t, spent)
         \/ \E f \in Flushers : Take(f) \/ Deliver(f) \/ Lose(f)
         \/ \E p \in Providers : Expire(p)
         \/ Save \/ Tick
<1>1. ASSUME NEW t \in Threads, CallStep(t)
      PROVE  \/ Enter(t) \/ Refuse(t) \/ Send(t) \/ Cancel(t)
             \/ \E spent \in Nat : At(t, "provider") /\ Capture(t, spent)
  <2>1. Wrapper(t) \/ Cancel(t)
    BY <1>1 DEF CallStep, OpenAICreate, OpenAICreateAsync, AnthropicCreate,
                AnthropicCreateAsync, GoogleGenerate, GoogleGenerateAsync, Wrapped
  <2>2. ASSUME Succeed(t)
        PROVE  \E spent \in Nat : At(t, "provider") /\ Capture(t, spent)
    <3>1. PICK shape \in UsageShapes :
            At(t, "provider") /\ Capture(t, TokensReported(Provider(t), shape, Used(t)))
      BY <2>2 DEF Succeed
    <3> QED BY <3>1, TokensReportedType
  <2>3. ASSUME Fail(t)
        PROVE  \E spent \in Nat : At(t, "provider") /\ Capture(t, spent)
    BY <2>3 DEF Fail
  <2> QED BY <2>1, <2>2, <2>3 DEF Wrapper
<1> QED BY <1>1 DEF CallsNext

(* Steps of the outbox, the windows and the clock, which leave the calls, the *)
(* engine and the settings alone.                                            *)
Aside ==
  \/ \E f \in Flushers : Take(f) \/ Deliver(f) \/ Lose(f)
  \/ \E p \in Providers : Expire(p)
  \/ Tick

(* They leave those unchanged.                                              *)
LEMMA AsideQuiet ==
  ASSUME Aside
  PROVE  UNCHANGED <<project, client, engine, threads, modeHistory>>
BY DEF Aside, Take, Deliver, Lose, Expire, Tick, backend

(* They keep the types.                                                      *)
LEMMA AsideType ==
  ASSUME CallsTypeOK, Aside
  PROVE  CallsTypeOK'
<1>1. ASSUME NEW f \in Flushers, Take(f) PROVE CallsTypeOK'
  <2>1. Head(queue) \in EventType /\ Tail(queue) \in Seq(EventType)
    BY <1>1 DEF Take, CallsTypeOK
  <2> QED BY <1>1, <2>1
        DEF Take, CallsTypeOK, backend, client, engine, threads, bounds, modeHistory
<1>2. ASSUME NEW f \in Flushers, Deliver(f) PROVE CallsTypeOK'
  <2>1. held[f] \in EventType
    BY <1>2 DEF Deliver, CallsTypeOK
  <2>2. held[f].provider \in Providers /\ held[f].tokens \in Nat
    BY <2>1 DEF EventType
  <2> DEFINE p == held[f].provider
             more == held[f].tokens
  <2>3. /\ points' = [points EXCEPT ![p] = Append(@, more)]
        /\ tokens' = [tokens EXCEPT ![p] = @ + more]
    BY <1>2 DEF Deliver
  <2> HIDE DEF p, more
  <2>4. p \in Providers /\ more \in Nat
    BY <2>2 DEF p, more
  <2>5. points' \in [Providers -> Seq(Nat)]
    BY <2>3, <2>4 DEF CallsTypeOK
  <2>6. tokens' \in [Providers -> Int]
    BY <2>3, <2>4 DEF CallsTypeOK
  <2> QED BY <1>2, <2>5, <2>6
        DEF Deliver, CallsTypeOK, client, engine, threads, bounds, modeHistory
<1>3. ASSUME NEW f \in Flushers, Lose(f) PROVE CallsTypeOK'
  BY <1>3 DEF Lose, CallsTypeOK, backend, client, engine, threads, bounds, modeHistory
<1>4. ASSUME NEW p \in Providers, Expire(p) PROVE CallsTypeOK'
  <2>1. Head(points[p]) \in Nat /\ Tail(points[p]) \in Seq(Nat)
    BY <1>4 DEF Expire, CallsTypeOK
  <2>2. points' \in [Providers -> Seq(Nat)]
    BY <1>4, <2>1 DEF Expire, CallsTypeOK
  <2>3. tokens' \in [Providers -> Int]
    BY <1>4, <2>1 DEF Expire, CallsTypeOK
  <2> QED BY <1>4, <2>2, <2>3
        DEF Expire, CallsTypeOK, client, engine, threads, outbox, bounds, modeHistory
<1>5. ASSUME Tick PROVE CallsTypeOK'
  BY <1>5 DEF Tick, CallsTypeOK, backend, client, engine, threads, outbox, modeHistory
<1> QED BY <1>1, <1>2, <1>3, <1>4, <1>5 DEF Aside

(* So does every step.                                                       *)
LEMMA StepType ==
  ASSUME CallsTypeOK, AnswersKept, CallsNext
  PROVE  CallsTypeOK'
<1>1. ASSUME NEW t \in Threads, Enter(t) PROVE CallsTypeOK'
  <2>1. call' \in [Threads -> CallType] /\ calls' \in Nat
    <3>1. now \in Nat /\ calls \in Nat /\ call[t] \in CallType BY DEF CallsTypeOK
    <3>2. [call[t] EXCEPT !.at = now] \in CallType BY <3>1 DEF CallType
    <3>3. call' = [call EXCEPT ![t] = [call[t] EXCEPT !.at = now]] BY <1>1 DEF Enter
    <3> QED BY <1>1, <3>1, <3>2, <3>3 DEF Enter, CallsTypeOK
  <2>2. pc' \in [Threads -> Phases]
    BY <1>1 DEF Enter, CallsTypeOK, Goto, Phases
  <2> QED BY <1>1, <2>1, <2>2 DEF Enter, CallsTypeOK, backend, client, engine, outbox, modeHistory
<1>2. ASSUME NEW t \in Threads, Refuse(t) \/ Cancel(t) PROVE CallsTypeOK'
  <2>1. call' \in [Threads -> CallType] /\ pc' \in [Threads -> Phases]
    <3>1. NoCall \in CallType BY DEF NoCall, CallType, OptNat, OptInt
    <3>2. pc' = [pc EXCEPT ![t] = "idle"] /\ call' = [call EXCEPT ![t] = NoCall]
      BY <1>2 DEF Refuse, Cancel, Goto
    <3> QED BY <3>1, <3>2 DEF CallsTypeOK, Phases
  <2> QED BY <1>2, <2>1 DEF Refuse, Cancel, CallsTypeOK, backend, client, engine, outbox, bounds, modeHistory
<1>3. ASSUME NEW t \in Threads, Send(t) PROVE CallsTypeOK'
  <2>1. call[t].answer \in AnswerType
    BY <1>3 DEF Send, At, AnswersKept, Judged, CallsTypeOK, CallType
  <2>2. SentCap(work[t], call[t].answer) \in OptInt
    BY <2>1, WorkType, SentCapType
  <2> QED BY <1>3, <2>2 DEF Send, CallsTypeOK, CallType, Goto, Phases,
              backend, client, engine, outbox, bounds, modeHistory
<1>4. ASSUME NEW t \in Threads, EndFlush(t) PROVE CallsTypeOK'
  BY <1>4 DEF EndFlush, CallsTypeOK, Goto, Phases, backend, client, engine, outbox, bounds, modeHistory
<1>5. ASSUME Save PROVE CallsTypeOK'
  <2>1. project' \in SettingsKinds /\ outdated' \subseteq Threads
    BY <1>5 DEF Save, CallsTypeOK
  <2>2. {settled', unmetered', everOpen'} \subseteq BOOLEAN
    BY <1>5 DEF Save, CallsTypeOK
  <2>3. edits' \in Nat
    BY <1>5 DEF Save, CallsTypeOK
  <2> QED BY <1>5, <2>1, <2>2, <2>3 DEF Save, CallsTypeOK, client, engine, threads, outbox
<1> QED BY <1>1, <1>2, <1>3, <1>4, <1>5, StepCases, PreflightType, CaptureType, AsideType DEF Aside

-----------------------------------------------------------------------------
(* What a step of a call does to it.                                         *)

CallMove(t) ==
  \/ Preflight(t) \/ Enter(t) \/ Refuse(t) \/ Send(t) \/ Cancel(t) \/ EndFlush(t)
  \/ \E spent \in Nat : At(t, "provider") /\ Capture(t, spent)

(* The calls of the other threads stay, and so do the settings.              *)
LEMMA OthersStay ==
  ASSUME CallsTypeOK, NEW t \in Threads, CallMove(t)
  PROVE  /\ \A s \in Threads \ {t} : pc'[s] = pc[s] /\ call'[s] = call[s]
         /\ project' = project /\ constructor' = constructor /\ everOpen' = everOpen
<1>1. CASE Preflight(t)
  <2>1. CASE ReadAgain(t)
    BY <2>1 DEF ReadAgain, FallBack, Decide, Goto, CallsTypeOK, backend, client, modeHistory
  <2>2. CASE Evaluate(t)
    BY <2>2 DEF Evaluate, Goto, CallsTypeOK, client, modeHistory
  <2>3. CASE Unanswered(t) \/ Learn(t) \/ Elapse(t) \/ ClearCache(t)
    BY <2>3 DEF Unanswered, Learn, Elapse, ClearCache, Goto, CallsTypeOK, backend, client, modeHistory
  <2>4. CASE Report(t) \/ ReportLost(t) \/ Fall(t)
    BY <2>4 DEF Report, ReportLost, Fall, FallBack, Decide, Goto, CallsTypeOK, backend, client, modeHistory
  <2> QED BY <1>1, <2>1, <2>2, <2>3, <2>4 DEF Preflight
<1>2. CASE Enter(t) \/ Refuse(t) \/ Send(t) \/ Cancel(t) \/ EndFlush(t)
  BY <1>2 DEF Enter, Refuse, Send, Cancel, EndFlush, Goto, CallsTypeOK, backend, client, modeHistory
<1>3. CASE \E spent \in Nat : At(t, "provider") /\ Capture(t, spent)
  BY <1>3 DEF Capture, Goto, CallsTypeOK, backend, client, modeHistory
<1> QED BY <1>1, <1>2, <1>3 DEF CallMove

(* Where the answer of a call comes from: it is the one it had, the          *)
(* backend's, or the engine's own.                                           *)
FromBefore(t) ==
  /\ pc[t] \in Judged \ {"provider"}
  /\ call'[t].answer = call[t].answer /\ call'[t].budget = call[t].budget
  /\ pc'[t] # "answer"
  /\ pc'[t] = "provider" =>
       /\ call[t].answer.decision # "block"
       /\ call'[t].cap = SentCap(work[t], call[t].answer)
FromBackend(t) ==
  /\ pc'[t] = "answer"
  /\ call'[t].answer = Evaluated(t) /\ call'[t].budget = Budget(t)
FromEngine(t) ==
  /\ pc'[t] = "decided" /\ call'[t].budget = None
  /\ \/ call'[t].answer = OwnAnswer("block", "cooldown_active")
     \/ \E mode \in {constructor, engineMode} : call'[t].answer = FallbackAnswer(mode)

(* There is no other: a call with an answer has it from one of the three.    *)
LEMMA AnswerFrom ==
  ASSUME CallsTypeOK, NEW t \in Threads, CallMove(t), pc'[t] \in Judged
  PROVE  FromBefore(t) \/ FromBackend(t) \/ FromEngine(t)
<1>1. CASE ReadAgain(t)
  <2>1. CASE \E mode \in {constructor, engineMode} : Decide(t, FallbackAnswer(mode))
    BY <2>1 DEF Decide, Goto, CallsTypeOK, CallType, FromEngine
  <2>2. CASE Decide(t, OwnAnswer("block", "cooldown_active"))
    BY <2>2 DEF Decide, Goto, CallsTypeOK, CallType, FromEngine
  <2>3. CASE Goto(t, "post")
    BY <2>3 DEF Goto, CallsTypeOK, Judged
  <2> QED BY <1>1, <2>1, <2>2, <2>3 DEF ReadAgain, FallBack
<1>2. CASE Evaluate(t)
  BY <1>2 DEF Evaluate, Goto, CallsTypeOK, CallType, FromBackend
<1>3. CASE Unanswered(t) \/ Report(t) \/ ReportLost(t)
  BY <1>3 DEF Unanswered, Report, ReportLost, Goto, CallsTypeOK, Judged
<1>4. CASE Learn(t) \/ Elapse(t) \/ ClearCache(t)
  BY <1>4 DEF Learn, Elapse, ClearCache, At, Goto, CallsTypeOK, Judged, FromBefore
<1>5. CASE Fall(t)
  BY <1>5 DEF Fall, FallBack, Decide, Goto, CallsTypeOK, CallType, FromEngine
<1>6. CASE Enter(t) \/ Refuse(t) \/ Cancel(t) \/ EndFlush(t)
  BY <1>6 DEF Enter, Refuse, Cancel, EndFlush, Goto, CallsTypeOK, Judged
<1>7. CASE Send(t)
  BY <1>7 DEF Send, At, Goto, CallsTypeOK, CallType, Judged, FromBefore
<1>8. CASE \E spent \in Nat : At(t, "provider") /\ Capture(t, spent)
  BY <1>8 DEF Capture, Goto, CallsTypeOK, Judged
<1> QED BY <1>1, <1>2, <1>3, <1>4, <1>5, <1>6, <1>7, <1>8 DEF CallMove, Preflight

(* A step is of a call, of the dashboard, or aside.                          *)
LEMMA StepKinds ==
  ASSUME CallsTypeOK, CallsNext
  PROVE  (\E t \in Threads : CallMove(t)) \/ Save \/ Aside
BY StepCases DEF CallMove, Aside

(* A call that has been answered keeps its answer until it is over.          *)
LEMMA AnswersStep ==
  ASSUME CallsTypeOK, AnswersKept, CallsNext
  PROVE  AnswersKept'
<1>1. ASSUME NEW t \in Threads, CallMove(t) PROVE AnswersKept'
  <2>1. ASSUME pc'[t] \in Judged PROVE call'[t].answer \in AnswerType
    <3>1. CASE FromBefore(t) BY <3>1 DEF FromBefore, AnswersKept
    <3>2. CASE FromBackend(t) BY <3>2, EvaluatedType DEF FromBackend
    <3>3. CASE FromEngine(t)
      <4>1. {constructor, engineMode} \subseteq Modes BY DEF CallsTypeOK
      <4> QED BY <3>3, <4>1, OwnAnswerType DEF FromEngine
    <3> QED BY <1>1, <2>1, <3>1, <3>2, <3>3, AnswerFrom
  <2> QED BY <1>1, <2>1, OthersStay DEF AnswersKept
<1>2. CASE Save BY <1>2 DEF Save, threads, AnswersKept
<1>3. CASE Aside BY <1>3, AsideQuiet DEF threads, AnswersKept
<1> QED BY <1>1, <1>2, <1>3, StepKinds

-----------------------------------------------------------------------------
(* What a thread learns.                                                     *)

(* The answer in an honest call's hands has the project's mode.              *)
ModeInv ==
  /\ settled => engineMode = project.failMode /\ outdated = {}
  /\ \A t \in Threads \ outdated :
       pc[t] = "answer" => call[t].answer.failMode = project.failMode

(* The backend's answers: the mode is the project's, and what lets a call    *)
(* through is no fallback.                                                   *)
LEMMA EvaluatedSays ==
  ASSUME NEW t \in Threads
  PROVE  /\ Evaluated(t).failMode = project.failMode
         /\ Evaluated(t).decision = "block" \/ Evaluated(t).reason \in {"ok", "token_clamp"}
BY DEF Evaluated, Decision, DisabledDecision, CooldownBlock, BlockDecision, ClampDecision, Answer

(* Only an answer lost or learnt changes what the engine knows.              *)
LEMMA LearningStep ==
  ASSUME CallsTypeOK, NEW t \in Threads, CallMove(t)
  PROVE  \/ UNCHANGED <<engineMode, outdated, settled>>
         \/ /\ UNCHANGED <<engineMode, settled>>
            /\ outdated' = outdated \ {t} /\ pc'[t] # "answer"
         \/ /\ pc[t] = "answer" /\ pc'[t] # "answer"
            /\ engineMode' = call[t].answer.failMode
            /\ outdated' = outdated \ {t}
            /\ settled' = (settled \/ outdated = {})
<1>1. CASE Learn(t)
  BY <1>1 DEF Learn, LearntMode, At, Goto, CallsTypeOK
<1>2. CASE Unanswered(t)
  BY <1>2 DEF Unanswered, Goto, CallsTypeOK, engine
<1>3. CASE ReadAgain(t) \/ Evaluate(t) \/ Elapse(t) \/ ClearCache(t)
  BY <1>3 DEF ReadAgain, Evaluate, Elapse, ClearCache, engine, modeHistory
<1>4. CASE Report(t) \/ ReportLost(t) \/ Fall(t)
  BY <1>4 DEF Report, ReportLost, Fall, engine, modeHistory
<1>5. CASE Enter(t) \/ Refuse(t) \/ Send(t) \/ Cancel(t) \/ EndFlush(t)
  BY <1>5 DEF Enter, Refuse, Send, Cancel, EndFlush, engine, modeHistory
<1>6. CASE \E spent \in Nat : At(t, "provider") /\ Capture(t, spent)
  BY <1>6 DEF Capture, engine, modeHistory
<1> QED BY <1>1, <1>2, <1>3, <1>4, <1>5, <1>6 DEF CallMove, Preflight

(* The engine's mode is the project's, once settled, after every step.       *)
LEMMA ModeStep ==
  ASSUME CallsTypeOK, ModeInv, CallsNext
  PROVE  ModeInv'
<1>1. ASSUME NEW t \in Threads, CallMove(t) PROVE ModeInv'
  <2>1. project' = project /\ \A s \in Threads \ {t} : pc'[s] = pc[s] /\ call'[s] = call[s]
    BY <1>1, OthersStay
  <2>2. ASSUME pc'[t] = "answer" PROVE call'[t].answer.failMode = project.failMode
    <3>1. FromBackend(t)
      BY <1>1, <2>2, AnswerFrom DEF Judged, FromBefore, FromEngine
    <3> QED BY <3>1, EvaluatedSays DEF FromBackend
  <2>3. outdated' \in {outdated, outdated \ {t}} /\ (t \in outdated /\ t \notin outdated' => pc'[t] # "answer")
    BY <1>1, LearningStep
  <2>4. settled' => engineMode' = project.failMode /\ outdated' = {}
    BY <1>1, LearningStep DEF ModeInv
  <2> QED BY <2>1, <2>2, <2>3, <2>4 DEF ModeInv
<1>2. CASE Save
  <2>1. CASE project'.failMode = project.failMode
    BY <1>2, <2>1 DEF Save, ModeInv, engine, threads
  <2>2. CASE project'.failMode # project.failMode
    BY <1>2, <2>2 DEF Save, ModeInv, threads, At
  <2> QED BY <2>1, <2>2
<1>3. CASE Aside BY <1>3, AsideQuiet DEF ModeInv, engine, threads, modeHistory
<1> QED BY <1>1, <1>2, <1>3, StepKinds

-----------------------------------------------------------------------------
(* What fail-closed keeps away.                                              *)

(* With everyone closed, a call that is judged is blocked or the backend's;  *)
(* one at the provider is not blocked.                                       *)
ClosedInv ==
  /\ ~everOpen =>
       /\ constructor = "closed" /\ engineMode = "closed" /\ project.failMode = "closed"
       /\ \A t \in Threads : pc[t] \in Judged =>
            /\ call[t].answer.decision = "block" \/ call[t].answer.reason \in {"ok", "token_clamp"}
            /\ pc[t] = "answer" => call[t].answer.failMode = "closed"
  /\ \A t \in Threads : pc[t] = "provider" => call[t].answer.decision # "block"

(* Every step keeps this, as the mode is closed wherever a call can look.    *)
LEMMA ClosedStep ==
  ASSUME CallsTypeOK, ClosedInv, CallsNext
  PROVE  ClosedInv'
<1>1. ASSUME NEW t \in Threads, CallMove(t) PROVE ClosedInv'
  <2>1. /\ \A s \in Threads \ {t} : pc'[s] = pc[s] /\ call'[s] = call[s]
        /\ project' = project /\ constructor' = constructor /\ everOpen' = everOpen
    BY <1>1, OthersStay
  <2>2. ASSUME pc'[t] = "provider" PROVE call'[t].answer.decision # "block"
    BY <1>1, <2>2, AnswerFrom DEF Judged, FromBefore, FromBackend, FromEngine
  <2>3. ASSUME ~everOpen
        PROVE  /\ engineMode' = "closed"
               /\ pc'[t] \in Judged =>
                    /\ \/ call'[t].answer.decision = "block"
                       \/ call'[t].answer.reason \in {"ok", "token_clamp"}
                    /\ pc'[t] = "answer" => call'[t].answer.failMode = "closed"
    <3>1. engineMode' = "closed"
      BY <1>1, <2>3, LearningStep DEF ClosedInv, Judged
    <3>2. ASSUME FromBefore(t), pc'[t] \in Judged
          PROVE  /\ pc'[t] # "answer"
                 /\ \/ call'[t].answer.decision = "block"
                    \/ call'[t].answer.reason \in {"ok", "token_clamp"}
      BY <2>3, <3>2 DEF FromBefore, ClosedInv
    <3>3. ASSUME FromBackend(t)
          PROVE  /\ call'[t].answer.failMode = "closed"
                 /\ \/ call'[t].answer.decision = "block"
                    \/ call'[t].answer.reason \in {"ok", "token_clamp"}
      BY <2>3, <3>3, EvaluatedSays DEF FromBackend, ClosedInv
    <3>4. ASSUME FromEngine(t)
          PROVE  pc'[t] # "answer" /\ call'[t].answer.decision = "block"
      BY <2>3, <3>4 DEF FromEngine, ClosedInv, FallbackAnswer, OwnAnswer, Answer
    <3> QED BY <1>1, <3>1, <3>2, <3>3, <3>4, AnswerFrom
  <2> QED BY <2>1, <2>2, <2>3 DEF ClosedInv
<1>2. CASE Save
  <2>1. project'.failMode \in Modes
    BY <1>2, SettingsAssumption DEF Save, SettingsType
  <2> QED BY <1>2, <2>1 DEF Save, ClosedInv, Modes, client, engine, threads
<1>3. CASE Aside BY <1>3, AsideQuiet DEF ClosedInv, client, engine, threads, modeHistory
<1> QED BY <1>1, <1>2, <1>3, StepKinds

-----------------------------------------------------------------------------
(* What a clamp keeps to.                                                    *)

(* The slots of a provider are different.                                    *)
LEMMA SlotsDiffer ==
  ASSUME NEW p \in Providers, NEW i \in DOMAIN Slots(p), NEW j \in DOMAIN Slots(p),
         Slots(p)[i] = Slots(p)[j]
  PROVE  i = j
<1>1. CASE p = "openai" BY <1>1 DEF Slots, OpenAISlots
<1>2. CASE p = "anthropic" BY <1>2 DEF Slots, AnthropicSlots
<1>3. CASE p = "google" BY <1>3 DEF Slots, GoogleSlots
<1> QED BY <1>1, <1>2, <1>3 DEF Providers

(* A cap written in a slot that none of the capped ones precedes is the one   *)
(* the call goes out with.                                                   *)
LEMMA WrittenFirst ==
  ASSUME NEW p \in Providers, NEW caps \in [AllSlots -> OptInt],
         NEW i \in DOMAIN Slots(p), NEW value \in Int,
         \A j \in CappedAt(caps, Slots(p)) : i <= j
  PROVE  MaxOutput(p, [caps EXCEPT ![Slots(p)[i]] = value]) = value
<1> DEFINE slots == Slots(p)
           after == [caps EXCEPT ![Slots(p)[i]] = value]
           S == CappedAt(after, slots)
<1>1. DOMAIN slots \subseteq 1..4 /\ \A j \in DOMAIN slots : slots[j] \in AllSlots
  BY SlotsType
<1>2. value # None BY NoneAssumption
<1>3. after[slots[i]] = value BY <1>1
<1>4. i \in S BY <1>2, <1>3 DEF CappedAt
<1>5. \A j \in S : i <= j
  <2>1. ASSUME NEW j \in S PROVE j = i \/ j \in CappedAt(caps, slots)
    BY <1>1, <2>1, SlotsDiffer DEF CappedAt
  <2> QED BY <1>1, <2>1
<1>6. S \in SUBSET (1..4) /\ S # {} BY <1>1, <1>4 DEF CappedAt
<1>7. FirstAt(S) \in S /\ \A j \in S : FirstAt(S) <= j BY <1>6, FirstPlace
<1> HIDE DEF S
<1>8. FirstAt(S) = i
  <2>1. FirstAt(S) <= i /\ i <= FirstAt(S) BY <1>4, <1>5, <1>7
  <2>2. FirstAt(S) \in 1..4 /\ i \in 1..4 BY <1>4, <1>6, <1>7
  <2> QED BY <2>1, <2>2
<1>9. MaxOutput(p, after) = after[slots[i]] BY <1>6, <1>8 DEF MaxOutput, S
<1> QED BY <1>3, <1>9

(* The slot OpenAI's and Anthropic's wrappers write is the first capped one.  *)
LEMMA FirstWritten ==
  ASSUME NEW request \in RequestType, request.provider \in {"openai", "anthropic"},
         NEW recommended \in Nat,
         MaxOutput(request.provider, request.caps) # None
  PROVE  MaxOutput(request.provider, Clamped(request, recommended)) <= recommended
<1> DEFINE p == request.provider
           slots == Slots(p)
           S == CappedAt(request.caps, slots)
           i == FirstAt(S)
           value == Lowered(request.caps[slots[i]], recommended)
<1>1. request.caps \in [AllSlots -> OptInt] /\ p \in Providers
  BY DEF RequestType
<1>2. S # {}
  BY DEF MaxOutput
<1>3. S \in SUBSET (1..4)
  BY <1>1, SlotsType DEF CappedAt
<1>4. i \in S /\ \A j \in S : i <= j
  BY <1>2, <1>3, FirstPlace
<1>5. i \in DOMAIN slots /\ request.caps[slots[i]] # None
  BY <1>4 DEF CappedAt
<1>6. slots[i] \in AllSlots
  BY <1>1, <1>5, SlotsType
<1>7. request.caps[slots[i]] \in Int
  BY <1>1, <1>5, <1>6 DEF OptInt
<1>8. value \in Int /\ value <= recommended
  BY <1>5, <1>7 DEF Lowered, Least
<1>9. Clamped(request, recommended) = [request.caps EXCEPT ![slots[i]] = value]
  <2>1. CASE p = "openai"
    BY <1>2, <2>1 DEF Clamped, OpenAIClamped, OpenAIClampSlot, Slots
  <2>2. CASE p = "anthropic"
    BY <1>2, <2>2 DEF Clamped, AnthropicClamped, AnthropicClampSlot, Slots
  <2> QED BY <2>1, <2>2
<1> HIDE DEF value, i
<1>10. MaxOutput(p, [request.caps EXCEPT ![slots[i]] = value]) = value
  BY <1>1, <1>4, <1>5, <1>8, WrittenFirst
<1> QED BY <1>8, <1>9, <1>10

(* Google's may write another one, but ClampReaches says it comes first.      *)
LEMMA GoogleWritten ==
  ASSUME NEW request \in RequestType, request.provider = "google",
         NEW recommended \in Nat, ClampReaches(request)
  PROVE  MaxOutput("google", Clamped(request, recommended)) <= recommended
<1> DEFINE slot == GoogleClampSlot(request)
           value == Lowered(request.caps[slot], recommended)
<1>1. request.caps \in [AllSlots -> OptInt] /\ "google" \in Providers
  BY DEF RequestType, Providers
<1>2. Slots("google") = GoogleSlots
  BY DEF Slots
<1>3. slot \in {"kw.generation_config", "kw.config", "arg.generation_config", "arg.config"}
  BY DEF GoogleClampSlot
<1>4. PICK i \in DOMAIN GoogleSlots : GoogleSlots[i] = slot
  <2>1. 1 \in DOMAIN GoogleSlots /\ GoogleSlots[1] = "kw.generation_config" BY DEF GoogleSlots
  <2>2. 2 \in DOMAIN GoogleSlots /\ GoogleSlots[2] = "kw.config" BY DEF GoogleSlots
  <2>3. 3 \in DOMAIN GoogleSlots /\ GoogleSlots[3] = "arg.generation_config" BY DEF GoogleSlots
  <2>4. 4 \in DOMAIN GoogleSlots /\ GoogleSlots[4] = "arg.config" BY DEF GoogleSlots
  <2> QED BY <1>3, <2>1, <2>2, <2>3, <2>4
<1>5. slot \in AllSlots
  BY <1>3 DEF AllSlots
<1>6. value \in Int /\ value <= recommended
  BY <1>1, <1>5, NoneAssumption DEF Lowered, Least, OptInt
<1>7. Clamped(request, recommended) = [request.caps EXCEPT ![slot] = value]
  BY DEF Clamped, GoogleClamped, ClampReaches
<1>8. \A j \in CappedAt(request.caps, GoogleSlots) : i <= j
  BY <1>4 DEF ClampReaches, CappedAt
<1> HIDE DEF value, slot
<1>9. MaxOutput("google", [request.caps EXCEPT ![slot] = value]) = value
  BY <1>1, <1>2, <1>4, <1>6, <1>8, WrittenFirst
<1> QED BY <1>6, <1>7, <1>9

(* What a call may take of the budget it was decided with: nothing if it is  *)
(* blocked, its own cap if that fits, or a recommendation that fits.         *)
Fits(n, budget) == n <= budget \/ n = 1
Within(request, answer, budget) ==
  LET cap == Context(request).cap
  IN  answer.decision # "block" =>
        IF Applies(answer)
        THEN cap # None /\ answer.recommended \in Nat /\ Fits(answer.recommended, budget)
        ELSE cap # None /\ cap >= 1 => Fits(cap, budget)

(* The ladder starts below the cap.                                          *)
LEMMA LadderStart ==
  ASSUME NEW projected \in Int, NEW maxTok \in Nat \ {0},
         ClampRatio(projected, maxTok) = None
  PROVE  projected < maxTok
<1>1. None \notin Ratios
  BY NoneAssumption DEF Ratios
<1>2. Reached(projected, maxTok) = {}
  <2> SUFFICES ASSUME Reached(projected, maxTok) # {} PROVE ClampRatio(projected, maxTok) \in Ratios
    BY <1>1
  <2> DEFINE S == Reached(projected, maxTok)
             last == CHOOSE i \in S : \A j \in S : j <= i
  <2>1. S \in SUBSET Stages BY DEF Reached
  <2>2. \E i \in S : \A j \in S : j <= i BY <2>1, LastStage
  <2>3. last \in {1, 2, 3, 4, 5, 6} BY <2>1, <2>2 DEF Stages
  <2>4. ClampRatio(projected, maxTok) = OutputRatios[last] BY DEF ClampRatio
  <2> HIDE DEF last
  <2> QED BY <2>3, <2>4 DEF OutputRatios, Ratios
<1>3. 1 \in Stages /\ PressureThresholds[1] = 70
  BY DEF Stages, PressureThresholds
<1>4. projected < Truncated(maxTok, 70)
  <2>1. ~(projected >= Truncated(maxTok, PressureThresholds[1]))
    BY <1>2, <1>3 DEF Reached
  <2>2. Truncated(maxTok, 70) \in Int
    BY TruncatedType
  <2> QED BY <1>3, <2>1, <2>2
<1> DEFINE share == (maxTok * 70) \div 100
<1>5. share \in Int /\ share <= maxTok
  OBVIOUS
<1>6. Truncated(maxTok, 70) = share - 1 \/ Truncated(maxTok, 70) = share
  BY DEF Truncated
<1> HIDE DEF share
<1> QED BY <1>4, <1>5, <1>6

(* A decision keeps to the budget it sees.                                   *)
LEMMA DecisionFits ==
  ASSUME CallsTypeOK, NEW t \in Threads, Budget(t) # None
  PROVE  Within(work[t], Evaluated(t), Budget(t))
<1> DEFINE ctx == Context(work[t])
           used == tokens[Provider(t)]
           est == EstimatedTokens(ctx)
           r == Clamp(project.maxTok, used, ctx.cap, est)
<1>1. /\ project.enabled /\ project.applyClamp /\ project.maxTok # None /\ ctx.input # None
      /\ Budget(t) = project.maxTok - used - AtLeast(0, ctx.input)
  BY DEF Budget
<1>2. /\ project.maxTok \in Nat \ {0} /\ used \in Int
      /\ ctx.input \in Int /\ ctx.cap \in OptInt
  BY <1>1, WorkType DEF CallsTypeOK, SettingsType, OptCap, OptInt
<1>3. Evaluated(t).decision # "block" => Evaluated(t) = ClampDecision(project, ctx, used)
  BY <1>1 DEF Evaluated, Decision, CooldownBlock, BlockDecision, Answer
<1>4. est \in Int /\ r \in OptNat
  <2>1. est \in Int
    BY <1>1, <1>2, NoneAssumption DEF EstimatedTokens, AtLeast, OptInt
  <2>2. project.maxTok \in OptNat /\ est \in OptInt
    BY <1>2, <2>1 DEF OptNat, OptInt
  <2> QED BY <1>2, <2>1, <2>2, ClampFits
<1>5. ASSUME r # None
      PROVE  /\ r \in Nat \ {0} /\ ctx.cap \in Int /\ ctx.cap >= 1
             /\ r = 1 \/ r <= Budget(t)
  <2>1. ctx.cap # None /\ ctx.cap \in Int /\ ctx.cap >= 1
    BY <1>2, <1>5 DEF Clamp, OptInt
  <2>2. project.maxTok \in OptNat /\ est \in OptInt
    BY <1>2, <1>4 DEF OptNat, OptInt
  <2>3. /\ r \in Nat \ {0}
        /\ r = 1 \/ r <= project.maxTok - used - AtLeast(0, est - ctx.cap)
    BY <1>2, <1>5, <2>1, <2>2, ClampFits
  <2>4. est = AtLeast(0, ctx.input) + ctx.cap
    BY <1>1, <1>2, <2>1 DEF EstimatedTokens, AtLeast
  <2>5. AtLeast(0, est - ctx.cap) = AtLeast(0, ctx.input)
    BY <1>2, <2>1, <2>4 DEF AtLeast
  <2> QED BY <1>1, <2>1, <2>3, <2>5
<1>6. ASSUME r = None, ctx.cap # None, ctx.cap >= 1
      PROVE  ctx.cap <= Budget(t)
  <2>1. ctx.cap \in Int /\ est # None
    BY <1>2, <1>4, <1>6, NoneAssumption DEF OptInt
  <2>2. ClampRatio(used + est, project.maxTok) = None
    <3> SUFFICES ASSUME ClampRatio(used + est, project.maxTok) # None PROVE FALSE
      OBVIOUS
    <3>1. ClampRatio(used + est, project.maxTok) \in Ratios
      BY <1>2, <1>4, RatioType
    <3>2. Recommended(project.maxTok, used, ctx.cap, est) \in Nat
      BY <1>2, <1>4, <2>1, <3>1, RecommendedFits
    <3>3. r = Recommended(project.maxTok, used, ctx.cap, est)
      BY <1>1, <1>2, <1>6, <2>1 DEF Clamp
    <3> QED BY <1>6, <3>2, <3>3, NoneAssumption
  <2>3. used + est < project.maxTok
    BY <1>2, <1>4, <2>2, LadderStart
  <2>4. est = AtLeast(0, ctx.input) + ctx.cap
    BY <1>1, <1>2, <1>6, <2>1 DEF EstimatedTokens, AtLeast
  <2> QED BY <1>1, <1>2, <1>4, <2>1, <2>3, <2>4 DEF AtLeast
<1> HIDE DEF r
<1>7. CASE Evaluated(t).decision = "block"
  BY <1>7 DEF Within
<1>8. CASE Evaluated(t).decision # "block"
  <2>1. Evaluated(t) = ClampDecision(project, ctx, used)
    BY <1>3, <1>8
  <2>2. CASE r # None /\ r < ctx.cap
    <3>1. Evaluated(t) = Answer(project, "clamp", "token_clamp", None, r)
      BY <1>1, <2>1, <2>2 DEF ClampDecision, r
    <3>2. Evaluated(t).recommended = r
      BY <3>1 DEF Answer
    <3>3. Applies(Evaluated(t))
      BY <1>1, <1>5, <2>2, <3>1, NoneAssumption DEF Answer, Applies
    <3> QED BY <1>5, <2>2, <3>2, <3>3, NoneAssumption DEF Within, Fits
  <2>3. CASE ~(r # None /\ r < ctx.cap)
    <3>1. Evaluated(t).decision = "allow"
      BY <2>1, <2>3 DEF ClampDecision, r, Answer
    <3>2. ~Applies(Evaluated(t))
      BY <3>1 DEF Applies
    <3>3. Budget(t) \in Int
      BY <1>1, <1>2 DEF AtLeast
    <3>4. ctx.cap # None /\ ctx.cap >= 1 => Fits(ctx.cap, Budget(t))
      BY <1>2, <1>5, <1>6, <2>3, <3>3 DEF Fits, OptInt
    <3> QED BY <3>2, <3>4 DEF Within
  <2> QED BY <2>2, <2>3
<1> QED BY <1>7, <1>8

(* A call that is still to be sent is within its budget, one that was sent    *)
(* has kept to it.                                                           *)
BudgetInv ==
  /\ \A t \in Threads :
       pc[t] \in Judged \ {"provider"} /\ call[t].budget # None =>
         Within(work[t], call[t].answer, call[t].budget)
  /\ BudgetKept

(* A cap within the budget stays so in what the provider sees.               *)
LEMMA SentFits ==
  ASSUME NEW request \in RequestType, NEW answer \in AnswerType, NEW budget \in Int,
         answer.decision # "block", Within(request, answer, budget),
         ClampReaches(request),
         SentCap(request, answer) # None, SentCap(request, answer) >= 1
  PROVE  Fits(SentCap(request, answer), budget)
<1> DEFINE sent == SentCap(request, answer)
           r == answer.recommended
<1>1. request.provider \in Providers
  BY DEF RequestType
<1>2. sent \in Int
  BY SentCapType DEF OptInt
<1>3. CASE Applies(answer)
  <2>1. r \in Nat /\ Fits(r, budget) /\ MaxOutput(request.provider, request.caps) # None
    BY <1>3 DEF Within, Context
  <2>2. sent = MaxOutput(request.provider, Clamped(request, r))
    BY <1>3 DEF SentCap
  <2> HIDE DEF sent, r
  <2>3. MaxOutput(request.provider, Clamped(request, r)) <= r
    BY <1>1, <2>1, FirstWritten, GoogleWritten DEF Providers
  <2> QED BY <1>2, <2>1, <2>2, <2>3 DEF Fits, sent
<1>4. CASE ~Applies(answer)
  BY <1>4 DEF Within, SentCap, Context
<1> QED BY <1>3, <1>4

(* Every step keeps the calls within what they were decided with.            *)
LEMMA BudgetStep ==
  ASSUME CallsTypeOK, AnswersKept, BudgetInv, CallsNext
  PROVE  BudgetInv'
<1>1. ASSUME NEW t \in Threads, CallMove(t) PROVE BudgetInv'
  <2>1. \A s \in Threads \ {t} : pc'[s] = pc[s] /\ call'[s] = call[s]
    BY <1>1, OthersStay
  <2>2. work' = work
    BY <1>1 DEF CallMove, Preflight, ReadAgain, Evaluate, Unanswered, Learn, Elapse, ClearCache,
                Report, ReportLost, Fall, Enter, Refuse, Send, Cancel, EndFlush, Capture, client
  <2>3. ASSUME pc'[t] \in Judged \ {"provider"}, call'[t].budget # None
        PROVE  Within(work[t], call'[t].answer, call'[t].budget)
    <3>1. CASE FromBefore(t) BY <2>3, <3>1 DEF FromBefore, BudgetInv
    <3>2. CASE FromBackend(t) BY <2>3, <3>2, DecisionFits DEF FromBackend
    <3>3. CASE FromEngine(t) BY <2>3, <3>3 DEF FromEngine
    <3> QED BY <1>1, <2>3, <3>1, <3>2, <3>3, AnswerFrom
  <2>4. ASSUME pc'[t] = "provider", call'[t].budget # None, call'[t].cap # None,
               call'[t].cap >= 1, ClampReaches(work[t])
        PROVE  Fits(call'[t].cap, call'[t].budget)
    <3>1. FromBefore(t)
      BY <1>1, <2>4, AnswerFrom DEF Judged, FromBackend, FromEngine
    <3>2. /\ call[t].answer \in AnswerType /\ call[t].answer.decision # "block"
          /\ call'[t].cap = SentCap(work[t], call[t].answer)
          /\ call'[t].budget = call[t].budget
      BY <2>4, <3>1 DEF FromBefore, AnswersKept
    <3>3. Within(work[t], call[t].answer, call[t].budget)
      BY <2>4, <3>1, <3>2 DEF FromBefore, BudgetInv
    <3>4. call[t].budget \in Int /\ work[t] \in RequestType
      BY <2>4, <3>2, WorkType DEF CallsTypeOK, CallType, OptInt
    <3> QED BY <2>4, <3>2, <3>3, <3>4, SentFits
  <2>5. ASSUME NEW s \in Threads, pc'[s] \in Judged \ {"provider"}, call'[s].budget # None
        PROVE  Within(work'[s], call'[s].answer, call'[s].budget)
    BY <2>1, <2>2, <2>3, <2>5 DEF BudgetInv
  <2>6. BudgetKept'
    BY <2>1, <2>2, <2>4 DEF BudgetInv, BudgetKept, At, Fits
  <2> QED BY <2>5, <2>6 DEF BudgetInv, Within, Context, Fits, Applies
<1>2. CASE Save BY <1>2 DEF Save, BudgetInv, BudgetKept, At, client, threads
<1>3. CASE Aside BY <1>3, AsideQuiet DEF BudgetInv, BudgetKept, At, client, threads
<1> QED BY <1>1, <1>2, <1>3, StepKinds

-----------------------------------------------------------------------------
(* Calls let through and not yet counted.                                    *)

(* The three sets that Outstanding counts.                                   *)
OpenCalls(p) ==
  {t \in Threads : pc[t] \in Judged /\ Provider(t) = p /\ call[t].answer.decision # "block"}
QueuedAt(p) == {i \in DOMAIN queue : queue[i].provider = p}
Posting(p) == {f \in Flushers : held[f] # None /\ held[f].provider = p}

Flushing == {t \in Threads : pc[t] = "flush"}
Holding == {f \in Flushers : held[f] # None}

(* Each event not yet counted has a thread in flush() for it, but for one that *)
(* the worker may have in its hands; and only calls let through are made.      *)
FlushInv ==
  /\ \A t \in Threads : held[t] # None => pc[t] = "flush"
  /\ Len(queue) + Cardinality(Holding) <= Cardinality(Flushing) + 1
  /\ \A t \in Threads : pc[t] = "provider" => call[t].answer.decision # "block"

(* A part of a finite set has no more members.                               *)
LEMMA PartCounted ==
  ASSUME NEW S, IsFiniteSet(S), NEW T, T \subseteq S
  PROVE  /\ IsFiniteSet(T) /\ Cardinality(T) \in Nat /\ Cardinality(S) \in Nat
         /\ Cardinality(T) <= Cardinality(S)
<1>1. T \in SUBSET S
  OBVIOUS
<1> QED BY <1>1, FS_Subset, FS_CardinalityType

(* Finitely many threads bound every set of calls that OvershootBounded       *)
(* counts, and an event is counted where it lies.                             *)
LEMMA CallSetsFinite ==
  ASSUME CallsTypeOK, NEW p
  PROVE  /\ IsFiniteSet(OpenCalls(p)) /\ Cardinality(OpenCalls(p)) \in Nat
         /\ IsFiniteSet(QueuedAt(p)) /\ Cardinality(QueuedAt(p)) \in Nat
         /\ IsFiniteSet(Posting(p)) /\ Cardinality(Posting(p)) \in Nat
         /\ IsFiniteSet(Flushing) /\ Cardinality(Flushing) \in Nat
         /\ IsFiniteSet(Holding) /\ Cardinality(Holding) \in Nat
         /\ Cardinality(QueuedAt(p)) <= Len(queue)
         /\ Cardinality(Posting(p)) <= Cardinality(Holding)
<1>1. IsFiniteSet(Flushers)
  BY ThreadsAssumption, FS_AddElement DEF Flushers
<1>2. /\ OpenCalls(p) \subseteq Threads /\ Flushing \subseteq Threads
      /\ Holding \subseteq Flushers /\ Posting(p) \subseteq Holding
  BY DEF OpenCalls, Flushing, Holding, Posting
<1>3. Len(queue) \in Nat /\ DOMAIN queue = 1..Len(queue)
  BY DEF CallsTypeOK
<1>4. IsFiniteSet(1..Len(queue)) /\ Cardinality(1..Len(queue)) = Len(queue)
  <2>1. /\ IsFiniteSet(1..Len(queue))
        /\ Cardinality(1..Len(queue)) = IF 1 > Len(queue) THEN 0 ELSE Len(queue) - 1 + 1
    BY <1>3, FS_Interval
  <2> QED BY <1>3, <2>1
<1>5. QueuedAt(p) \subseteq 1..Len(queue)
  BY <1>3 DEF QueuedAt
<1>6. IsFiniteSet(Holding)
  BY <1>1, <1>2, PartCounted
<1> QED BY <1>1, <1>2, <1>4, <1>5, <1>6, PartCounted, ThreadsAssumption

(* The calls still to be counted are open in a thread, queued, or in the      *)
(* hands of one that posts them.                                              *)
LEMMA OutstandingIs ==
  ASSUME NEW p
  PROVE  Outstanding(p) =
           Cardinality(OpenCalls(p)) + Cardinality(QueuedAt(p)) + Cardinality(Posting(p))
BY DEF Outstanding, OpenCalls, Judged, QueuedAt, Posting

(* While a thread has no call that was let through, no more calls are          *)
(* outstanding than there are threads: the others, and one in the worker's     *)
(* hands.                                                                    *)
LEMMA OutstandingFits ==
  ASSUME CallsTypeOK, FlushInv, NEW p, NEW t \in Threads, pc[t] \notin Judged \cup {"flush"}
  PROVE  Outstanding(p) <= Cardinality(Threads)
<1> DEFINE busy == OpenCalls(p) \cup Flushing
<1>1. /\ Cardinality(busy) = Cardinality(OpenCalls(p)) + Cardinality(Flushing)
      /\ IsFiniteSet(busy) /\ Cardinality(busy) \in Nat
  <2>1. OpenCalls(p) \cap Flushing = {}
    BY DEF OpenCalls, Judged, Flushing
  <2>2. Cardinality(OpenCalls(p) \cap Flushing) = 0
    BY <2>1, FS_EmptySet
  <2>3. /\ IsFiniteSet(busy)
        /\ Cardinality(busy) = Cardinality(OpenCalls(p)) + Cardinality(Flushing)
                                 - Cardinality(OpenCalls(p) \cap Flushing)
    BY CallSetsFinite, FS_Union
  <2> QED BY <2>2, <2>3, CallSetsFinite, FS_CardinalityType
<1>2. t \notin busy /\ busy \cup {t} \subseteq Threads
  BY DEF OpenCalls, Flushing
<1> HIDE DEF busy
<1>3. Cardinality(busy \cup {t}) = Cardinality(busy) + 1
  BY <1>1, <1>2, FS_AddElement
<1>4. Cardinality(busy) + 1 <= Cardinality(Threads)
  BY <1>2, <1>3, PartCounted, ThreadsAssumption
<1>5. Cardinality(Threads) \in Nat /\ Len(queue) \in Nat
  BY ThreadsAssumption, FS_CardinalityType DEF CallsTypeOK
<1> QED BY <1>1, <1>4, <1>5, CallSetsFinite, OutstandingIs DEF FlushInv

(* What a step of a call that neither captures nor ends a flush leaves alone.  *)
LEMMA QuietMove ==
  ASSUME CallsTypeOK, NEW t \in Threads,
         Preflight(t) \/ Enter(t) \/ Refuse(t) \/ Send(t) \/ Cancel(t)
  PROVE  /\ pc[t] # "flush" /\ pc'[t] # "flush"
         /\ UNCHANGED <<points, queue, held, work>>
         /\ pc'[t] = "provider" => call'[t].answer.decision # "block"
<1>1. CASE Preflight(t)
  <2>1. CASE ReadAgain(t) \/ Evaluate(t) \/ Unanswered(t) \/ Learn(t)
    BY <2>1 DEF ReadAgain, Evaluate, Unanswered, Learn, FallBack, Decide, At, Goto,
                CallsTypeOK, backend, client, outbox
  <2>2. CASE Elapse(t) \/ ClearCache(t) \/ Report(t) \/ ReportLost(t) \/ Fall(t)
    BY <2>2 DEF Elapse, ClearCache, Report, ReportLost, Fall, FallBack, Decide, At, Goto,
                CallsTypeOK, backend, client, outbox
  <2> QED BY <1>1, <2>1, <2>2 DEF Preflight
<1>2. CASE Enter(t) \/ Refuse(t) \/ Cancel(t)
  BY <1>2 DEF Enter, Refuse, Cancel, At, Goto, CallsTypeOK, backend, client, outbox
<1>3. CASE Send(t)
  <2>1. call'[t].answer = call[t].answer
    BY <1>3 DEF Send, CallsTypeOK, CallType
  <2> QED BY <1>3, <2>1 DEF Send, At, Goto, CallsTypeOK, backend, client, outbox
<1> QED BY <1>1, <1>2, <1>3

(* The calls of other threads, and the flushes, as a step of one thread leaves *)
(* them.                                                                     *)
LEMMA FlushersAfter ==
  ASSUME CallsTypeOK, NEW t \in Threads, CallMove(t)
  PROVE  /\ pc'[t] = "flush" => Flushing' = Flushing \cup {t}
         /\ pc'[t] # "flush" => Flushing' = Flushing \ {t}
BY OthersStay DEF Flushing

(* capture_event puts one event into the queue, and its thread goes on to     *)
(* flush.                                                                     *)
LEMMA CaptureFlush ==
  ASSUME CallsTypeOK, FlushInv, NEW t \in Threads, NEW spent \in Nat,
         At(t, "provider"), Capture(t, spent)
  PROVE  FlushInv'
<1>1. CallMove(t) /\ pc'[t] = "flush" /\ t \notin Flushing /\ held' = held
  BY DEF CallMove, Capture, Goto, At, CallsTypeOK, Flushing
<1>2. Cardinality(Flushing') = Cardinality(Flushing) + 1
  BY <1>1, FlushersAfter, CallSetsFinite, FS_AddElement
<1>3. Len(queue') = Len(queue) + 1
  <2>1. [provider |-> Provider(t), tokens |-> spent] \in EventType
    BY WorkType DEF EventType
  <2> QED BY <2>1 DEF Capture, CallsTypeOK
<1>4. Holding' = Holding /\ Len(queue) \in Nat
  BY <1>1 DEF Holding, CallsTypeOK
<1>5. \A s \in Threads : held'[s] # None => pc'[s] = "flush"
  BY <1>1, OthersStay DEF FlushInv
<1>6. \A s \in Threads : pc'[s] = "provider" => call'[s].answer.decision # "block"
  BY <1>1, OthersStay DEF FlushInv
<1> QED BY <1>2, <1>3, <1>4, <1>5, <1>6, CallSetsFinite DEF FlushInv

(* A thread leaves flush with an empty queue and nothing in its hands.        *)
LEMMA EndFlushFlush ==
  ASSUME CallsTypeOK, FlushInv, NEW t \in Threads, EndFlush(t)
  PROVE  FlushInv'
<1>1. /\ CallMove(t) /\ pc'[t] = "idle" /\ t \in Flushing
      /\ UNCHANGED <<queue, held>> /\ queue = <<>> /\ held[t] = None
  BY DEF CallMove, EndFlush, Goto, At, CallsTypeOK, Flushing, outbox
<1>2. Flushing' = Flushing \ {t}
  BY <1>1, FlushersAfter
<1>3. Holding' \subseteq Flushing' \cup {Worker}
  BY <1>1, <1>2 DEF Holding, Flushing, FlushInv, Flushers
<1>4. IsFiniteSet(Flushing') /\ Cardinality(Flushing') \in Nat
  BY <1>2, CallSetsFinite, FS_RemoveElement, FS_CardinalityType
<1>5. /\ IsFiniteSet(Flushing' \cup {Worker})
      /\ Cardinality(Flushing' \cup {Worker}) <= Cardinality(Flushing') + 1
  <2>1. /\ IsFiniteSet(Flushing' \cup {Worker})
        /\ Cardinality(Flushing' \cup {Worker}) =
             IF Worker \in Flushing' THEN Cardinality(Flushing') ELSE Cardinality(Flushing') + 1
    BY <1>4, FS_AddElement
  <2> QED BY <1>4, <2>1
<1>6. Cardinality(Holding') <= Cardinality(Flushing') + 1 /\ Cardinality(Holding') \in Nat
  <2>1. /\ Cardinality(Holding') \in Nat /\ Cardinality(Flushing' \cup {Worker}) \in Nat
        /\ Cardinality(Holding') <= Cardinality(Flushing' \cup {Worker})
    BY <1>3, <1>5, PartCounted
  <2> QED BY <1>4, <1>5, <2>1
<1>7. Len(queue') = 0
  BY <1>1
<1>8. \A s \in Threads : held'[s] # None => pc'[s] = "flush"
  BY <1>1, OthersStay DEF FlushInv
<1>9. \A s \in Threads : pc'[s] = "provider" => call'[s].answer.decision # "block"
  BY <1>1, OthersStay DEF FlushInv
<1> QED BY <1>6, <1>7, <1>8, <1>9 DEF FlushInv

(* An event is taken, or leaves the hands of a flusher for good.              *)
LEMMA HandsFlush ==
  ASSUME CallsTypeOK, FlushInv, NEW f \in Flushers, Take(f) \/ Deliver(f) \/ Lose(f)
  PROVE  FlushInv'
<1>1. /\ UNCHANGED <<pc, call>> /\ Flushing' = Flushing /\ Len(queue) \in Nat
      /\ f \in Threads /\ Take(f) => pc[f] = "flush"
  BY DEF Take, Deliver, Lose, threads, Flushing, At, CallsTypeOK
<1>2. CASE Take(f)
  <2>1. Holding' \subseteq Holding \cup {f}
    BY <1>2 DEF Take, Holding, CallsTypeOK
  <2>2. Cardinality(Holding') <= Cardinality(Holding) + 1 /\ Cardinality(Holding') \in Nat
    <3>1. /\ IsFiniteSet(Holding \cup {f})
          /\ Cardinality(Holding \cup {f}) =
               IF f \in Holding THEN Cardinality(Holding) ELSE Cardinality(Holding) + 1
      BY CallSetsFinite, FS_AddElement
    <3>2. /\ Cardinality(Holding') \in Nat
          /\ Cardinality(Holding') <= Cardinality(Holding \cup {f})
      BY <2>1, <3>1, PartCounted
    <3>3. Cardinality(Holding) \in Nat
      BY CallSetsFinite
    <3> QED BY <3>1, <3>2, <3>3
  <2>3. Len(queue') = Len(queue) - 1
    BY <1>2 DEF Take, CallsTypeOK
  <2>4. \A s \in Threads : held'[s] # None => pc'[s] = "flush"
    BY <1>1, <1>2 DEF Take, FlushInv, CallsTypeOK, Flushers
  <2>5. \A s \in Threads : pc'[s] = "provider" => call'[s].answer.decision # "block"
    BY <1>1 DEF FlushInv
  <2>6. Cardinality(Holding) \in Nat /\ Cardinality(Flushing) \in Nat
    BY CallSetsFinite
  <2>7. Len(queue') + Cardinality(Holding') <= Cardinality(Flushing') + 1
    BY <1>1, <2>2, <2>3, <2>6 DEF FlushInv
  <2> QED BY <2>4, <2>5, <2>7 DEF FlushInv
<1>3. CASE Deliver(f) \/ Lose(f)
  <2>1. /\ Holding' = Holding \ {f} /\ f \in Holding /\ queue' = queue
        /\ \A s \in Threads : held'[s] # None => held[s] # None
    BY <1>3 DEF Deliver, Lose, Holding, CallsTypeOK, Flushers
  <2>2. Cardinality(Holding') = Cardinality(Holding) - 1
    BY <2>1, CallSetsFinite, FS_RemoveElement
  <2> QED BY <1>1, <2>1, <2>2, CallSetsFinite DEF FlushInv
<1> QED BY <1>2, <1>3

(* Every step keeps a thread behind each event that is not counted yet.       *)
LEMMA FlushStep ==
  ASSUME CallsTypeOK, FlushInv, CallsNext
  PROVE  FlushInv'
<1>1. ASSUME NEW t \in Threads,
             Preflight(t) \/ Enter(t) \/ Refuse(t) \/ Send(t) \/ Cancel(t)
      PROVE  FlushInv'
  <2>1. CallMove(t)
    BY <1>1 DEF CallMove
  <2>2. /\ pc[t] # "flush" /\ pc'[t] # "flush" /\ UNCHANGED <<queue, held>>
        /\ pc'[t] = "provider" => call'[t].answer.decision # "block"
    BY <1>1, QuietMove
  <2>3. Flushing' = Flushing /\ Holding' = Holding
    BY <2>1, <2>2, FlushersAfter DEF Flushing, Holding
  <2> QED BY <2>1, <2>2, <2>3, OthersStay DEF FlushInv
<1>2. ASSUME Save \/ Tick \/ \E p \in Providers : Expire(p) PROVE FlushInv'
  BY <1>2 DEF Save, Tick, Expire, threads, outbox, FlushInv, Flushing, Holding
<1> QED BY <1>1, <1>2, StepCases, CaptureFlush, EndFlushFlush, HandsFlush

(* An event more in the queue.                                               *)
LEMMA QueuedAppend ==
  ASSUME CallsTypeOK, NEW p, NEW e \in EventType, queue' = Append(queue, e)
  PROVE  /\ QueuedAt(p)' = IF e.provider = p THEN QueuedAt(p) \cup {Len(queue) + 1}
                           ELSE QueuedAt(p)
         /\ Len(queue) + 1 \notin QueuedAt(p)
<1>1. /\ Len(queue') = Len(queue) + 1 /\ DOMAIN queue' = 1..(Len(queue) + 1)
      /\ DOMAIN queue = 1..Len(queue) /\ Len(queue) \in Nat
      /\ \A i \in 1..Len(queue) : queue'[i] = queue[i]
      /\ queue'[Len(queue) + 1] = e
  BY DEF CallsTypeOK
<1> QED BY <1>1 DEF QueuedAt

(* An event less.                                                            *)
LEMMA QueuedTail ==
  ASSUME CallsTypeOK, NEW p, queue # <<>>, queue' = Tail(queue)
  PROVE  /\ Cardinality(QueuedAt(p)') \in Nat
         /\ Cardinality(QueuedAt(p)') <= Cardinality(QueuedAt(p))
         /\ Head(queue).provider = p =>
              Cardinality(QueuedAt(p)') + 1 <= Cardinality(QueuedAt(p))
<1>1. /\ Len(queue) \in Nat \ {0} /\ DOMAIN queue = 1..Len(queue)
      /\ DOMAIN queue' = 1..(Len(queue) - 1)
      /\ \A i \in 1..(Len(queue) - 1) : queue'[i] = queue[i + 1]
      /\ Head(queue) = queue[1]
  BY DEF CallsTypeOK
<1> DEFINE rest == QueuedAt(p) \ {1}
           back == [i \in QueuedAt(p)' |-> i + 1]
<1>2. back \in Injection(QueuedAt(p)', rest)
  <2>1. \A i \in QueuedAt(p)' : i \in Nat /\ i + 1 \in rest
    BY <1>1 DEF QueuedAt
  <2>2. back \in [QueuedAt(p)' -> rest]
    BY <2>1
  <2>3. \A i, j \in QueuedAt(p)' : back[i] = back[j] => i = j
    BY <2>1
  <2> HIDE DEF back
  <2> QED BY <2>2, <2>3 DEF Injection, IsInjective
<1>3. /\ IsFiniteSet(rest)
      /\ Cardinality(rest) =
           IF 1 \in QueuedAt(p) THEN Cardinality(QueuedAt(p)) - 1 ELSE Cardinality(QueuedAt(p))
  BY CallSetsFinite, FS_RemoveElement
<1>4. /\ IsFiniteSet(QueuedAt(p)') /\ Cardinality(QueuedAt(p)') \in Nat
      /\ Cardinality(QueuedAt(p)') <= Cardinality(rest)
  BY <1>2, <1>3, FS_Injection, FS_CardinalityType
<1>5. Head(queue).provider = p => 1 \in QueuedAt(p)
  BY <1>1 DEF QueuedAt
<1>6. Cardinality(QueuedAt(p)) \in Nat
  BY CallSetsFinite
<1> HIDE DEF rest
<1> QED BY <1>3, <1>4, <1>5, <1>6

(* A step after which p's window and its outstanding calls are no more.       *)
NotMore(p) ==
  /\ Len(points'[p]) + Outstanding(p)' \in Int
  /\ Len(points'[p]) + Outstanding(p)' <= Len(points[p]) + Outstanding(p)

(* OutstandingIs, in the next state.                                          *)
LEMMA OutstandingThen ==
  ASSUME NEW p
  PROVE  Outstanding(p)' =
           Cardinality(OpenCalls(p)') + Cardinality(QueuedAt(p)') + Cardinality(Posting(p)')
BY DEF Outstanding, OpenCalls, Judged, QueuedAt, Posting

(* Only the backend opens a call that a cap was held to.                      *)
LEMMA OpenedByBackend ==
  ASSUME CallsTypeOK, NEW t \in Threads, ~unmetered', ~Evaluate(t),
         Preflight(t) \/ Enter(t) \/ Refuse(t) \/ Send(t) \/ Cancel(t),
         pc'[t] \in Judged, call'[t].answer.decision # "block"
  PROVE  pc[t] \in Judged /\ call[t].answer.decision # "block"
<1>1. \A mode \in {constructor, engineMode} : FallBack(t, mode) => FALSE
  <2> SUFFICES ASSUME NEW mode \in {constructor, engineMode}, FallBack(t, mode) PROVE FALSE
    OBVIOUS
  <2>1. call'[t].answer = FallbackAnswer(mode) /\ FallbackAnswer(mode).decision # "allow"
    BY DEF FallBack, Decide, CallsTypeOK, CallType
  <2>2. FallbackAnswer(mode).decision \in {"allow", "block"}
    BY DEF FallbackAnswer, OwnAnswer, Answer
  <2> QED BY <2>1, <2>2
<1>2. CASE ReadAgain(t)
  <2>1. ~Decide(t, OwnAnswer("block", "cooldown_active"))
    BY DEF Decide, CallsTypeOK, CallType, OwnAnswer, Answer
  <2>2. ~Goto(t, "post")
    BY DEF Goto, CallsTypeOK, Judged
  <2> QED BY <1>1, <1>2, <2>1, <2>2 DEF ReadAgain
<1>3. CASE Fall(t)
  BY <1>1, <1>3 DEF Fall
<1>4. CASE Unanswered(t) \/ Learn(t) \/ Elapse(t) \/ ClearCache(t) \/ Report(t) \/ ReportLost(t)
  BY <1>4 DEF Unanswered, Learn, Elapse, ClearCache, Report, ReportLost, At, Goto, CallsTypeOK,
              Judged
<1>5. CASE Enter(t) \/ Refuse(t) \/ Cancel(t)
  BY <1>5 DEF Enter, Refuse, Cancel, Goto, CallsTypeOK, Judged
<1>6. CASE Send(t)
  BY <1>6 DEF Send, At, Judged
<1> QED BY <1>2, <1>3, <1>4, <1>5, <1>6 DEF Preflight

(* No step of a wrapped call but the decision itself adds a call to count.    *)
LEMMA QuietNotMore ==
  ASSUME CallsTypeOK, NEW t \in Threads, NEW p \in Providers, ~unmetered', ~Evaluate(t),
         Preflight(t) \/ Enter(t) \/ Refuse(t) \/ Send(t) \/ Cancel(t)
  PROVE  NotMore(p)
<1>1. CallMove(t) /\ UNCHANGED <<points, queue, held, work>>
  BY QuietMove DEF CallMove
<1>2. OpenCalls(p)' \subseteq OpenCalls(p)
  BY <1>1, OthersStay, OpenedByBackend DEF OpenCalls, Provider
<1>3. QueuedAt(p)' = QueuedAt(p) /\ Posting(p)' = Posting(p)
  BY <1>1 DEF QueuedAt, Posting
<1>4. /\ Cardinality(OpenCalls(p)') <= Cardinality(OpenCalls(p))
      /\ Cardinality(OpenCalls(p)') \in Nat
  BY <1>2, CallSetsFinite, PartCounted
<1>5. Len(points'[p]) = Len(points[p]) /\ Len(points[p]) \in Nat
  BY <1>1 DEF CallsTypeOK
<1> QED
  BY <1>3, <1>4, <1>5, CallSetsFinite, OutstandingIs, OutstandingThen DEF NotMore

(* A call over is an event queued.                                           *)
LEMMA CaptureNotMore ==
  ASSUME CallsTypeOK, FlushInv, NEW t \in Threads, NEW p \in Providers, NEW spent \in Nat,
         At(t, "provider"), Capture(t, spent)
  PROVE  NotMore(p)
<1> DEFINE e == [provider |-> Provider(t), tokens |-> spent]
<1>1. /\ CallMove(t) /\ pc[t] = "provider" /\ pc'[t] = "flush"
      /\ UNCHANGED <<points, held, work>> /\ queue' = Append(queue, e)
  BY DEF CallMove, Capture, Goto, At, CallsTypeOK, backend, client
<1>2. e \in EventType
  BY WorkType DEF EventType
<1>3. OpenCalls(p)' = OpenCalls(p) \ {t} /\ (Provider(t) = p <=> t \in OpenCalls(p))
  BY <1>1, OthersStay DEF OpenCalls, Provider, Judged, FlushInv
<1>4. Posting(p)' = Posting(p)
  BY <1>1 DEF Posting
<1>5. /\ QueuedAt(p)' = IF Provider(t) = p THEN QueuedAt(p) \cup {Len(queue) + 1}
                        ELSE QueuedAt(p)
      /\ Len(queue) + 1 \notin QueuedAt(p)
  BY <1>1, <1>2, QueuedAppend
<1>6. Len(points'[p]) = Len(points[p]) /\ Len(points[p]) \in Nat
  BY <1>1 DEF CallsTypeOK
<1>7. CASE Provider(t) = p
  <2>1. Cardinality(OpenCalls(p)') = Cardinality(OpenCalls(p)) - 1
    <3>1. IsFiniteSet(OpenCalls(p))
      BY CallSetsFinite
    <3>2. Cardinality(OpenCalls(p) \ {t}) =
            IF t \in OpenCalls(p) THEN Cardinality(OpenCalls(p)) - 1 ELSE Cardinality(OpenCalls(p))
      BY <3>1, FS_RemoveElement
    <3> QED BY <1>3, <1>7, <3>2
  <2>2. Cardinality(QueuedAt(p)') = Cardinality(QueuedAt(p)) + 1
    BY <1>5, <1>7, CallSetsFinite, FS_AddElement
  <2> QED
    BY <1>4, <1>6, <2>1, <2>2, CallSetsFinite, OutstandingIs, OutstandingThen DEF NotMore
<1>8. CASE Provider(t) # p
  <2>1. OpenCalls(p)' = OpenCalls(p) /\ QueuedAt(p)' = QueuedAt(p)
    BY <1>3, <1>5, <1>8
  <2> QED
    BY <1>4, <1>6, <2>1, CallSetsFinite, OutstandingIs, OutstandingThen DEF NotMore
<1> QED BY <1>7, <1>8

(* An event taken is one posted, and one delivered a point in its window.     *)
LEMMA HandsNotMore ==
  ASSUME CallsTypeOK, NEW f \in Flushers, NEW p \in Providers, Take(f) \/ Deliver(f) \/ Lose(f)
  PROVE  NotMore(p)
<1>1. OpenCalls(p)' = OpenCalls(p) /\ Len(points[p]) \in Nat
  BY DEF Take, Deliver, Lose, threads, client, OpenCalls, Provider, CallsTypeOK
<1>2. CASE Take(f)
  <2>1. queue # <<>> /\ queue' = Tail(queue) /\ points' = points
    BY <1>2 DEF Take, backend
  <2>2. Posting(p)' \subseteq Posting(p) \cup (IF Head(queue).provider = p THEN {f} ELSE {})
    BY <1>2 DEF Take, Posting, CallsTypeOK
  <2>3. /\ IsFiniteSet(Posting(p) \cup {f})
        /\ Cardinality(Posting(p) \cup {f}) =
             IF f \in Posting(p) THEN Cardinality(Posting(p)) ELSE Cardinality(Posting(p)) + 1
    BY CallSetsFinite, FS_AddElement
  <2>4. CASE Head(queue).provider = p
    <3>1. /\ Cardinality(Posting(p)') \in Nat
          /\ Cardinality(Posting(p)') <= Cardinality(Posting(p) \cup {f})
      BY <2>2, <2>3, <2>4, PartCounted
    <3>2. Cardinality(Posting(p)') <= Cardinality(Posting(p)) + 1
      BY <2>3, <3>1, CallSetsFinite
    <3>3. /\ Cardinality(QueuedAt(p)') + 1 <= Cardinality(QueuedAt(p))
          /\ Cardinality(QueuedAt(p)') \in Nat
      BY <2>1, <2>4, QueuedTail
    <3>4. Outstanding(p)' = Cardinality(OpenCalls(p)) + Cardinality(QueuedAt(p)')
                              + Cardinality(Posting(p)')
      BY <1>1, OutstandingThen
    <3>5. /\ Cardinality(OpenCalls(p)) \in Nat /\ Cardinality(QueuedAt(p)) \in Nat
          /\ Cardinality(Posting(p)) \in Nat
      BY CallSetsFinite
    <3>6. Len(points'[p]) = Len(points[p])
      BY <2>1
    <3> QED
      BY <1>1, <3>1, <3>2, <3>3, <3>4, <3>5, <3>6, OutstandingIs DEF NotMore
  <2>5. CASE Head(queue).provider # p
    <3>1. Cardinality(Posting(p)') \in Nat /\ Cardinality(Posting(p)') <= Cardinality(Posting(p))
      BY <2>2, <2>5, CallSetsFinite, PartCounted
    <3>2. /\ Cardinality(QueuedAt(p)') <= Cardinality(QueuedAt(p))
          /\ Cardinality(QueuedAt(p)') \in Nat
      BY <2>1, QueuedTail
    <3> QED
      BY <1>1, <2>1, <3>1, <3>2, CallSetsFinite, OutstandingIs, OutstandingThen DEF NotMore
  <2> QED BY <2>4, <2>5
<1>3. CASE Deliver(f) \/ Lose(f)
  <2>1. /\ QueuedAt(p)' = QueuedAt(p) /\ Posting(p)' = Posting(p) \ {f}
        /\ held[f] # None
    BY <1>3 DEF Deliver, Lose, QueuedAt, Posting, CallsTypeOK
  <2>2. Cardinality(Posting(p)') =
          IF held[f].provider = p THEN Cardinality(Posting(p)) - 1 ELSE Cardinality(Posting(p))
    <3>1. IsFiniteSet(Posting(p))
      BY CallSetsFinite
    <3>2. Cardinality(Posting(p) \ {f}) =
            IF f \in Posting(p) THEN Cardinality(Posting(p)) - 1 ELSE Cardinality(Posting(p))
      BY <3>1, FS_RemoveElement
    <3>3. f \in Posting(p) <=> held[f].provider = p
      BY <2>1 DEF Posting
    <3> QED BY <2>1, <3>2, <3>3
  <2>3. /\ Len(points'[p]) \in Nat
        /\ Len(points'[p]) <= IF held[f].provider = p THEN Len(points[p]) + 1 ELSE Len(points[p])
    <3>1. CASE Lose(f)
      BY <3>1 DEF Lose, backend, CallsTypeOK
    <3>2. CASE Deliver(f)
      <4>1. held[f].tokens \in Nat /\ held[f].provider \in Providers
        BY <2>1 DEF CallsTypeOK, EventType
      <4> DEFINE q == held[f].provider
                 n == held[f].tokens
      <4>2. points' = [points EXCEPT ![q] = Append(@, n)]
        BY <3>2 DEF Deliver
      <4> HIDE DEF q, n
      <4>3. points'[p] = IF q = p THEN Append(points[p], n) ELSE points[p]
        BY <4>2 DEF CallsTypeOK
      <4>4. points[p] \in Seq(Nat) /\ n \in Nat
        BY <4>1 DEF CallsTypeOK, n
      <4> QED BY <4>3, <4>4 DEF q
    <3> QED BY <1>3, <3>1, <3>2
  <2>4. Cardinality(Posting(p)) \in Nat
    BY CallSetsFinite
  <2>5. Len(points'[p]) + Cardinality(Posting(p)') <= Len(points[p]) + Cardinality(Posting(p))
    BY <1>1, <2>2, <2>3, <2>4
  <2>6. Cardinality(Posting(p)') \in Int
    BY <2>2, <2>4
  <2>7. Cardinality(OpenCalls(p)) \in Nat /\ Cardinality(QueuedAt(p)) \in Nat
    BY CallSetsFinite
  <2>8. Outstanding(p)' =
          Cardinality(OpenCalls(p)) + Cardinality(QueuedAt(p)) + Cardinality(Posting(p)')
    <3>1. Cardinality(OpenCalls(p)') = Cardinality(OpenCalls(p))
      BY <1>1
    <3>2. Cardinality(QueuedAt(p)') = Cardinality(QueuedAt(p))
      BY <2>1
    <3> QED BY <3>1, <3>2, OutstandingThen
  <2>9. Len(points'[p]) \in Nat /\ Len(points[p]) \in Nat
    BY <1>1, <2>3
  <2> QED
    BY <2>4, <2>5, <2>6, <2>7, <2>8, <2>9, OutstandingIs DEF NotMore
<1> QED BY <1>2, <1>3

(* Neither do the end of a flush, an expiry, the clock, or an edit of the     *)
(* settings.                                                                  *)
LEMMA OtherNotMore ==
  ASSUME CallsTypeOK, NEW p \in Providers,
         \/ \E t \in Threads : EndFlush(t)
         \/ \E q \in Providers : Expire(q)
         \/ Tick \/ Save
  PROVE  NotMore(p)
<1>1. QueuedAt(p)' = QueuedAt(p) /\ Posting(p)' = Posting(p)
  BY DEF EndFlush, Expire, Tick, Save, outbox, QueuedAt, Posting
<1>2. OpenCalls(p)' = OpenCalls(p)
  <2>1. CASE \E t \in Threads : EndFlush(t)
    BY <2>1 DEF EndFlush, At, Goto, client, CallsTypeOK, OpenCalls, Provider, Judged
  <2>2. CASE Tick \/ Save \/ \E q \in Providers : Expire(q)
    BY <2>2 DEF Expire, Tick, Save, threads, client, OpenCalls, Provider
  <2> QED BY <2>1, <2>2
<1>3. Len(points'[p]) \in Nat /\ Len(points'[p]) <= Len(points[p]) /\ Len(points[p]) \in Nat
  <2>1. CASE \E q \in Providers : Expire(q)
    <3>1. PICK q \in Providers : Expire(q)
      BY <2>1
    <3>2. points[p] \in Seq(Nat) /\ points[q] # <<>> /\ points[q] \in Seq(Nat)
      BY <3>1 DEF Expire, CallsTypeOK
    <3>3. points'[p] = IF q = p THEN Tail(points[p]) ELSE points[p]
      BY <3>1 DEF Expire, CallsTypeOK
    <3> QED BY <3>2, <3>3
  <2>2. CASE Tick \/ Save \/ \E t \in Threads : EndFlush(t)
    BY <2>2 DEF EndFlush, Tick, Save, backend, CallsTypeOK
  <2> QED BY <2>1, <2>2
<1> QED
  BY <1>1, <1>2, <1>3, CallSetsFinite, OutstandingIs, OutstandingThen DEF NotMore

(* A call is opened for which the window has room.                           *)
LEMMA EvaluateHasRoom ==
  ASSUME CallsTypeOK, FlushInv, OvershootBounded, NEW t \in Threads, Evaluate(t),
         ~unmetered', project.maxReq # None, NEW p \in Providers
  PROVE  Len(points'[p]) + Outstanding(p)' <= project.maxReq + Cardinality(Threads)
<1>1. /\ CallMove(t) /\ pc[t] = "post" /\ pc'[t] = "answer"
      /\ UNCHANGED <<points, queue, held, work>>
      /\ project.enabled /\ ~unmetered
      /\ call'[t].answer = Evaluated(t)
  BY DEF CallMove, Preflight, Evaluate, Goto, At, CallsTypeOK, CallType, client, outbox
<1>2. OpenCalls(p)' \subseteq OpenCalls(p) \cup {t}
  BY <1>1, OthersStay DEF OpenCalls, Provider
<1>3. QueuedAt(p)' = QueuedAt(p) /\ Posting(p)' = Posting(p)
  BY <1>1 DEF QueuedAt, Posting
<1>4. Len(points'[p]) = Len(points[p]) /\ Len(points[p]) \in Nat
  BY <1>1 DEF CallsTypeOK
<1>5. project.maxReq \in Nat /\ Cardinality(Threads) \in Nat
  BY WorkType, ThreadsAssumption, FS_CardinalityType DEF SettingsType, OptCap
<1>6. /\ Cardinality(OpenCalls(p)) \in Nat /\ Cardinality(QueuedAt(p)) \in Nat
      /\ Cardinality(Posting(p)) \in Nat /\ IsFiniteSet(OpenCalls(p))
  BY CallSetsFinite
<1>7. CASE t \in OpenCalls(p)'
  <2>1. Provider(t) = p /\ Evaluated(t).decision # "block"
    BY <1>1, <1>7 DEF OpenCalls, Provider
  <2>2. ~RequestsBreached(project, Len(points[p]))
    BY <1>1, <2>1 DEF Evaluated, Decision, BlockDecision, CooldownBlock, Answer
  <2>3. Len(points[p]) + 1 <= project.maxReq
    BY <1>4, <1>5, <2>2 DEF RequestsBreached
  <2>4. Outstanding(p) <= Cardinality(Threads)
    BY <1>1, OutstandingFits DEF Judged
  <2>5. /\ Cardinality(OpenCalls(p)') \in Nat
        /\ Cardinality(OpenCalls(p)') <= Cardinality(OpenCalls(p)) + 1
    <3>1. /\ IsFiniteSet(OpenCalls(p) \cup {t})
          /\ Cardinality(OpenCalls(p) \cup {t}) =
               IF t \in OpenCalls(p) THEN Cardinality(OpenCalls(p))
               ELSE Cardinality(OpenCalls(p)) + 1
      BY <1>6, FS_AddElement
    <3>2. /\ Cardinality(OpenCalls(p)') \in Nat
          /\ Cardinality(OpenCalls(p)') <= Cardinality(OpenCalls(p) \cup {t})
      BY <1>2, <3>1, PartCounted
    <3> QED BY <1>6, <3>1, <3>2
  <2>6. Outstanding(p)' <= Outstanding(p) + 1 /\ Outstanding(p) \in Nat /\ Outstanding(p)' \in Nat
    <3>1. Outstanding(p)' = Cardinality(OpenCalls(p)') + Cardinality(QueuedAt(p))
                              + Cardinality(Posting(p))
      BY <1>3, OutstandingThen
    <3> QED BY <1>6, <2>5, <3>1, OutstandingIs
  <2> QED BY <1>4, <1>5, <2>3, <2>4, <2>6
<1>8. CASE t \notin OpenCalls(p)'
  <2>1. OpenCalls(p)' \subseteq OpenCalls(p)
    BY <1>2, <1>8
  <2>2. /\ Cardinality(OpenCalls(p)') \in Nat
        /\ Cardinality(OpenCalls(p)') <= Cardinality(OpenCalls(p))
    BY <1>6, <2>1, PartCounted
  <2>3. Outstanding(p)' = Cardinality(OpenCalls(p)') + Cardinality(QueuedAt(p))
                            + Cardinality(Posting(p))
    BY <1>3, OutstandingThen
  <2>4. Len(points[p]) + Outstanding(p) <= project.maxReq + Cardinality(Threads)
    BY <1>1 DEF OvershootBounded
  <2> QED BY <1>4, <1>5, <1>6, <2>2, <2>3, <2>4, OutstandingIs
<1> QED BY <1>7, <1>8

(* A history in which every call is held to one cap has been so far.          *)
LEMMA HeldToOneCap ==
  ASSUME CallsTypeOK, CallsNext, ~unmetered'
  PROVE  ~unmetered /\ project'.maxReq = project.maxReq
<1>1. ASSUME NEW t \in Threads, CallMove(t) PROVE ~unmetered /\ project' = project
  <2>1. project' = project
    BY <1>1, OthersStay
  <2>2. CASE ReadAgain(t) \/ Fall(t) \/ Evaluate(t)
    BY <2>1, <2>2 DEF ReadAgain, Evaluate, Fall, FallBack
  <2>3. CASE Unanswered(t) \/ Learn(t) \/ Elapse(t) \/ ClearCache(t) \/ Report(t) \/ ReportLost(t)
    BY <2>1, <2>3 DEF Unanswered, Learn, Elapse, ClearCache, Report, ReportLost
  <2>4. CASE Enter(t) \/ Refuse(t) \/ Send(t) \/ Cancel(t) \/ EndFlush(t)
    BY <2>1, <2>4 DEF Enter, Refuse, Send, Cancel, EndFlush
  <2>5. CASE \E spent \in Nat : At(t, "provider") /\ Capture(t, spent)
    BY <2>1, <2>5 DEF Capture
  <2> QED BY <1>1, <2>2, <2>3, <2>4, <2>5 DEF CallMove, Preflight
<1>2. CASE Save
  BY <1>2 DEF Save
<1>3. CASE Aside
  BY <1>3 DEF Aside, Take, Deliver, Lose, Expire, Tick, backend
<1> QED BY <1>1, <1>2, <1>3, StepKinds

(* A decision lets a call through only below the cap, when no more than one   *)
(* call per other thread is uncounted; every other step leaves the sum.       *)
LEMMA OvershootStep ==
  ASSUME CallsTypeOK, FlushInv, OvershootBounded, CallsNext
  PROVE  OvershootBounded'
<1> SUFFICES ASSUME ~unmetered', project'.maxReq # None, NEW p \in Providers
             PROVE  Len(points'[p]) + Outstanding(p)' <= project'.maxReq + Cardinality(Threads)
  BY DEF OvershootBounded
<1>1. ~unmetered /\ project'.maxReq = project.maxReq
  BY HeldToOneCap
<1>2. CASE \E t \in Threads : Evaluate(t)
  BY <1>1, <1>2, EvaluateHasRoom
<1>3. CASE ~\E t \in Threads : Evaluate(t)
  <2>1. NotMore(p)
    BY <1>3, StepCases, QuietNotMore, CaptureNotMore, HandsNotMore, OtherNotMore
  <2>2. Len(points[p]) + Outstanding(p) <= project.maxReq + Cardinality(Threads)
    BY <1>1 DEF OvershootBounded
  <2>3. Len(points[p]) + Outstanding(p) \in Int
    BY CallSetsFinite, OutstandingIs DEF CallsTypeOK
  <2>4. /\ Len(points'[p]) + Outstanding(p)' \in Int
        /\ Len(points'[p]) + Outstanding(p)' <= Len(points[p]) + Outstanding(p)
    BY <2>1 DEF NotMore
  <2>5. project.maxReq \in Nat
    <3>1. project \in SettingsType /\ project.maxReq # None
      BY <1>1, SettingsAssumption DEF CallsTypeOK
    <3> QED BY <3>1 DEF SettingsType, OptCap
  <2>6. Cardinality(Threads) \in Nat
    BY ThreadsAssumption, FS_CardinalityType
  <2> QED BY <1>1, <2>2, <2>3, <2>4, <2>5, <2>6
<1> QED BY <1>2, <1>3

-----------------------------------------------------------------------------
(* The theorems.                                                             *)

CallsInv ==
  /\ CallsTypeOK /\ AnswersKept
  /\ ModeInv /\ ClosedInv /\ BudgetInv
  /\ FlushInv /\ OvershootBounded

(* The invariant holds when the client has been constructed.                 *)
LEMMA CallsStart == CallsInit => CallsInv
<1> SUFFICES ASSUME CallsInit PROVE CallsInv
  OBVIOUS
<1>1. NoCall \in CallType
  BY DEF NoCall, CallType, OptNat, OptInt
<1>2. project.failMode \in Modes
  BY SettingsAssumption DEF CallsInit, SettingsType
<1>3. /\ call \in [Threads -> CallType] /\ pc \in [Threads -> Phases]
      /\ queue \in Seq(EventType) /\ held \in [Flushers -> EventType \cup {None}]
  BY <1>1 DEF CallsInit, Phases
<1>4. /\ points \in [Providers -> Seq(Nat)] /\ tokens \in [Providers -> Int]
      /\ cooldown \in [Providers -> OptNat] /\ engineUntil \in OptNat
  BY DEF CallsInit, OptNat
<1>5. /\ {constructor, engineMode} \subseteq Modes /\ outdated \subseteq Threads
      /\ {settled, unmetered, everOpen} \subseteq BOOLEAN
  BY <1>2 DEF CallsInit, Bootstrapped
<1>6. CallsTypeOK
  BY <1>3, <1>4, <1>5 DEF CallsInit, CallsTypeOK
<1>7. \A t \in Threads : pc[t] = "idle"
  BY DEF CallsInit
<1>8. AnswersKept
  BY <1>7 DEF AnswersKept, Judged
<1>9. ModeInv
  BY <1>7 DEF CallsInit, Bootstrapped, ModeInv
<1>10. ClosedInv
  BY <1>2, <1>5, <1>7 DEF CallsInit, Bootstrapped, ClosedInv, Judged, Modes
<1>11. BudgetInv
  BY <1>7 DEF BudgetInv, BudgetKept, At, Judged
<1>12. FlushInv /\ OvershootBounded
  <2>1. Holding = {} /\ Flushing = {} /\ queue = <<>>
    BY <1>7 DEF CallsInit, Holding, Flushing
  <2>2. FlushInv
    BY <1>7, <2>1, FS_EmptySet DEF CallsInit, FlushInv, Flushers
  <2>3. ASSUME NEW p \in Providers, project.maxReq # None
        PROVE  Len(points[p]) + Outstanding(p) <= project.maxReq + Cardinality(Threads)
    <3>1. OpenCalls(p) = {} /\ QueuedAt(p) = {} /\ Posting(p) = {} /\ points[p] = <<>>
      BY <1>7, <2>1 DEF CallsInit, OpenCalls, QueuedAt, Posting, Judged
    <3>2. Len(points[p]) + Outstanding(p) = 0
      <4>1. Len(points[p]) = 0
        BY <3>1
      <4>2. /\ Cardinality(OpenCalls(p)) = 0 /\ Cardinality(QueuedAt(p)) = 0
            /\ Cardinality(Posting(p)) = 0
        BY <3>1, FS_EmptySet
      <4> QED BY <4>1, <4>2, OutstandingIs
    <3>3. project.maxReq \in Nat
      BY <2>3, SettingsAssumption DEF CallsInit, SettingsType, OptCap
    <3>4. Cardinality(Threads) \in Nat
      BY ThreadsAssumption, FS_CardinalityType
    <3> QED BY <3>2, <3>3, <3>4
  <2> QED BY <2>2, <2>3 DEF OvershootBounded
<1> QED BY <1>6, <1>8, <1>9, <1>10, <1>11, <1>12 DEF CallsInv

(* Every step keeps it, part by part.                                        *)
LEMMA CallsInvStep == CallsInv /\ [CallsNext]_callsVars => CallsInv'
<1> SUFFICES ASSUME CallsInv, [CallsNext]_callsVars PROVE CallsInv'
  OBVIOUS
<1>1. CASE CallsNext
  BY <1>1, StepType, AnswersStep, ModeStep, ClosedStep, BudgetStep, FlushStep, OvershootStep
  DEF CallsInv
<1>2. CASE UNCHANGED callsVars
  <2>1. CallsTypeOK'
    BY <1>2 DEF CallsInv, CallsTypeOK, callsVars, backend, client, engine, threads, outbox,
                bounds, modeHistory
  <2>2. AnswersKept' /\ ModeInv' /\ ClosedInv'
    BY <1>2 DEF CallsInv, AnswersKept, ModeInv, ClosedInv, callsVars, backend, client, engine,
                threads, modeHistory
  <2>3. BudgetInv'
    BY <1>2 DEF CallsInv, BudgetInv, BudgetKept, At, callsVars, client, threads
  <2>4. FlushInv' /\ OvershootBounded'
    BY <1>2 DEF CallsInv, FlushInv, Holding, Flushing, OvershootBounded, Outstanding, Provider,
                callsVars, backend, client, threads, outbox
  <2> QED BY <2>1, <2>2, <2>3, <2>4 DEF CallsInv
<1> QED BY <1>1, <1>2

(* So it holds throughout.                                                   *)
LEMMA CallsInvariant == CallsSpec => []CallsInv
BY CallsStart, CallsInvStep, PTL DEF CallsSpec

(* Whatever is lost, raced or edited, the state of the calls keeps its types: *)
(* every decision is well formed, and no recommendation is negative.         *)
THEOREM CallsTyped == CallsSpec => []CallsTypeOK
<1>1. CallsInv => CallsTypeOK BY DEF CallsInv
<1> QED BY <1>1, CallsInvariant, PTL

(* Once an answer was learnt after all older ones, the engine falls back by  *)
(* the project's mode, for any number of threads and edits.                  *)
THEOREM FallsBackByProjectMode == CallsSpec => []FallbackModeCurrent
<1>1. CallsInv => FallbackModeCurrent BY DEF CallsInv, ModeInv, FallbackModeCurrent
<1> QED BY <1>1, CallsInvariant, PTL

(* Closed throughout, no call the backend did not let through goes out.      *)
THEOREM ClosedKeepsCallsBack == CallsSpec => []FailClosedHolds
<1>1. CallsInv => FailClosedHolds
  BY DEF CallsInv, ClosedInv, FailClosedHolds, At, Judged
<1> QED BY <1>1, CallsInvariant, PTL

(* A call the backend decided with a budget goes out with a cap in it, or of  *)
(* one token, for any ladder position, request slots, threads and edits.     *)
THEOREM CallsKeepToBudget == CallsSpec => []BudgetKept
<1>1. CallsInv => BudgetKept BY DEF CallsInv, BudgetInv
<1> QED BY <1>1, CallsInvariant, PTL

(* The request cap is exceeded by one call for each thread at most, for any   *)
(* number of threads and any cap: each event not yet counted has a thread in  *)
(* flush() behind it, but for the one in the worker's hands, and a call is let *)
(* through only while its thread has no other and the window has room.        *)
THEOREM OvershootStaysBounded == CallsSpec => []OvershootBounded
<1>1. CallsInv => OvershootBounded BY DEF CallsInv
<1> QED BY <1>1, CallsInvariant, PTL
=============================================================================
