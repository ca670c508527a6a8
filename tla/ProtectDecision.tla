-------------------------- MODULE ProtectDecision --------------------------
(***************************************************************************)
(* ProtectService.evaluate_decision as a function: what one preflight is   *)
(* answered, from the project's settings, the request's context, the two   *)
(* rolling counters and the cooldown it read.  The clamp is a ladder: the  *)
(* nearer the projected tokens are to the cap, the smaller the share of    *)
(* the requested output that is recommended.                               *)
(***************************************************************************)
EXTENDS Integers, Sequences

CONSTANTS
  ShortOf70,      (* numbers n for which int(n * 0.70) is one less than the  *)
                  (* quotient: 90 gives 62, for 0.70 is stored rounded down  *)
  CooldownTicks,  (* protect_block_cooldown_seconds, in ticks of the clock   *)
  None

(* Only a product that is whole can be rounded down to the integer below.   *)
ASSUME ShortOf70Assumption == \A n \in ShortOf70 : n \in Nat \ {0} /\ n % 10 = 0
ASSUME CooldownAssumption == CooldownTicks \in Nat \ {0}
ASSUME NoneAssumption == None \notin Int

Modes == {"open", "closed"}
OptInt == Int \cup {None}
OptNat == Nat \cup {None}

Least(a, b) == IF a <= b THEN a ELSE b
AtLeast(low, n) == IF n < low THEN low ELSE n

(* The ladder of app_config, in percent.                                    *)
PressureThresholds == <<70, 75, 80, 85, 90, 95>>
OutputRatios == <<90, 80, 70, 55, 40, 25>>
Stages == 1..6

(* int(n * p / 100) on a double: of the two tuples' values only 0.70 ever    *)
(* rounds a whole product down to the integer below.                        *)
Truncated(n, p) ==
  IF p = 70 /\ n \in ShortOf70 THEN ((n * p) \div 100) - 1 ELSE (n * p) \div 100

Reached(projected, maxTok) ==
  {i \in Stages : projected >= Truncated(maxTok, PressureThresholds[i])}

(* The last stage reached gives the ratio.                                   *)
ClampRatio(projected, maxTok) ==
  LET stages == Reached(projected, maxTok)
  IN  IF stages = {} THEN None
      ELSE OutputRatios[CHOOSE i \in stages : \A j \in stages : j <= i]

(* The tokens the next call is expected to take: unknown without an estimate *)
(* of its input.                                                             *)
EstimatedTokens(ctx) ==
  IF ctx.input = None THEN None
  ELSE AtLeast(0, ctx.input) + (IF ctx.cap = None THEN 0 ELSE AtLeast(0, ctx.cap))

(* Faulty form: the input of the next call is not taken from the budget.     *)
RecommendedInputFree(maxTok, tokens, cap, estimated) ==
  LET ratio == ClampRatio(tokens + estimated, maxTok)
      stageLimit == AtLeast(1, Truncated(cap, ratio))
  IN  AtLeast(1, Least(cap, Least(stageLimit, maxTok - tokens)))

(* Faulty form: a negative budget is recommended as it is, not as one token. *)
RecommendedUnfloored(maxTok, tokens, cap, estimated) ==
  LET ratio == ClampRatio(tokens + estimated, maxTok)
      available == maxTok - tokens - AtLeast(0, estimated - cap)
  IN  Least(cap, Least(AtLeast(1, Truncated(cap, ratio)), available))

Recommended(maxTok, tokens, cap, estimated) ==
  LET ratio == ClampRatio(tokens + estimated, maxTok)
      available == maxTok - tokens - AtLeast(0, estimated - cap)
      stageLimit == AtLeast(1, Truncated(cap, ratio))
  IN  AtLeast(1, Least(cap, Least(stageLimit, available)))

(* _build_clamp: the recommended output cap, or None.                       *)
Clamp(maxTok, tokens, cap, estimated) ==
  IF \/ maxTok = None \/ cap = None \/ estimated = None
  THEN None
  ELSE IF maxTok <= 0 \/ cap <= 0 \/ ClampRatio(tokens + estimated, maxTok) = None
       THEN None
       ELSE Recommended(maxTok, tokens, cap, estimated)

(* What every answer carries of the settings.                               *)
Answer(settings, decision, reason, until, recommended) ==
  [decision |-> decision, reason |-> reason, failMode |-> settings.failMode,
   applyClamp |-> settings.applyClamp, until |-> until, recommended |-> recommended]

DisabledDecision(settings) == Answer(settings, "allow", "ok", None, None)

CooldownBlock(settings, until) ==
  Answer(settings, "block", "cooldown_active", until, None)

(* A block of a breached cap starts a cooldown.                             *)
BlockDecision(settings, reason, now) ==
  Answer(settings, "block", reason, now + CooldownTicks, None)

TokensBreached(settings, tokens) ==
  settings.maxTok # None /\ tokens >= settings.maxTok

RequestsBreached(settings, requests) ==
  settings.maxReq # None /\ requests >= settings.maxReq

(* A clamp is decided only when it lowers a cap the request carries.        *)
ClampDecision(settings, ctx, tokens) ==
  LET recommended == Clamp(settings.maxTok, tokens, ctx.cap, EstimatedTokens(ctx))
  IN  IF /\ settings.applyClamp
         /\ recommended # None
         /\ recommended < ctx.cap
      THEN Answer(settings, "clamp", "token_clamp", None, recommended)
      ELSE Answer(settings, "allow", "ok", None, None)

(* The order of the checks: the cooldown, then the token cap, then requests. *)
Decision(settings, ctx, requests, tokens, until, now) ==
  IF ~settings.enabled THEN DisabledDecision(settings)
  ELSE IF until # None /\ now < until
       THEN CooldownBlock(settings, until)
  ELSE IF TokensBreached(settings, tokens)
       THEN BlockDecision(settings, "tok_cap_breach", now)
  ELSE IF RequestsBreached(settings, requests)
       THEN BlockDecision(settings, "req_cap_breach", now)
  ELSE ClampDecision(settings, ctx, tokens)
=============================================================================
