-------------------------- MODULE ProviderAdapters --------------------------
(***************************************************************************)
(* What the OpenAI, Anthropic and Google wrappers read of a request, where *)
(* they write a recommended output cap, and what they report of a response. *)
(* A request carries the caps it gives by slot: a keyword argument (kw) or *)
(* an entry of the dict that is its first positional argument (arg).       *)
(***************************************************************************)
EXTENDS ProtectDecision

Providers == {"openai", "anthropic", "google"}

(* The slots in the order the wrappers look for a cap.                      *)
OpenAISlots == <<"kw.max_tokens", "kw.max_output_tokens",
                 "arg.max_tokens", "arg.max_output_tokens">>
AnthropicSlots == <<"kw.max_tokens", "arg.max_tokens">>
GoogleSlots == <<"kw.generation_config", "kw.config",
                 "arg.generation_config", "arg.config">>

Slots(provider) ==
  IF provider = "openai" THEN OpenAISlots
  ELSE IF provider = "anthropic" THEN AnthropicSlots ELSE GoogleSlots

AllSlots == {"kw.max_tokens", "kw.max_output_tokens", "arg.max_tokens",
             "arg.max_output_tokens", "kw.generation_config", "kw.config",
             "arg.generation_config", "arg.config"}

(* input: the token estimate; given: the slots the request has, whether or   *)
(* not a cap is in them; positional: the first argument is a dict; content:  *)
(* that dict has model or contents; frozen: the config is an object whose    *)
(* cap cannot be set; async: the wrapper is the coroutine one.               *)
RequestType ==
  [provider : Providers, input : OptInt, caps : [AllSlots -> OptInt],
   given : SUBSET AllSlots, positional : BOOLEAN, content : BOOLEAN,
   frozen : BOOLEAN, async : BOOLEAN]

CappedAt(caps, slots) == {i \in DOMAIN slots : caps[slots[i]] # None}
FirstAt(places) == CHOOSE i \in places : \A j \in places : i <= j

(* The cap a call goes out with: that of the first slot that has one.       *)
MaxOutput(provider, caps) ==
  LET slots == Slots(provider)
      places == CappedAt(caps, slots)
  IN  IF places = {} THEN None ELSE caps[slots[FirstAt(places)]]

OpenAIMaxOutput(caps) == MaxOutput("openai", caps)
AnthropicMaxOutput(caps) == MaxOutput("anthropic", caps)
GoogleMaxOutput(caps) == MaxOutput("google", caps)

(* The slot a clamp writes.  OpenAI and Anthropic: the slot the cap was read *)
(* from, or else max_tokens where the request keeps its parameters.          *)
OpenAIClampSlot(request) ==
  LET places == CappedAt(request.caps, OpenAISlots)
  IN  IF places # {} THEN OpenAISlots[FirstAt(places)]
      ELSE IF request.positional THEN "arg.max_tokens" ELSE "kw.max_tokens"

AnthropicClampSlot(request) ==
  LET places == CappedAt(request.caps, AnthropicSlots)
  IN  IF places # {} THEN AnthropicSlots[FirstAt(places)]
      ELSE IF request.positional THEN "arg.max_tokens" ELSE "kw.max_tokens"

(* Google: by the keys the request has, not by where its cap was read from.  *)
GoogleClampSlot(request) ==
  IF "kw.generation_config" \in request.given THEN "kw.generation_config"
  ELSE IF "kw.config" \in request.given THEN "kw.config"
  ELSE IF ~request.positional THEN "kw.config"
  ELSE IF "arg.config" \in request.given \/ request.content THEN "arg.config"
  ELSE "arg.generation_config"

ClampSlot(request) ==
  IF request.provider = "openai" THEN OpenAIClampSlot(request)
  ELSE IF request.provider = "anthropic" THEN AnthropicClampSlot(request)
  ELSE GoogleClampSlot(request)

(* The lower of the two caps; a slot without one takes the recommendation.   *)
Lowered(cap, recommended) == IF cap = None THEN recommended ELSE Least(cap, recommended)

Applies(answer) ==
  /\ answer.decision = "clamp"
  /\ answer.applyClamp
  /\ answer.recommended # None
  /\ answer.recommended >= 1

OpenAIClamped(request, recommended) ==
  [request.caps EXCEPT ![OpenAIClampSlot(request)] = Lowered(@, recommended)]

AnthropicClamped(request, recommended) ==
  [request.caps EXCEPT ![AnthropicClampSlot(request)] = Lowered(@, recommended)]

(* Google config objects that refuse the assignment are sent as they are.    *)
GoogleClamped(request, recommended) ==
  IF request.frozen /\ GoogleClampSlot(request) \in request.given
  THEN request.caps
  ELSE [request.caps EXCEPT ![GoogleClampSlot(request)] = Lowered(@, recommended)]

Clamped(request, recommended) ==
  IF request.provider = "openai" THEN OpenAIClamped(request, recommended)
  ELSE IF request.provider = "anthropic" THEN AnthropicClamped(request, recommended)
  ELSE GoogleClamped(request, recommended)

(* The cap the provider sees.                                               *)
SentCap(request, answer) ==
  MaxOutput(request.provider,
            IF Applies(answer) THEN Clamped(request, answer.recommended) ELSE request.caps)

(* The preflight's context.                                                 *)
Context(request) ==
  [provider |-> request.provider, input |-> request.input,
   cap |-> MaxOutput(request.provider, request.caps)]

(* The requests a clamp reaches: the slot written stands, in the order of    *)
(* the slots, no later than the one the cap was read from.                   *)
ClampReaches(request) ==
  \/ request.provider # "google"
  \/ /\ ~(request.frozen /\ GoogleClampSlot(request) \in request.given)
     /\ \A i, j \in DOMAIN GoogleSlots :
          /\ GoogleSlots[i] = GoogleClampSlot(request)
          /\ request.caps[GoogleSlots[j]] # None
          => i <= j

(* What a response says of the tokens it took: their total, only its two     *)
(* parts, or nothing.                                                        *)
UsageShapes == {"total", "parts", "none"}

(* Only the total counts.                                                   *)
OpenAITokens(shape, used) == IF shape = "total" THEN used ELSE 0

(* The total, or the sum of input and output tokens.                         *)
AnthropicTokens(shape, used) == IF shape = "none" THEN 0 ELSE used

(* The total, or the sum of the prompt's and the candidates' tokens.         *)
GoogleTokens(shape, used) == IF shape = "none" THEN 0 ELSE used

TokensReported(provider, shape, used) ==
  IF provider = "openai" THEN OpenAITokens(shape, used)
  ELSE IF provider = "anthropic" THEN AnthropicTokens(shape, used)
  ELSE GoogleTokens(shape, used)
=============================================================================
