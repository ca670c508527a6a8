-------------------------- MODULE ProtectEndpoints --------------------------
(***************************************************************************)
(* The protect endpoints of one project and provider, with the side effects  *)
(* that follow a finalized outcome: the block cooldown and its owner in      *)
(* Redis, and the block incidents, which a live decision records in a        *)
(* background task after its answer.  finalize_outcome is one step here, as   *)
(* ProtectContract promises.  A request has at most one live decision and     *)
(* one fallback report; they overlap freely, with each other and with those   *)
(* of other requests.                                                        *)
(***************************************************************************)
EXTENDS FiniteSets

CONSTANTS
  Requests,    (* X-Rheonic-Protect-Request-Id                               *)
  CapReasons,  (* req_cap_breach, tok_cap_breach                             *)
  NoRequest,
  FailModes    (* what protect_fail_mode is set to: "open", "closed"          *)

ASSUME RequestsAssumption == IsFiniteSet(Requests) /\ NoRequest \notin Requests
ASSUME ReasonsAssumption ==
  /\ CapReasons \cap {"none", "allow", "cooldown"} = {}
  /\ FailModes \subseteq {"open", "closed"}

Live(r) == <<r, "live">>
Fallback(r) == <<r, "fallback">>
Calls == Requests \X {"live", "fallback"}
NoWriter == <<NoRequest, "none">>

VARIABLES
  verdict,    (* verdict[r]: what evaluate_decision returned                  *)
  outcome,    (* outcome[r]: the canonical outcome                            *)
  cooldown,   (* the request whose blocked_until the cooldown key holds       *)
  owner,      (* the cooldown-owner key                                      *)
  status,     (* status[r]: the incident that the task of request r opened    *)
  writer,     (* writer[i]: request_id and source in the evidence of i        *)
  recent,     (* incidents seen within the dedup window                       *)
  pc,         (* pc[c]: what call c does next                                 *)
  found,      (* found[c]: the incidents call c has read                      *)
  disturbed,  (* history: cooldown updates overlapped, or one failed           *)
  crowded,    (* history: two calls upserted incidents at once                *)
  prompt,     (* history: requests whose task was over when they reconciled    *)
  late        (* history: requests whose fallback came before their decision   *)

keys == <<cooldown, owner, disturbed>>
incidents == <<status, writer, recent>>
history == <<crowded, prompt, late>>
vars == <<verdict, outcome, keys, incidents, pc, found, history>>

OnCooldown == {"set_cooldown", "set_owner", "compare", "del_cooldown", "del_owner"}
Steps == OnCooldown \cup {"finalize", "look_up", "write", "list", "resolve"}
Ends == {"done", "ignored", "dead"}
Blocks == {"block", "fallback_block"}

TypeOK ==
  /\ verdict \in [Requests -> CapReasons \cup {"none", "allow", "cooldown"}]
  /\ outcome \in [Requests -> Blocks \cup {"none", "allow", "fallback_allow"}]
  /\ cooldown \in Requests \cup {NoRequest}
  /\ owner \in Requests \cup {NoRequest}
  /\ status \in [Requests -> {"none", "open", "resolved", "auto_resolved"}]
  /\ writer \in [Requests -> Calls \cup {NoWriter}]
  /\ recent \subseteq Requests
  /\ pc \in [Calls -> {"idle"} \cup Steps \cup Ends]
  /\ found \in [Calls -> SUBSET Requests]
  /\ disturbed \in BOOLEAN /\ crowded \in BOOLEAN
  /\ prompt \subseteq Requests /\ late \subseteq Requests

Init ==
  /\ verdict = [r \in Requests |-> "none"]
  /\ outcome = [r \in Requests |-> "none"]
  /\ cooldown = NoRequest /\ owner = NoRequest
  /\ status = [r \in Requests |-> "none"]
  /\ writer = [r \in Requests |-> NoWriter]
  /\ recent = {}
  /\ pc = [c \in Calls |-> "idle"]
  /\ found = [c \in Calls |-> {}]
  /\ disturbed = FALSE /\ crowded = FALSE
  /\ prompt = {} /\ late = {}

At(c, here) == pc[c] = here
Goto(c, to) == pc' = [pc EXCEPT ![c] = to]

(* Another call is between its finalization and its last cooldown command.   *)
Overlaps(c) == \E d \in Calls \ {c} : pc[d] \in OnCooldown

-----------------------------------------------------------------------------
(* protect_decision                                                          *)

Judge(r, verdicts) ==
  /\ At(Live(r), "idle")
  /\ \E v \in verdicts : verdict' = [verdict EXCEPT ![r] = v]
  /\ Goto(Live(r), "finalize")
  /\ UNCHANGED <<outcome, keys, incidents, found, history>>

(* The cooldown comes first; the windows and caps decide the rest.           *)
Evaluate(r) == Judge(r, IF cooldown # NoRequest THEN {"cooldown"} ELSE CapReasons \cup {"allow"})

(* The GET of the cooldown raises, and counts as none.                        *)
EvaluateBlindly(r) == Judge(r, CapReasons \cup {"allow"})

Decided(r) == IF verdict[r] = "allow" THEN "allow" ELSE "block"

AfterLive(r) ==
  IF verdict[r] \in CapReasons THEN "set_cooldown"
  ELSE IF verdict[r] = "cooldown" THEN "look_up" ELSE "done"

(* Faulty form: a late decision is not stored, but acted upon.                *)
FinalizeLiveAnyway(r) ==
  /\ At(Live(r), "finalize")
  /\ outcome' = [outcome EXCEPT ![r] = IF @ = "none" THEN Decided(r) ELSE @]
  /\ Goto(Live(r), AfterLive(r))
  /\ disturbed' = (disturbed \/ (verdict[r] \in CapReasons /\ Overlaps(Live(r))))
  /\ UNCHANGED <<verdict, cooldown, owner, incidents, found, history>>

(* A fallback that came first stands, and the decision has no effect.         *)
FinalizeLive(r) ==
  /\ At(Live(r), "finalize")
  /\ IF outcome[r] = "none"
       THEN /\ outcome' = [outcome EXCEPT ![r] = Decided(r)]
            /\ Goto(Live(r), AfterLive(r))
            /\ disturbed' = (disturbed \/ (verdict[r] \in CapReasons /\ Overlaps(Live(r))))
       ELSE /\ Goto(Live(r), "ignored")
            /\ UNCHANGED <<outcome, disturbed>>
  /\ UNCHANGED <<verdict, cooldown, owner, incidents, found, history>>

(* finalize_outcome failed, before or after it stored the outcome.            *)
FinalizeLiveRaises(r) ==
  /\ At(Live(r), "finalize")
  /\ \/ UNCHANGED outcome
     \/ outcome[r] = "none" /\ outcome' = [outcome EXCEPT ![r] = Decided(r)]
  /\ Goto(Live(r), "ignored")
  /\ UNCHANGED <<verdict, keys, incidents, found, history>>

(* set_block_cooldown                                                        *)
SetCooldown(r) ==
  /\ At(Live(r), "set_cooldown")
  /\ cooldown' = r
  /\ Goto(Live(r), "set_owner")
  /\ UNCHANGED <<verdict, outcome, owner, disturbed, incidents, found, history>>

(* Faulty form: the cooldown is nobody's.                                     *)
SetNoOwner(r) ==
  /\ At(Live(r), "set_owner")
  /\ Goto(Live(r), "look_up")
  /\ UNCHANGED <<verdict, outcome, keys, incidents, found, history>>

SetOwner(r) ==
  /\ At(Live(r), "set_owner")
  /\ owner' = r
  /\ Goto(Live(r), "look_up")
  /\ UNCHANGED <<verdict, outcome, cooldown, disturbed, incidents, found, history>>

-----------------------------------------------------------------------------
(* protect_decision_timeout, protect_decision_unavailable                    *)

FallbackOutcome(mode) == IF mode = "closed" THEN "fallback_block" ELSE "fallback_allow"

(* A fallback replaces a live outcome; only an allowed request has something  *)
(* of its block to take back.                                                *)
FinalizeFallback(r) ==
  /\ At(Fallback(r), "idle")
  /\ \E mode \in FailModes :
       LET supersedes == mode = "open" /\ outcome[r] = "block" IN
       /\ outcome' = [outcome EXCEPT ![r] = FallbackOutcome(mode)]
       /\ Goto(Fallback(r),
               IF mode = "closed" THEN "look_up" ELSE IF supersedes THEN "compare" ELSE "done")
       /\ disturbed' = (disturbed \/ (supersedes /\ Overlaps(Fallback(r))))
  /\ late' = IF pc[Live(r)] \in {"idle", "finalize"} THEN late \cup {r} ELSE late
  /\ UNCHANGED <<verdict, cooldown, owner, incidents, found, crowded, prompt>>

(* As FinalizeLiveRaises; nothing is taken back.                              *)
FinalizeFallbackRaises(r) ==
  /\ At(Fallback(r), "idle")
  /\ \E mode \in FailModes :
       /\ outcome' \in {outcome, [outcome EXCEPT ![r] = FallbackOutcome(mode)]}
       /\ Goto(Fallback(r), IF mode = "closed" THEN "look_up" ELSE "ignored")
  /\ disturbed' = TRUE
  /\ UNCHANGED <<verdict, cooldown, owner, incidents, found, history>>

(* Faulty form: whose cooldown it is is not asked.                            *)
CompareNothing(r) ==
  /\ At(Fallback(r), "compare")
  /\ Goto(Fallback(r), "del_cooldown")
  /\ UNCHANGED <<verdict, outcome, keys, incidents, found, history>>

(* clear_block_cooldown                                                      *)
CompareOwner(r) ==
  /\ At(Fallback(r), "compare")
  /\ Goto(Fallback(r), IF owner = r THEN "del_cooldown" ELSE "list")
  /\ UNCHANGED <<verdict, outcome, keys, incidents, found, history>>

DeleteCooldown(r) ==
  /\ At(Fallback(r), "del_cooldown")
  /\ cooldown' = NoRequest
  /\ Goto(Fallback(r), "del_owner")
  /\ UNCHANGED <<verdict, outcome, owner, disturbed, incidents, found, history>>

DeleteOwner(r) ==
  /\ At(Fallback(r), "del_owner")
  /\ owner' = NoRequest
  /\ Goto(Fallback(r), "list")
  /\ UNCHANGED <<verdict, outcome, cooldown, disturbed, incidents, found, history>>

(* A command on the two keys raises; the endpoint goes on without the rest.    *)
CooldownRaises(c) ==
  /\ pc[c] \in OnCooldown
  /\ Goto(c, IF c[2] = "live" THEN "look_up" ELSE "list")
  /\ disturbed' = TRUE
  /\ UNCHANGED <<verdict, outcome, cooldown, owner, incidents, found, history>>

-----------------------------------------------------------------------------
(* process_protect_block, from the task of a live decision or a fail-closed   *)
(* fallback.                                                                 *)

Open == {i \in Requests : status[i] = "open"}
OpensOne(c) == c[2] = "live" /\ verdict[c[1]] \in CapReasons
SameReason(i, j) == verdict[i] = verdict[j]

(* Faulty form: the incident is looked up by the request that reports.         *)
CandidatesOfRequest(c) == {i \in Open \cap recent : writer[i][1] = c[1]}

(* get_open_incident_by_fingerprint for a cap breach, otherwise any block      *)
(* incident of the window.  Which of several is read is left open.            *)
Candidates(c) == {i \in Open \cap recent : OpensOne(c) => SameReason(i, c[1])}

LookUp(c) ==
  /\ At(c, "look_up")
  /\ crowded' = (crowded \/ \E d \in Calls \ {c} : At(d, "write"))
  /\ IF Candidates(c) = {}
       THEN found' = [found EXCEPT ![c] = {}]
       ELSE \E i \in Candidates(c) : found' = [found EXCEPT ![c] = {i}]
  /\ Goto(c, IF Candidates(c) = {} /\ ~ OpensOne(c) THEN "done" ELSE "write")
  /\ UNCHANGED <<verdict, outcome, keys, incidents, prompt, late>>

(* update_open_incident_activity does nothing when the incident was closed      *)
(* in the meantime; create_incident.                                          *)
WriteIncident(c) ==
  /\ At(c, "write")
  /\ LET new == IF found[c] = {} THEN {c[1]} ELSE found[c] \cap Open IN
       /\ status' = [i \in Requests |-> IF i \in new THEN "open" ELSE status[i]]
       /\ writer' = [i \in Requests |-> IF i \in new THEN c ELSE writer[i]]
       /\ recent' = recent \cup new
  /\ Goto(c, "done")
  /\ UNCHANGED <<verdict, outcome, keys, found, history>>

-----------------------------------------------------------------------------
(* reconcile_timeout_superseded_live_block                                    *)

OfSuperseded(r) == {i \in Open : writer[i] = Live(r)}

ListIncidents(r) ==
  /\ At(Fallback(r), "list")
  /\ found' = [found EXCEPT ![Fallback(r)] = OfSuperseded(r)]
  /\ Goto(Fallback(r), "resolve")
  /\ prompt' = IF pc[Live(r)] \in Ends THEN prompt \cup {r} ELSE prompt
  /\ UNCHANGED <<verdict, outcome, keys, incidents, crowded, late>>

(* Faulty form: the first of them is resolved and the rest are left.           *)
ResolveFirst(r) ==
  /\ At(Fallback(r), "resolve")
  /\ Goto(Fallback(r), "done")
  /\ UNCHANGED <<verdict, outcome, keys, incidents, found, history>>

(* resolve_incident does not look at the status.                              *)
ResolveSuperseded(r) ==
  /\ At(Fallback(r), "resolve")
  /\ IF found[Fallback(r)] = {}
       THEN Goto(Fallback(r), "done") /\ UNCHANGED <<status, found>>
       ELSE \E i \in found[Fallback(r)] :
              /\ status' = [status EXCEPT ![i] = "resolved"]
              /\ found' = [found EXCEPT ![Fallback(r)] = @ \ {i}]
              /\ UNCHANGED pc
  /\ UNCHANGED <<verdict, outcome, keys, writer, recent, history>>

(* The process dies, or something else raises.                                 *)
Abandon(c) ==
  /\ pc[c] \in Steps
  /\ Goto(c, "dead")
  /\ disturbed' = (disturbed \/ pc[c] \in OnCooldown)
  /\ UNCHANGED <<verdict, outcome, cooldown, owner, incidents, found, history>>

-----------------------------------------------------------------------------
(* The dashboard, the auto-close job, and time.                               *)

Resolve(i) ==
  /\ status[i] # "none"
  /\ status' = [status EXCEPT ![i] = "resolved"]
  /\ UNCHANGED <<verdict, outcome, keys, writer, recent, pc, found, history>>

AutoClose ==
  /\ Open \ recent # {}
  /\ status' = [i \in Requests |-> IF i \in Open \ recent THEN "auto_resolved" ELSE status[i]]
  /\ UNCHANGED <<verdict, outcome, keys, writer, recent, pc, found, history>>

PassWindow(i) ==
  /\ i \in recent
  /\ recent' = recent \ {i}
  /\ UNCHANGED <<verdict, outcome, keys, status, writer, pc, found, history>>

CooldownExpires ==
  /\ cooldown # NoRequest
  /\ cooldown' = NoRequest
  /\ UNCHANGED <<verdict, outcome, owner, disturbed, incidents, pc, found, history>>

(* The owner is set after the cooldown, for the same time.                    *)
OwnerExpires ==
  /\ owner \notin {NoRequest, cooldown}
  /\ owner' = NoRequest
  /\ UNCHANGED <<verdict, outcome, cooldown, disturbed, incidents, pc, found, history>>

Decide(r) ==
  \/ Evaluate(r) \/ EvaluateBlindly(r)
  \/ FinalizeLive(r) \/ FinalizeLiveRaises(r) \/ SetCooldown(r) \/ SetOwner(r)

FallBack(r) ==
  \/ FinalizeFallback(r) \/ FinalizeFallbackRaises(r)
  \/ CompareOwner(r) \/ DeleteCooldown(r) \/ DeleteOwner(r)
  \/ ListIncidents(r) \/ ResolveSuperseded(r)

Record(c) == LookUp(c) \/ WriteIncident(c) \/ CooldownRaises(c) \/ Abandon(c)

Pass ==
  \/ \E i \in Requests : Resolve(i) \/ PassWindow(i)
  \/ AutoClose \/ CooldownExpires \/ OwnerExpires

Next ==
  \/ \E r \in Requests : Decide(r) \/ FallBack(r)
  \/ \E c \in Calls : Record(c)
  \/ Pass

Spec == Init /\ [][Next]_vars
-----------------------------------------------------------------------------
(* Properties.                                                               *)

(* Late live decisions are ignored after a fallback, with everything that     *)
(* would follow them: the fallback stays the outcome, and no cooldown, owner   *)
(* or incident is ever in the name of the decision.                           *)
LateBlockLeavesNothing ==
  \A r \in late :
    /\ outcome[r] \in {"fallback_allow", "fallback_block"}
    /\ r \notin {cooldown, owner}
    /\ status[r] = "none"
    /\ \A i \in Requests : writer[i] # Live(r)

(* Unless updates of the two keys overlapped or failed, the requests of the    *)
(* project are refused only on account of a block that stands, or that its     *)
(* fallback is about to take back.                                            *)
CooldownStands ==
  ~ disturbed /\ cooldown # NoRequest =>
    \/ outcome[cooldown] \in Blocks
    \/ pc[Fallback(cooldown)] \in {"compare", "del_cooldown"}

(* Under the same condition a fallback deletes no cooldown but its own.        *)
DeletesOnlyOwn ==
  [][\A r \in Requests :
       ~ disturbed /\ DeleteCooldown(r) => cooldown \in {r, NoRequest}]_vars

(* Unless two calls upserted at once, a reason has one open incident in the     *)
(* window, however incidents age, close and are reopened by the next block.    *)
OneOpenPerReason ==
  ~ crowded => \A i, j \in Open \cap recent : SameReason(i, j) => i = j

(* A fallback that supersedes a block after its task was over leaves no open    *)
(* incident in the name of the block.                                         *)
SupersededIsResolved ==
  \A r \in prompt : At(Fallback(r), "done") => OfSuperseded(r) = {}

-----------------------------------------------------------------------------
(* The store of outcomes.                                                    *)

Shown(o, k) ==
  \/ k = "allow" /\ o \in {"allow", "fallback_allow"}
  \/ k = "block" /\ o \in Blocks

Outranks(old, new) == old \in {"allow", "block"} /\ new \in {"fallback_allow", "fallback_block"}

(* The outcomes of the calls of this module as the contract of the store       *)
(* counts them; every call names its request, and which of the two fallbacks   *)
(* it reports is not kept here, so that none counts as a timeout.              *)
OutcomeStore == INSTANCE ProtectContract WITH
  Payloads <- Blocks \cup {"allow", "fallback_allow"},
  NoPayload <- "none",
  Tallied <- Shown,
  Prevails <- Outranks,
  anonymous <- [k \in {"allow", "clamp", "block", "timeouts"} |-> 0],
  tally <- [k \in {"allow", "clamp", "block", "timeouts"} |->
              Cardinality({r \in Requests : Shown(outcome[r], k)})]

(* The endpoints ask nothing else of the store than its contract promises:     *)
(* whatever fails or overlaps, a request gets its outcome once, and only its    *)
(* fallback's report replaces it.                                             *)
KeepsStoreContract == OutcomeStore!Spec
=============================================================================
