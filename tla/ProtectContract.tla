--------------------------- MODULE ProtectContract ---------------------------
(***************************************************************************)
(* What the protect counters promise, without Redis commands: a request    *)
(* has at most one final outcome, replaced in one step and only by one     *)
(* that prevails over it, and a tally follows the outcomes in that step.   *)
(***************************************************************************)
EXTENDS Integers

CONSTANTS Requests, Payloads, NoPayload, Tallied(_, _), Prevails(_, _)

Kinds == {"allow", "clamp", "block", "timeouts"}

VARIABLES
  outcome,    (* outcome[r]: the final outcome of request r                 *)
  anonymous,  (* anonymous[k]: what was counted for calls without a request *)
  tally       (* tally[k]: what the dashboard shows                         *)

vars == <<outcome, anonymous, tally>>

Weight(p, k) == IF p # NoPayload /\ Tallied(p, k) THEN 1 ELSE 0

Init ==
  /\ outcome = [r \in Requests |-> NoPayload]
  /\ anonymous = [k \in Kinds |-> 0]
  /\ tally = [k \in Kinds |-> 0]

(* The final outcome of r becomes p.                                        *)
Finalize(r, p) ==
  /\ outcome[r] = NoPayload \/ Prevails(outcome[r], p)
  /\ outcome' = [outcome EXCEPT ![r] = p]
  /\ tally' = [k \in Kinds |-> tally[k] + Weight(p, k) - Weight(outcome[r], k)]
  /\ UNCHANGED anonymous

(* An outcome of a call that names no request.                              *)
FinalizeAnonymous(p) ==
  /\ tally' = [k \in Kinds |-> tally[k] + Weight(p, k)]
  /\ anonymous' = [k \in Kinds |-> anonymous[k] + Weight(p, k)]
  /\ UNCHANGED outcome

(* A timeout of an unprotected project: health, not an outcome.             *)
RecordTimeout ==
  /\ tally' = [tally EXCEPT !["timeouts"] = @ + 1]
  /\ anonymous' = [anonymous EXCEPT !["timeouts"] = @ + 1]
  /\ UNCHANGED outcome

Next ==
  \/ \E r \in Requests, p \in Payloads : Finalize(r, p)
  \/ \E p \in Payloads : FinalizeAnonymous(p)
  \/ RecordTimeout

Spec == Init /\ [][Next]_vars
=============================================================================
