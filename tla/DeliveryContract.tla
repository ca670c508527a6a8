-------------------------- MODULE DeliveryContract --------------------------
(***************************************************************************)
(* What the outbox promises of a notification, without jobs, claims or      *)
(* workers: it is sent once per attempt and at most so often, it is given   *)
(* up only when its attempts are spent, and what is settled stays settled.  *)
(***************************************************************************)
EXTENDS Integers

CONSTANTS
  Notices,
  Single,           (* the notices that are not tried again                  *)
  Limit(_),         (* Limit(n): the attempts that notice n has              *)
  ReportOf,         (* ReportOf[n]: the notice that reports the death of n   *)
  Forgetful         (* a delivery may fail to be recorded                    *)

VARIABLES
  state,     (* state[n]: "none", "open", "delivered" or "dead"              *)
  attempts,
  accepted   (* accepted[n]: times the receiver took notice n                *)

contract == <<state, attempts, accepted>>

Init ==
  /\ state = [n \in Notices |-> "none"]
  /\ attempts = [n \in Notices |-> 0]
  /\ accepted = [n \in Notices |-> 0]

Become(n, from, to) == state[n] = from /\ state' = [state EXCEPT ![n] = to]

Spent(n) == attempts[n] = Limit(n) \/ (n \in Single /\ attempts[n] > 0)

(* A report is submitted once its subject is dead, and not before.          *)
Submit(n) ==
  /\ Become(n, "none", "open")
  /\ \A m \in DOMAIN ReportOf : ReportOf[m] = n => state[m] = "dead"
  /\ UNCHANGED <<attempts, accepted>>

Attempt(n) ==
  /\ state[n] = "open" /\ attempts[n] < Limit(n)
  /\ attempts' = [attempts EXCEPT ![n] = @ + 1]
  /\ UNCHANGED <<state, accepted>>

Accept(n) ==
  /\ state[n] = "open" /\ accepted[n] < attempts[n]
  /\ accepted' = [accepted EXCEPT ![n] = @ + 1]
  /\ UNCHANGED <<state, attempts>>

(* Delivered, after an attempt at least.                                    *)
Succeed(n) ==
  /\ attempts[n] > 0
  /\ Become(n, "open", "delivered")
  /\ UNCHANGED <<attempts, accepted>>

GiveUp(n) == Spent(n) /\ Become(n, "open", "dead") /\ UNCHANGED <<attempts, accepted>>

(* The record of a delivery reports an error that came after its commit.    *)
Forget(n) ==
  /\ Forgetful
  /\ \/ Become(n, "delivered", "open")
     \/ Spent(n) /\ Become(n, "delivered", "dead")
  /\ UNCHANGED <<attempts, accepted>>

Next ==
  \E n \in Notices :
    Submit(n) \/ Attempt(n) \/ Accept(n) \/ Succeed(n) \/ GiveUp(n) \/ Forget(n)

Spec == Init /\ [][Next]_contract
=============================================================================
