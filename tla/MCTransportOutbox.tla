------------------------- MODULE MCTransportOutbox -------------------------
(* Model values and bounds for the runs of TransportOutbox.                 *)
EXTENDS TransportOutbox, TLC

CONSTANTS hook, test, alarm, note, c1, c2, c3, w1, w2

(* A webhook whose death is reported by an email.                           *)
MCHook == {hook}
MCAlarm == {alarm}
(* A second webhook (say a webhook test), whose death is not reported.      *)
MCHooks == {hook, test}
(* A second email, which the API enqueues itself.                           *)
MCMails == {alarm, note}
MCFailureEmail == hook :> alarm

MCCalls == {c1, c2, c3}
MCTwoCalls == {c1, c2}
MCWorkers == {w1, w2}
MCSymmetry == Permutations(MCCalls) \cup Permutations(MCWorkers)
=============================================================================
