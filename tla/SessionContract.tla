--------------------------- MODULE SessionContract ---------------------------
(***************************************************************************)
(* What refresh sessions promise, without rows, transactions or racing      *)
(* calls: a login has one good session until it is closed; a renewal gives  *)
(* it to a session never seen before, which the old one names as its heir;  *)
(* a closed login is never opened again.                                    *)
(***************************************************************************)
CONSTANTS Jtis, NoJti

VARIABLES
  issued,  (* the sessions there ever were                                   *)
  good,    (* good[l]: the sessions of login l that are not revoked          *)
  heir     (* heir[j]: the session that took the place of j                  *)

contract == <<issued, good, heir>>

Issue(j) == j \notin issued /\ issued' = issued \cup {j}

Init ==
  /\ issued = {}
  /\ good = [l \in Jtis |-> {}]
  /\ heir = [j \in Jtis |-> NoJti]

(* A login is named by its first session.                                   *)
Open(l) ==
  /\ Issue(l)
  /\ good' = [good EXCEPT ![l] = {l}]
  /\ UNCHANGED heir

Renew(l, old, new) ==
  /\ good[l] = {old}
  /\ Issue(new)
  /\ good' = [good EXCEPT ![l] = {new}]
  /\ heir' = [heir EXCEPT ![old] = new]

Close(l) ==
  /\ good[l] # {}
  /\ good' = [good EXCEPT ![l] = {}]
  /\ UNCHANGED <<issued, heir>>

Next ==
  \E l \in Jtis :
    \/ Open(l)
    \/ \E old, new \in Jtis : Renew(l, old, new)
    \/ Close(l)

Spec == Init /\ [][Next]_contract
=============================================================================
