--------------------------- MODULE IngestContract ---------------------------
(***************************************************************************)
(* What POST /api/v1/events promises to the caller of one post: a 202 that  *)
(* is not a duplicate's means the row is stored, a 4xx means that it is not, *)
(* and a 5xx or a broken connection says nothing.                            *)
(***************************************************************************)
EXTENDS FiniteSets

CONSTANTS
  Posts,   (* HTTP requests                                                  *)
  Keyed    (* the posts that may be answered as duplicates                   *)

VARIABLES
  rows,    (* posts whose row is stored                                      *)
  status   (* status[p]: what became of post p                               *)

contract == <<rows, status>>

Become(p, from, to) == status[p] = from /\ status' = [status EXCEPT ![p] = to]

Init ==
  /\ rows = {}
  /\ status = [p \in Posts |-> "unsent"]

Take(p) == Become(p, "unsent", "open") /\ UNCHANGED rows

Refuse(p) == Become(p, "open", "refused") /\ UNCHANGED rows

Repeat(p) == p \in Keyed /\ Become(p, "open", "duplicate") /\ UNCHANGED rows

Store(p) == Become(p, "open", "stored") /\ rows' = rows \cup {p}

Accept(p) == Become(p, "stored", "accepted") /\ UNCHANGED rows

Fail(p) == (Become(p, "open", "failed") \/ Become(p, "stored", "failed")) /\ UNCHANGED rows

Decide(p) == Refuse(p) \/ Repeat(p) \/ Store(p) \/ Accept(p) \/ Fail(p)

Next == \E p \in Posts : Take(p) \/ Decide(p)

Spec == Init /\ [][Next]_contract
=============================================================================
