--------------------------- MODULE RefreshSession ---------------------------
(***************************************************************************)
(* Refresh sessions: a login creates a session row, a refresh revokes the  *)
(* session of its token and inserts the replacement, a logout revokes.     *)
(* AuthService.refresh reads the row in one transaction and rotates it in  *)
(* another, so refreshes and logouts with the same token interleave.       *)
(***************************************************************************)
CONSTANTS
  Jtis,    (* session ids: uuid4, never drawn twice                         *)
  Calls,   (* calls of AuthService.refresh                                  *)
  NoJti

ASSUME NoJtiAssumption == NoJti \notin Jtis

VARIABLES
  row,       (* row[j]: "none", "live" (revoked_at null) or "revoked"       *)
  replaced,  (* replaced[j]: replaced_by_jti                                *)
  expired,   (* the sessions whose expires_at has passed                    *)
  pc,        (* pc[c]: where refresh c is                                   *)
  token,     (* token[c]: the jti in the refresh token c presents           *)
  next,      (* next[c]: the jti of the session c is to insert              *)
  login,     (* login[j]: the session of the login that j descends from     *)
  ended      (* the logins whose live session a logout revoked              *)

table == <<row, replaced>>
calls == <<pc, token, next>>
vars == <<table, expired, calls, login, ended>>

TypeOK ==
  /\ row \in [Jtis -> {"none", "live", "revoked"}]
  /\ replaced \in [Jtis -> Jtis \cup {NoJti}]
  /\ expired \subseteq Jtis
  /\ pc \in [Calls -> {"idle", "check", "rotate", "refreshed", "refused"}]
  /\ token \in [Calls -> Jtis \cup {NoJti}]
  /\ next \in [Calls -> Jtis \cup {NoJti}]
  /\ login \in [Jtis -> Jtis \cup {NoJti}]
  /\ ended \subseteq Jtis

Init ==
  /\ row = [j \in Jtis |-> "none"]
  /\ replaced = [j \in Jtis |-> NoJti]
  /\ expired = {}
  /\ pc = [c \in Calls |-> "idle"]
  /\ token = [c \in Calls |-> NoJti]
  /\ next = [c \in Calls |-> NoJti]
  /\ login = [j \in Jtis |-> NoJti]
  /\ ended = {}

Unused(j) == row[j] = "none" /\ \A c \in Calls : next[c] # j

(* AuthService.login: create_session commits the row, then the client gets  *)
(* the token.                                                               *)
Login(j) ==
  /\ Unused(j)
  /\ row' = [row EXCEPT ![j] = "live"]
  /\ login' = [login EXCEPT ![j] = j]
  /\ UNCHANGED <<replaced, expired, calls, ended>>

(* A refresh arrives with a token whose signature and expiry are good.      *)
StartRefresh(c) ==
  /\ pc[c] = "idle"
  /\ \E j \in Jtis \ expired :
       /\ row[j] # "none"
       /\ token' = [token EXCEPT ![c] = j]
  /\ pc' = [pc EXCEPT ![c] = "check"]
  /\ UNCHANGED <<table, expired, next, login, ended>>

(* get_by_jti, and the fresh jti of _build_refresh_session.                 *)
CheckSession(c) ==
  /\ pc[c] = "check"
  /\ row[token[c]] = "live"
  /\ \E j \in Jtis : Unused(j) /\ next' = [next EXCEPT ![c] = j]
  /\ pc' = [pc EXCEPT ![c] = "rotate"]
  /\ UNCHANGED <<table, expired, token, login, ended>>

RefuseRevoked(c) ==
  /\ pc[c] = "check"
  /\ row[token[c]] # "live"
  /\ pc' = [pc EXCEPT ![c] = "refused"]
  /\ UNCHANGED <<table, expired, token, next, login, ended>>

(* Faulty form: the UPDATE trusts the earlier read of revoked_at.            *)
RotateChecked(c) ==
  /\ pc[c] = "rotate"
  /\ token[c] \notin expired
  /\ row' = [row EXCEPT ![token[c]] = "revoked", ![next[c]] = "live"]
  /\ replaced' = [replaced EXCEPT ![token[c]] = next[c]]
  /\ login' = [login EXCEPT ![next[c]] = login[token[c]]]
  /\ pc' = [pc EXCEPT ![c] = "refreshed"]
  /\ UNCHANGED <<expired, token, next, ended>>

(* rotate_session: one transaction whose UPDATE is conditional on revoked_at *)
(* being null still, and not on what the check read.                        *)
Rotate(c) ==
  /\ pc[c] = "rotate"
  /\ row[token[c]] = "live" /\ token[c] \notin expired
  /\ row' = [row EXCEPT ![token[c]] = "revoked", ![next[c]] = "live"]
  /\ replaced' = [replaced EXCEPT ![token[c]] = next[c]]
  /\ login' = [login EXCEPT ![next[c]] = login[token[c]]]
  /\ pc' = [pc EXCEPT ![c] = "refreshed"]
  /\ UNCHANGED <<expired, token, next, ended>>

(* No row matched, or the transaction raised and was rolled back.           *)
RotateFails(c) ==
  /\ pc[c] = "rotate"
  /\ pc' = [pc EXCEPT ![c] = "refused"]
  /\ UNCHANGED <<table, expired, token, next, login, ended>>

(* Faulty form: a logout is remembered for its session, and not revoked.     *)
LogoutKeepsRow(j) ==
  /\ row[j] = "live" /\ j \notin expired
  /\ ended' = ended \cup {login[j]}
  /\ UNCHANGED <<table, expired, calls, login>>

(* logout: revoke_session, one conditional UPDATE; a logout whose token was *)
(* rotated already changes nothing.                                         *)
Logout(j) ==
  /\ row[j] = "live" /\ j \notin expired
  /\ row' = [row EXCEPT ![j] = "revoked"]
  /\ ended' = ended \cup {login[j]}
  /\ UNCHANGED <<replaced, expired, calls, login>>

Expire(j) ==
  /\ row[j] # "none" /\ j \notin expired
  /\ expired' = expired \cup {j}
  /\ UNCHANGED <<table, calls, login, ended>>

Refresh(c) ==
  StartRefresh(c) \/ CheckSession(c) \/ RefuseRevoked(c) \/ Rotate(c) \/ RotateFails(c)

Next ==
  \/ \E c \in Calls : Refresh(c)
  \/ \E j \in Jtis : Login(j) \/ Logout(j) \/ Expire(j)

Spec == Init /\ [][Next]_vars
-----------------------------------------------------------------------------
(* Properties.                                                              *)

(* However many refreshes of one login race, at most one session that       *)
(* descends from it is live: a copied token and its replacement are never   *)
(* both good.                                                               *)
OneLiveSession ==
  \A j, k \in Jtis :
    row[j] = "live" /\ row[k] = "live" /\ login[j] = login[k] => j = k

(* Of several refreshes with the same token one at most succeeds.           *)
TokenUsedOnce ==
  \A b, c \in Calls :
    pc[b] = "refreshed" /\ pc[c] = "refreshed" /\ token[b] = token[c] => b = c

(* A logout that revoked a session ends its login for good, also when a     *)
(* refresh had already found the session live.                              *)
LogoutEndsLogin == \A j \in Jtis : login[j] \in ended => row[j] # "live"

LiveOf(l) == {j \in Jtis : row[j] = "live" /\ login[j] = l}

Contract == INSTANCE SessionContract WITH
  issued <- {j \in Jtis : row[j] # "none"},
  good <- [l \in Jtis |-> LiveOf(l)],
  heir <- replaced

(* The whole promise in one: racing refreshes and logouts, whose reads are  *)
(* stale when they write, still hand a login on from one session to one new *)
(* session at a time, record which, and never reopen it.                    *)
KeepsContract == Contract!Spec
=============================================================================
