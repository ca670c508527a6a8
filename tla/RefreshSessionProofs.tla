------------------------ MODULE RefreshSessionProofs ------------------------
(***************************************************************************)
(* What holds of refresh sessions for any number of sessions and racing    *)
(* calls.  OneLiveSession is not inductive alone: a jti that a call drew    *)
(* must still be free when it is inserted, and a token that a refresh used *)
(* must never be live again.                                               *)
(***************************************************************************)
EXTENDS RefreshSession, TLAPS

(* Calls under way, and their tokens and jtis.                              *)
CallInv ==
  /\ \A c \in Calls : pc[c] # "idle" => token[c] \in Jtis /\ row[token[c]] # "none"
  /\ \A c \in Calls : pc[c] = "rotate" => next[c] \in Jtis /\ row[next[c]] = "none"
  /\ \A b, c \in Calls : next[b] = next[c] /\ next[b] # NoJti => b = c

(* Logins, and the sessions that descend from them.                         *)
LoginInv ==
  /\ \A j \in Jtis : row[j] = "none" => login[j] = NoJti
  /\ \A j \in Jtis : row[j] # "none" => login[j] \in Jtis /\ row[login[j]] # "none"
  /\ \A j \in ended : row[j] # "none"

SpentInv == \A c \in Calls : pc[c] = "refreshed" => row[token[c]] = "revoked"

SessionInv ==
  /\ TypeOK /\ CallInv /\ LoginInv /\ SpentInv
  /\ OneLiveSession /\ TokenUsedOnce /\ LogoutEndsLogin

LEMMA InitSession == Init => SessionInv
BY NoJtiAssumption
DEF Init, SessionInv, TypeOK, CallInv, LoginInv, SpentInv, OneLiveSession, TokenUsedOnce,
    LogoutEndsLogin

LEMMA LoginStep ==
  ASSUME SessionInv, NEW j \in Jtis, Login(j)
  PROVE  SessionInv'
BY NoJtiAssumption
DEF SessionInv, TypeOK, CallInv, LoginInv, SpentInv, OneLiveSession, TokenUsedOnce,
    LogoutEndsLogin, Login, Unused, calls

LEMMA CheckStep ==
  ASSUME SessionInv, NEW c \in Calls,
         StartRefresh(c) \/ CheckSession(c) \/ RefuseRevoked(c) \/ RotateFails(c)
  PROVE  SessionInv'
<1> USE DEF SessionInv, TypeOK, CallInv, LoginInv, SpentInv, OneLiveSession, TokenUsedOnce,
            LogoutEndsLogin, table
<1>1. CASE StartRefresh(c)
  BY <1>1 DEF StartRefresh
<1>2. CASE CheckSession(c)
  BY <1>2, NoJtiAssumption DEF CheckSession, Unused
<1>3. CASE RefuseRevoked(c)
  BY <1>3 DEF RefuseRevoked
<1>4. CASE RotateFails(c)
  BY <1>4 DEF RotateFails
<1> QED BY <1>1, <1>2, <1>3, <1>4

LEMMA RotateStep ==
  ASSUME SessionInv, NEW c \in Calls, Rotate(c)
  PROVE  SessionInv'
<1> USE DEF SessionInv, Rotate
<1> DEFINE old == token[c]
           new == next[c]
<1>1. /\ old \in Jtis /\ new \in Jtis /\ old # new
      /\ row[old] = "live" /\ row[new] = "none"
      /\ login[new] = NoJti /\ login[old] \in Jtis /\ login[old] # new
      /\ row[login[old]] # "none" /\ login[old] \notin ended
  BY DEF TypeOK, CallInv, LoginInv, LogoutEndsLogin
<1>2. \A j \in Jtis :
        /\ row'[j] = IF j = old THEN "revoked" ELSE IF j = new THEN "live" ELSE row[j]
        /\ login'[j] = IF j = new THEN login[old] ELSE login[j]
  BY <1>1 DEF TypeOK
<1>3. TypeOK'
  BY <1>1 DEF TypeOK
<1>4. CallInv'
  BY <1>1, <1>2, NoJtiAssumption DEF CallInv, TypeOK
<1>5. LoginInv'
  BY <1>1, <1>2 DEF LoginInv, TypeOK
<1>6. SpentInv'
  BY <1>1, <1>2 DEF SpentInv, CallInv, TypeOK
<1>7. OneLiveSession'
  BY <1>1, <1>2 DEF OneLiveSession
<1>8. TokenUsedOnce'
  BY <1>1 DEF TokenUsedOnce, SpentInv, TypeOK
<1>9. LogoutEndsLogin'
  <2>1. ended' = ended
    OBVIOUS
  <2>2. ASSUME NEW j \in Jtis, login'[j] \in ended PROVE row'[j] # "live"
    <3>1. CASE j = new
      BY <1>1, <1>2, <2>2, <3>1
    <3>2. CASE j # new
      BY <1>2, <2>2, <3>2 DEF LogoutEndsLogin
    <3> QED BY <3>1, <3>2
  <2> QED BY <2>1, <2>2 DEF LogoutEndsLogin
<1> QED BY <1>3, <1>4, <1>5, <1>6, <1>7, <1>8, <1>9

LEMMA LogoutStep ==
  ASSUME SessionInv, NEW j \in Jtis, Logout(j) \/ Expire(j)
  PROVE  SessionInv'
BY DEF SessionInv, TypeOK, CallInv, LoginInv, SpentInv, OneLiveSession, TokenUsedOnce,
       LogoutEndsLogin, Logout, Expire, calls, table

(* Sessions, tokens and calls stay consistent for any number of racing calls. *)
THEOREM SessionInvariant == Spec => []SessionInv
<1>1. ASSUME SessionInv, [Next]_vars PROVE SessionInv'
  <2>1. CASE Next
    BY <1>1, <2>1, LoginStep, CheckStep, RotateStep, LogoutStep DEF Next, Refresh
  <2>2. CASE UNCHANGED vars
    BY <1>1, <2>2
    DEF vars, calls, table, SessionInv, TypeOK, CallInv, LoginInv, SpentInv, OneLiveSession,
        TokenUsedOnce, LogoutEndsLogin
  <2> QED BY <1>1, <2>1, <2>2
<1> QED BY <1>1, InitSession, PTL DEF Spec

(* At most one live session descends from a login, whatever races.          *)
THEOREM OneLiveSessionHolds == Spec => []OneLiveSession
<1>1. SessionInv => OneLiveSession
  BY DEF SessionInv
<1> QED BY <1>1, SessionInvariant, PTL

(* A refresh token is good for one refresh.                                 *)
THEOREM TokenUsedOnceHolds == Spec => []TokenUsedOnce
<1>1. SessionInv => TokenUsedOnce
  BY DEF SessionInv
<1> QED BY <1>1, SessionInvariant, PTL

(* No refresh revives a login that a logout has ended.                      *)
THEOREM LogoutEndsLoginHolds == Spec => []LogoutEndsLogin
<1>1. SessionInv => LogoutEndsLogin
  BY DEF SessionInv
<1> QED BY <1>1, SessionInvariant, PTL

-----------------------------------------------------------------------------
(* The contract of refresh sessions.                                        *)

(* In a state of the system a login has no live session but its latest.     *)
LEMMA SoleSession ==
  ASSUME SessionInv, NEW j \in Jtis, row[j] = "live"
  PROVE  login[j] \in Jtis /\ LiveOf(login[j]) = {j}
BY DEF SessionInv, LoginInv, OneLiveSession, LiveOf

LEMMA InitContract == Init => Contract!Init
BY DEF Init, Contract!Init, LiveOf

(* A login opens the one that its first session names.                      *)
LEMMA LoginOpens ==
  ASSUME SessionInv, NEW j \in Jtis, Login(j)
  PROVE  Contract!Open(j)
<1>1. \A k \in Jtis : row'[k] = "live" /\ login'[k] = j <=> k = j
  BY NoJtiAssumption DEF Login, Unused, SessionInv, TypeOK, LoginInv
<1>2. ASSUME NEW l \in Jtis, l # j PROVE LiveOf(l)' = LiveOf(l)
  BY <1>2 DEF Login, Unused, SessionInv, TypeOK, LiveOf
<1>3. LiveOf(j)' = {j}
  BY <1>1 DEF LiveOf
<1>4. {k \in Jtis : row'[k] # "none"} = {k \in Jtis : row[k] # "none"} \cup {j}
  BY DEF Login, SessionInv, TypeOK
<1> QED BY <1>2, <1>3, <1>4 DEF Contract!Open, Contract!Issue, Login, Unused

(* The conditional UPDATE renews: what it found live was the login's only   *)
(* session, and the jti it inserts is still free.                           *)
LEMMA RotateRenews ==
  ASSUME SessionInv, NEW c \in Calls, Rotate(c)
  PROVE  \E l, old, new \in Jtis : Contract!Renew(l, old, new)
<1>1. PICK l, old, new \in Jtis :
        /\ old = token[c] /\ new = next[c] /\ l = login[old] /\ old # new
        /\ row[old] = "live" /\ row[new] = "none"
  BY DEF Rotate, SessionInv, TypeOK, CallInv, LoginInv
<1>2. \A j \in Jtis :
        /\ row'[j] = IF j = old THEN "revoked" ELSE IF j = new THEN "live" ELSE row[j]
        /\ login'[j] = IF j = new THEN l ELSE login[j]
  BY <1>1 DEF Rotate, SessionInv, TypeOK
<1>3. LiveOf(l) = {old}
  BY <1>1, SoleSession
<1>4. LiveOf(l)' = {new}
  BY <1>1, <1>2, <1>3 DEF LiveOf
<1>5. ASSUME NEW m \in Jtis, m # l PROVE LiveOf(m)' = LiveOf(m)
  BY <1>1, <1>2, <1>5 DEF LiveOf
<1>6. {j \in Jtis : row'[j] # "none"} = {j \in Jtis : row[j] # "none"} \cup {new}
  BY <1>1, <1>2
<1>7. Contract!Renew(l, old, new)
  BY <1>1, <1>3, <1>4, <1>5, <1>6 DEF Contract!Renew, Contract!Issue, Rotate
<1> QED BY <1>7

LEMMA LogoutCloses ==
  ASSUME SessionInv, NEW j \in Jtis, Logout(j)
  PROVE  Contract!Close(login[j])
<1>1. login[j] \in Jtis /\ LiveOf(login[j]) = {j}
  BY SoleSession DEF Logout
<1>2. \A k \in Jtis : row'[k] = IF k = j THEN "revoked" ELSE row[k]
  BY DEF Logout, SessionInv, TypeOK
<1>3. login' = login /\ replaced' = replaced /\ row[j] = "live"
  BY DEF Logout
<1>4. LiveOf(login[j])' = {}
  BY <1>1, <1>2, <1>3 DEF LiveOf
<1>5. ASSUME NEW m \in Jtis, m # login[j] PROVE LiveOf(m)' = LiveOf(m)
  BY <1>2, <1>3, <1>5 DEF LiveOf
<1>6. {k \in Jtis : row'[k] # "none"} = {k \in Jtis : row[k] # "none"}
  BY <1>2, <1>3
<1> QED BY <1>1, <1>3, <1>4, <1>5, <1>6 DEF Contract!Close

(* Every other step leaves the rows alone.                                  *)
LEMMA RestStutters ==
  ASSUME UNCHANGED <<table, login>>
  PROVE  UNCHANGED Contract!contract
BY DEF table, Contract!contract, LiveOf

(* Refreshes that check in one transaction and write in another, for any    *)
(* number of sessions and racing calls, hand a login on from one session to *)
(* one new session at a time, and a logout ends it for good.                *)
THEOREM KeepsContractHolds == Spec => KeepsContract
<1>1. ASSUME SessionInv, [Next]_vars PROVE [Contract!Next]_(Contract!contract)
  <2>1. ASSUME NEW j \in Jtis, Login(j) PROVE Contract!Next
    BY <2>1, <1>1, LoginOpens DEF Contract!Next
  <2>2. ASSUME NEW c \in Calls, Rotate(c) PROVE Contract!Next
    BY <1>1, <2>2, RotateRenews DEF Contract!Next
  <2>3. ASSUME NEW j \in Jtis, Logout(j) PROVE Contract!Next
    <3>1. login[j] \in Jtis
      BY <1>1, <2>3, SoleSession DEF Logout
    <3> QED BY <1>1, <2>3, <3>1, LogoutCloses DEF Contract!Next
  <2>4. ASSUME NEW c \in Calls, StartRefresh(c) \/ CheckSession(c) \/ RefuseRevoked(c) \/ RotateFails(c)
        PROVE  UNCHANGED <<table, login>>
    BY <2>4 DEF StartRefresh, CheckSession, RefuseRevoked, RotateFails
  <2>5. ASSUME NEW j \in Jtis, Expire(j) PROVE UNCHANGED <<table, login>>
    BY <2>5 DEF Expire
  <2>6. CASE UNCHANGED vars
    BY <2>6, RestStutters DEF vars
  <2> QED BY <1>1, <2>1, <2>2, <2>3, <2>4, <2>5, <2>6, RestStutters DEF Next, Refresh
<1> QED BY <1>1, InitContract, SessionInvariant, PTL DEF Spec, KeepsContract, Contract!Spec
=============================================================================
