----------------------- MODULE ProtectEndpointsProofs -----------------------
(* Invariants of the protect endpoints, for any number of requests.           *)
EXTENDS ProtectEndpoints, FiniteSetTheorems, TLAPS

(* A call is the live decision or the fallback report of one request.         *)
LEMMA CallsAreDistinct ==
  ASSUME NEW r \in Requests, NEW s \in Requests
  PROVE  /\ Live(r) \in Calls /\ Fallback(r) \in Calls
         /\ Live(r) # Fallback(s)
         /\ Live(r) = Live(s) => r = s
         /\ Fallback(r) = Fallback(s) => r = s
         /\ Live(r)[1] = r /\ Live(r)[2] = "live"
         /\ Fallback(r)[1] = r /\ Fallback(r)[2] = "fallback"
         /\ Live(r) # NoWriter /\ Fallback(r) # NoWriter
BY RequestsAssumption DEF Live, Fallback, Calls, NoWriter

LEMMA CallIsLiveOrFallback ==
  ASSUME NEW c \in Calls
  PROVE  c[1] \in Requests /\ (c = Live(c[1]) \/ c = Fallback(c[1]))
BY DEF Calls, Live, Fallback

(* The steps of the types: each action of Next changes its variables within    *)
(* their types.                                                              *)
LEMMA TypeStep == TypeOK /\ [Next]_vars => TypeOK'
<1> SUFFICES ASSUME TypeOK, [Next]_vars PROVE TypeOK'
  OBVIOUS
<1> USE ReasonsAssumption, CallsAreDistinct DEF TypeOK, At, Goto, OnCooldown, Steps, Ends, Blocks
<1>1. ASSUME NEW r \in Requests, Decide(r) PROVE TypeOK'
  <2>1. CASE Evaluate(r) BY <2>1 DEF Evaluate, Judge, keys, incidents, history
  <2>2. CASE EvaluateBlindly(r) BY <2>2 DEF EvaluateBlindly, Judge, keys, incidents, history
  <2>3. CASE FinalizeLive(r)
    <3>1. Decided(r) \in {"allow", "block"} /\ AfterLive(r) \in {"set_cooldown", "look_up", "done"}
      BY DEF Decided, AfterLive
    <3>2. disturbed' \in BOOLEAN
      BY <2>3, Zenon DEF FinalizeLive
    <3> QED BY <2>3, <3>1, <3>2 DEF FinalizeLive, incidents, history
  <2>4. CASE FinalizeLiveRaises(r)
    BY <2>4 DEF FinalizeLiveRaises, Decided, keys, incidents, history
  <2>5. CASE SetCooldown(r) BY <2>5 DEF SetCooldown, incidents, history
  <2>6. CASE SetOwner(r) BY <2>6 DEF SetOwner, incidents, history
  <2> QED BY <1>1, <2>1, <2>2, <2>3, <2>4, <2>5, <2>6 DEF Decide
<1>2. ASSUME NEW r \in Requests, FallBack(r) PROVE TypeOK'
  <2>1. CASE FinalizeFallback(r)
    BY <2>1 DEF FinalizeFallback, Overlaps, FallbackOutcome, incidents
  <2>2. CASE FinalizeFallbackRaises(r)
    BY <2>2 DEF FinalizeFallbackRaises, FallbackOutcome, incidents, history
  <2>3. CASE CompareOwner(r) BY <2>3 DEF CompareOwner, keys, incidents, history
  <2>4. CASE DeleteCooldown(r) BY <2>4 DEF DeleteCooldown, incidents, history
  <2>5. CASE DeleteOwner(r) BY <2>5 DEF DeleteOwner, incidents, history
  <2>6. CASE ListIncidents(r) BY <2>6 DEF ListIncidents, OfSuperseded, Open, keys, incidents
  <2>7. CASE ResolveSuperseded(r) BY <2>7 DEF ResolveSuperseded, keys, history
  <2> QED BY <1>2, <2>1, <2>2, <2>3, <2>4, <2>5, <2>6, <2>7 DEF FallBack
<1>3. ASSUME NEW c \in Calls, Record(c) PROVE TypeOK'
  <2>1. CASE LookUp(c) BY <2>1 DEF LookUp, Candidates, Open, keys, incidents
  <2>2. CASE WriteIncident(c)
    BY <2>2, CallIsLiveOrFallback DEF WriteIncident, Open, keys, history
  <2>3. CASE CooldownRaises(c) BY <2>3 DEF CooldownRaises, incidents, history
  <2>4. CASE Abandon(c) BY <2>4 DEF Abandon, incidents, history
  <2> QED BY <1>3, <2>1, <2>2, <2>3, <2>4 DEF Record
<1>4. CASE Pass
  BY <1>4 DEF Pass, Resolve, PassWindow, AutoClose, CooldownExpires, OwnerExpires, Open,
              keys, incidents, history
<1>5. CASE UNCHANGED vars BY <1>5 DEF vars, keys, incidents, history
<1> QED BY <1>1, <1>2, <1>3, <1>4, <1>5 DEF Next

LEMMA TypeInit == Init => TypeOK
<1> SUFFICES ASSUME Init PROVE TypeOK
  OBVIOUS
<1>1. \A b \in {disturbed, crowded} : b \in BOOLEAN
  BY DEF Init
<1>2. prompt \subseteq Requests /\ late \subseteq Requests /\ recent \subseteq Requests
  BY DEF Init
<1>3. writer \in [Requests -> Calls \cup {NoWriter}] /\ found \in [Calls -> SUBSET Requests]
  BY DEF Init
<1> QED BY <1>1, <1>2, <1>3 DEF Init, TypeOK, Steps, Ends, Blocks

(* Every variable keeps its type, whatever the requests, reasons and modes.    *)
THEOREM TypeCorrect == Spec => []TypeOK
BY TypeInit, TypeStep, PTL DEF Spec

-----------------------------------------------------------------------------
(* Late decisions.  A decision that is not finalized has left no trace, and    *)
(* one that meets a fallback leaves none: incidents are opened and named only  *)
(* by a task, and what a task has read was opened before.                     *)

Nothing(r) ==
  /\ r \notin {cooldown, owner}
  /\ status[r] = "none"
  /\ \A i \in Requests : writer[i] # Live(r)

LateInv ==
  /\ \A r \in Requests : pc[Live(r)] \in {"idle", "finalize"} => Nothing(r)
  /\ \A r \in late :
       /\ Nothing(r)
       /\ outcome[r] \in {"fallback_allow", "fallback_block"}
       /\ pc[Live(r)] \in {"idle", "finalize"} \cup Ends
       /\ pc[Fallback(r)] # "idle"
  /\ \A r \in Requests : pc[Fallback(r)] = "write" => found[Fallback(r)] # {}
  /\ \A c \in Calls : \A i \in found[c] : status[i] # "none"

LEMMA LateStep == TypeOK /\ LateInv /\ [Next]_vars => LateInv'
<1> SUFFICES ASSUME TypeOK, LateInv, [Next]_vars PROVE LateInv'
  OBVIOUS
<1> USE CallsAreDistinct DEF TypeOK, LateInv, Nothing, At, Goto, OnCooldown, Steps, Ends, Blocks
<1>1. ASSUME NEW r \in Requests, Decide(r) PROVE LateInv'
  <2>1. CASE Evaluate(r) BY <2>1 DEF Evaluate, Judge, keys, incidents, history
  <2>2. CASE EvaluateBlindly(r) BY <2>2 DEF EvaluateBlindly, Judge, keys, incidents, history
  <2>3. CASE FinalizeLive(r) BY <2>3 DEF FinalizeLive, AfterLive, incidents, history
  <2>4. CASE FinalizeLiveRaises(r) BY <2>4 DEF FinalizeLiveRaises, keys, incidents, history
  <2>5. CASE SetCooldown(r) BY <2>5 DEF SetCooldown, incidents, history
  <2>6. CASE SetOwner(r) BY <2>6 DEF SetOwner, incidents, history
  <2> QED BY <1>1, <2>1, <2>2, <2>3, <2>4, <2>5, <2>6 DEF Decide
<1>2. ASSUME NEW r \in Requests, FallBack(r) PROVE LateInv'
  <2>1. CASE FinalizeFallback(r) BY <2>1 DEF FinalizeFallback, FallbackOutcome, incidents
  <2>2. CASE FinalizeFallbackRaises(r) BY <2>2 DEF FinalizeFallbackRaises, incidents, history
  <2>3. CASE CompareOwner(r) BY <2>3 DEF CompareOwner, keys, incidents, history
  <2>4. CASE DeleteCooldown(r) BY <2>4, RequestsAssumption DEF DeleteCooldown, incidents, history
  <2>5. CASE DeleteOwner(r) BY <2>5, RequestsAssumption DEF DeleteOwner, incidents, history
  <2>6. CASE ListIncidents(r) BY <2>6 DEF ListIncidents, OfSuperseded, Open, keys, incidents
  <2>7. CASE ResolveSuperseded(r) BY <2>7 DEF ResolveSuperseded, keys, history
  <2> QED BY <1>2, <2>1, <2>2, <2>3, <2>4, <2>5, <2>6, <2>7 DEF FallBack
<1>3. ASSUME NEW c \in Calls, Record(c) PROVE LateInv'
  <2>0. c[1] \in Requests /\ (c = Live(c[1]) \/ c = Fallback(c[1]))
    BY CallIsLiveOrFallback
  <2>1. CASE LookUp(c)
    <3>1. Candidates(c) \subseteq {i \in Requests : status[i] = "open"}
      BY DEF Candidates, Open
    <3>2. PICK f \in SUBSET Candidates(c) :
            found' = [found EXCEPT ![c] = f] /\ (f = {} => Candidates(c) = {})
      <4>1. CASE Candidates(c) = {}
        <5> found' = [found EXCEPT ![c] = {}] BY <2>1, <4>1 DEF LookUp
        <5> QED BY <4>1
      <4>2. CASE Candidates(c) # {}
        <5>1. PICK i \in Candidates(c) : found' = [found EXCEPT ![c] = {i}]
          BY <2>1, <4>2 DEF LookUp
        <5> {i} \in SUBSET Candidates(c) /\ {i} # {} OBVIOUS
        <5> QED BY <5>1
      <4> QED BY <4>1, <4>2
    <3>3. c[2] = "fallback" /\ pc'[c] = "write" => found'[c] # {}
      BY <2>1, <3>2 DEF LookUp, OpensOne
    <3>4. \A i \in found'[c] : status[i] # "none"
      BY <3>1, <3>2
    <3> HIDE DEF Candidates
    <3> QED BY <2>0, <2>1, <3>2, <3>3, <3>4 DEF LookUp, keys, incidents
  <2>2. CASE WriteIncident(c) BY <2>0, <2>2 DEF WriteIncident, Open, keys, history
  <2>3. CASE CooldownRaises(c) BY <2>0, <2>3 DEF CooldownRaises, incidents, history
  <2>4. CASE Abandon(c) BY <2>0, <2>4 DEF Abandon, incidents, history
  <2> QED BY <1>3, <2>1, <2>2, <2>3, <2>4 DEF Record
<1>4. CASE Pass
  BY <1>4, RequestsAssumption
     DEF Pass, Resolve, PassWindow, AutoClose, CooldownExpires, OwnerExpires, Open,
         keys, incidents, history
<1>5. CASE UNCHANGED vars BY <1>5 DEF vars, keys, incidents, history
<1> QED BY <1>1, <1>2, <1>3, <1>4, <1>5 DEF Next

(* A decision that comes after the fallback of its request is never acted     *)
(* upon, whatever is going on for other requests.                             *)
THEOREM LateBlockLeavesNothingHolds == Spec => []LateBlockLeavesNothing
<1>1. Init => TypeOK /\ LateInv
  BY TypeInit, CallsAreDistinct, RequestsAssumption DEF Init, LateInv, Nothing, NoWriter
<1>2. TypeOK /\ LateInv => LateBlockLeavesNothing
  BY DEF LateInv, Nothing, LateBlockLeavesNothing
<1> QED BY <1>1, <1>2, TypeStep, LateStep, PTL DEF Spec

-----------------------------------------------------------------------------
(* The cooldown.  While its updates neither overlap nor fail, one call at most *)
(* is at the two keys; the owner is the cooldown's except in the middle of     *)
(* that call, and so the comparison tells whose cooldown it is.               *)

CooldownInv ==
  ~ disturbed =>
    /\ \A c, d \in Calls : pc[c] \in OnCooldown /\ pc[d] \in OnCooldown => c = d
    /\ \A r \in Requests :
         /\ pc[Live(r)] \in {"set_cooldown", "set_owner"} => outcome[r] \in Blocks
         /\ pc[Live(r)] = "set_owner" => cooldown \in {r, NoRequest}
         /\ pc[Fallback(r)] = "del_cooldown" => cooldown \in {r, NoRequest}
         /\ pc[Fallback(r)] = "del_owner" => cooldown = NoRequest
         /\ pc[Fallback(r)] = "idle" => outcome[r] \notin {"fallback_allow", "fallback_block"}
         /\ cooldown = r =>
              /\ owner = r \/ pc[Live(r)] = "set_owner"
              /\ pc[Live(r)] \notin {"idle", "finalize", "set_cooldown"}
              /\ outcome[r] \in Blocks \/ pc[Fallback(r)] \in {"compare", "del_cooldown"}

LEMMA CooldownStep == TypeOK /\ CooldownInv /\ [Next]_vars => CooldownInv'
<1> SUFFICES ASSUME TypeOK, CooldownInv, [Next]_vars, ~ disturbed' PROVE CooldownInv'
  BY DEF CooldownInv
<1>0. disturbed => disturbed'
  BY DEF Next, Decide, FallBack, Record, Pass, Evaluate, EvaluateBlindly, Judge, FinalizeLive,
         FinalizeLiveRaises, SetCooldown, SetOwner, FinalizeFallback, FinalizeFallbackRaises,
         CompareOwner, DeleteCooldown, DeleteOwner, ListIncidents, ResolveSuperseded, LookUp,
         WriteIncident, CooldownRaises, Abandon, Resolve, AutoClose, PassWindow,
         CooldownExpires, OwnerExpires, vars, keys
<1> USE <1>0, RequestsAssumption, CallsAreDistinct
    DEF TypeOK, CooldownInv, At, Goto, OnCooldown, Blocks, Overlaps
<1>1. ASSUME NEW r \in Requests, Decide(r) PROVE CooldownInv'
  <2>1. CASE Evaluate(r) BY <2>1 DEF Evaluate, Judge, keys
  <2>2. CASE EvaluateBlindly(r) BY <2>2 DEF EvaluateBlindly, Judge, keys
  <2>3. CASE FinalizeLive(r)
    <3>1. CASE outcome[r] # "none"
      BY <2>3, <3>1 DEF FinalizeLive
    <3>2. CASE outcome[r] = "none" /\ verdict[r] \in CapReasons
      <4>1. Decided(r) = "block" /\ AfterLive(r) = "set_cooldown"
        BY <3>2, ReasonsAssumption DEF Decided, AfterLive
      <4>2. \A d \in Calls : d # Live(r) => pc[d] \notin OnCooldown
        BY <2>3, <3>2 DEF FinalizeLive
      <4> QED BY <2>3, <3>2, <4>1, <4>2 DEF FinalizeLive
    <3>3. CASE outcome[r] = "none" /\ verdict[r] \notin CapReasons
      <4>1. Decided(r) \in {"allow", "block"} /\ AfterLive(r) \in {"look_up", "done"}
        BY <3>3 DEF Decided, AfterLive
      <4> QED BY <2>3, <3>3, <4>1 DEF FinalizeLive
    <3> QED BY <3>1, <3>2, <3>3
  <2>4. CASE FinalizeLiveRaises(r) BY <2>4 DEF FinalizeLiveRaises, Decided, keys
  <2>5. CASE SetCooldown(r) BY <2>5 DEF SetCooldown
  <2>6. CASE SetOwner(r) BY <2>6 DEF SetOwner
  <2> QED BY <1>1, <2>1, <2>2, <2>3, <2>4, <2>5, <2>6 DEF Decide
<1>2. ASSUME NEW r \in Requests, FallBack(r) PROVE CooldownInv'
  <2>1. CASE FinalizeFallback(r)
    <3>1. PICK mode \in FailModes :
            /\ outcome' = [outcome EXCEPT ![r] = FallbackOutcome(mode)]
            /\ pc' = [pc EXCEPT ![Fallback(r)] =
                        IF mode = "closed" THEN "look_up"
                        ELSE IF mode = "open" /\ outcome[r] = "block" THEN "compare" ELSE "done"]
            /\ mode = "open" /\ outcome[r] = "block" =>
                 \A d \in Calls : d # Fallback(r) => pc[d] \notin OnCooldown
      BY <2>1 DEF FinalizeFallback
    <3>2. mode \in {"open", "closed"}
      BY ReasonsAssumption
    <3>3. CASE mode = "closed"
      BY <2>1, <3>1, <3>3 DEF FinalizeFallback, FallbackOutcome
    <3>4. CASE mode = "open" /\ outcome[r] = "block"
      BY <2>1, <3>1, <3>4 DEF FinalizeFallback, FallbackOutcome
    <3>5. CASE mode = "open" /\ outcome[r] # "block"
      BY <2>1, <3>1, <3>5 DEF FinalizeFallback, FallbackOutcome
    <3> QED BY <3>2, <3>3, <3>4, <3>5
  <2>2. CASE FinalizeFallbackRaises(r) BY <2>2 DEF FinalizeFallbackRaises
  <2>3. CASE CompareOwner(r) BY <2>3 DEF CompareOwner, keys
  <2>4. CASE DeleteCooldown(r) BY <2>4 DEF DeleteCooldown
  <2>5. CASE DeleteOwner(r) BY <2>5 DEF DeleteOwner
  <2>6. CASE ListIncidents(r) BY <2>6 DEF ListIncidents, keys
  <2>7. CASE ResolveSuperseded(r) BY <2>7 DEF ResolveSuperseded, keys
  <2> QED BY <1>2, <2>1, <2>2, <2>3, <2>4, <2>5, <2>6, <2>7 DEF FallBack
<1>3. ASSUME NEW c \in Calls, Record(c) PROVE CooldownInv'
  <2>0. c[1] \in Requests /\ (c = Live(c[1]) \/ c = Fallback(c[1]))
    BY CallIsLiveOrFallback
  <2>1. CASE LookUp(c) BY <2>0, <2>1 DEF LookUp, keys
  <2>2. CASE WriteIncident(c) BY <2>0, <2>2 DEF WriteIncident, keys
  <2>3. CASE CooldownRaises(c) BY <2>3 DEF CooldownRaises
  <2>4. CASE Abandon(c)
    <3>1. pc[c] \notin OnCooldown /\ pc[c] # "idle" /\ ~ disturbed
      BY <2>4 DEF Abandon, Steps
    <3>2. pc' = [pc EXCEPT ![c] = "dead"] /\ UNCHANGED <<outcome, cooldown, owner>>
      BY <2>4 DEF Abandon
    <3> QED BY <2>0, <3>1, <3>2
  <2> QED BY <1>3, <2>1, <2>2, <2>3, <2>4 DEF Record
<1>4. CASE Pass
  BY <1>4 DEF Pass, Resolve, PassWindow, AutoClose, CooldownExpires, OwnerExpires, keys
<1>5. CASE UNCHANGED vars BY <1>5 DEF vars, keys
<1> QED BY <1>1, <1>2, <1>3, <1>4, <1>5 DEF Next

(* CooldownInv holds throughout.                                              *)
LEMMA CooldownInvariant == Spec => [](TypeOK /\ CooldownInv)
<1>1. Init => CooldownInv
  BY CallsAreDistinct, RequestsAssumption DEF Init, CooldownInv, OnCooldown
<1> QED BY <1>1, TypeInit, TypeStep, CooldownStep, PTL DEF Spec

(* Requests are refused on account of a block that stands or is being taken    *)
(* back, for any number of requests, while the key updates do not overlap.     *)
THEOREM CooldownStandsHolds == Spec => []CooldownStands
<1>1. TypeOK /\ CooldownInv => CooldownStands
  BY DEF TypeOK, CooldownInv, CooldownStands
<1> QED BY <1>1, CooldownInvariant, PTL

(* And no fallback deletes the cooldown of another request's block.            *)
THEOREM DeletesOnlyOwnHolds == Spec => DeletesOnlyOwn
<1>1. TypeOK /\ CooldownInv =>
        [\A r \in Requests : ~ disturbed /\ DeleteCooldown(r) => cooldown \in {r, NoRequest}]_vars
  BY DEF CooldownInv, DeleteCooldown, At
<1> QED BY <1>1, CooldownInvariant, PTL DEF DeletesOnlyOwn

-----------------------------------------------------------------------------
(* Incidents.  While no call looks up between another's lookup and its write,  *)
(* what a call has found is still all there is when it writes.                *)

OpenInv ==
  ~ crowded =>
    /\ \A c, d \in Calls : At(c, "write") /\ At(d, "write") => c = d
    /\ \A i, j \in Open \cap recent : SameReason(i, j) => i = j
    /\ \A c \in Calls : At(c, "write") =>
         \/ /\ found[c] = {} /\ OpensOne(c)
            /\ \A i \in Open \cap recent : ~ SameReason(i, c[1])
         \/ \E i \in Requests :
              found[c] = {i} /\ \A j \in Open \cap recent : SameReason(i, j) => i = j

(* Nothing but a lookup and a write adds to what is open, and once crowded the *)
(* history stays so.                                                         *)
LEMMA OpenShrinks ==
  ASSUME TypeOK, LateInv, OpenInv, ~ crowded,
         Open' \cap recent' \subseteq Open \cap recent,
         \A c \in Calls : At(c, "write")' => At(c, "write") /\ found'[c] = found[c],
         \A r \in Requests : verdict'[r] # verdict[r] => pc[Live(r)] = "idle"
  PROVE  OpenInv'
<1>1. \A i \in Requests : status[i] # "none" => verdict'[i] = verdict[i]
  BY DEF LateInv, Nothing
<1>2. \A c \in Calls : At(c, "write") /\ c[2] = "live" => verdict'[c[1]] = verdict[c[1]]
  BY CallIsLiveOrFallback, CallsAreDistinct DEF At
<1>3. \A c \in Calls : \A i \in found[c] : i \in Requests /\ verdict'[i] = verdict[i]
  BY <1>1 DEF TypeOK, LateInv
<1>4. \A i \in Open \cap recent : i \in Requests /\ verdict'[i] = verdict[i]
  BY <1>1 DEF Open
<1> QED BY <1>2, <1>3, <1>4 DEF OpenInv, OpensOne, SameReason

(* A lookup that overlaps no other finds the open incident of its reason, or  *)
(* that there is none.                                                       *)
LEMMA OpenLookUp ==
  ASSUME TypeOK, LateInv, OpenInv, NEW c \in Calls, LookUp(c)
  PROVE  OpenInv'
<1> SUFFICES ASSUME ~ crowded' PROVE OpenInv'
  BY DEF OpenInv
<1>1. /\ ~ crowded /\ \A d \in Calls : d # c => ~ At(d, "write")
      /\ UNCHANGED <<verdict, status, recent>>
      /\ \A d \in Calls : d # c => pc'[d] = pc[d] /\ found'[d] = found[d]
  BY DEF LookUp, Goto, TypeOK, incidents, At
<1>2. Open' = Open /\ Open \cap recent \subseteq Requests
  BY <1>1 DEF Open
<1>3. At(c, "write")' =>
        \/ found'[c] = {} /\ Candidates(c) = {} /\ OpensOne(c)
        \/ \E i \in Candidates(c) : found'[c] = {i}
  BY DEF LookUp, Goto, TypeOK, At
<1>4. \A d \in Calls : At(d, "write")' => d = c
  BY <1>1 DEF At
<1>5. \A i \in Candidates(c) : i \in Open \cap recent
  BY DEF Candidates
<1>6. Candidates(c) = {} /\ OpensOne(c) => \A i \in Open \cap recent : ~ SameReason(i, c[1])
  BY DEF Candidates
<1> QED BY <1>1, <1>2, <1>3, <1>4, <1>5, <1>6 DEF OpenInv, OpensOne, SameReason

(* A write opens an incident only where there was none, or refreshes the one  *)
(* there is.                                                                 *)
LEMMA OpenWrite ==
  ASSUME TypeOK, LateInv, OpenInv, NEW c \in Calls, WriteIncident(c)
  PROVE  OpenInv'
<1> SUFFICES ASSUME ~ crowded' PROVE OpenInv'
  BY DEF OpenInv
<1> DEFINE new == IF found[c] = {} THEN {c[1]} ELSE found[c] \cap Open
<1>1. /\ ~ crowded /\ UNCHANGED <<verdict, found>>
      /\ At(c, "write")
      /\ \A d \in Calls : ~ At(d, "write")'
      /\ recent' = recent \cup new
      /\ c[1] \in Requests
  <2>1. ~ crowded /\ At(c, "write") /\ UNCHANGED <<verdict, found>> /\ pc' = [pc EXCEPT ![c] = "done"]
        /\ recent' = recent \cup new
    BY DEF WriteIncident, Goto, history
  <2>2. \A d \in Calls : At(d, "write") => d = c
    BY <2>1 DEF OpenInv
  <2> QED BY <2>1, <2>2, CallIsLiveOrFallback DEF At, TypeOK
<1>2. Open' = Open \cup new
  BY <1>1 DEF WriteIncident, Open, TypeOK
<1>3. ASSUME NEW i \in new, NEW j \in (Open \cap recent) \cup new, SameReason(i, j) \/ SameReason(j, i)
      PROVE  i = j
  BY <1>1, <1>3 DEF OpenInv, SameReason
<1>4. ASSUME NEW i \in Open' \cap recent', NEW j \in Open' \cap recent', SameReason(i, j)'
      PROVE  i = j
  <2>1. SameReason(i, j)
    BY <1>1, <1>4 DEF SameReason
  <2>2. i \in (Open \cap recent) \cup new \/ (i \in Open /\ i \in new) \/ (i \in new /\ i \in recent)
    BY <1>1, <1>2
  <2>3. j \in (Open \cap recent) \cup new
    BY <1>1, <1>2
  <2> QED BY <1>1, <1>3, <2>1, <2>2, <2>3 DEF OpenInv
<1> QED BY <1>1, <1>4 DEF OpenInv

(* OpenInv is inductive, together with the types and LateInv.                 *)
LEMMA OpenStep == TypeOK /\ LateInv /\ OpenInv /\ [Next]_vars => OpenInv'
<1> SUFFICES ASSUME TypeOK, LateInv, OpenInv, [Next]_vars PROVE OpenInv'
  OBVIOUS
<1> DEFINE Quiet == /\ crowded' = crowded
                    /\ Open' \cap recent' \subseteq Open \cap recent
                    /\ \A c \in Calls : At(c, "write")' => At(c, "write") /\ found'[c] = found[c]
                    /\ \A r \in Requests : verdict'[r] # verdict[r] => pc[Live(r)] = "idle"
<1>0. Quiet => OpenInv'
  BY OpenShrinks DEF OpenInv
<1> USE CallsAreDistinct DEF TypeOK, At, Goto, Open, keys, incidents, history
<1>1. ASSUME NEW r \in Requests, Decide(r) PROVE Quiet
  BY <1>1 DEF Decide, Evaluate, EvaluateBlindly, Judge, FinalizeLive, FinalizeLiveRaises,
              SetCooldown, SetOwner, AfterLive
<1>2. ASSUME NEW r \in Requests, FallBack(r) PROVE Quiet
  <2>1. CASE FinalizeFallback(r) BY <2>1 DEF FinalizeFallback
  <2>2. CASE FinalizeFallbackRaises(r) BY <2>2 DEF FinalizeFallbackRaises
  <2>3. CASE CompareOwner(r) \/ DeleteCooldown(r) \/ DeleteOwner(r)
    BY <2>3 DEF CompareOwner, DeleteCooldown, DeleteOwner
  <2>4. CASE ListIncidents(r) BY <2>4 DEF ListIncidents
  <2>5. CASE ResolveSuperseded(r) BY <2>5 DEF ResolveSuperseded
  <2> QED BY <1>2, <2>1, <2>2, <2>3, <2>4, <2>5 DEF FallBack
<1>3. ASSUME NEW c \in Calls, CooldownRaises(c) \/ Abandon(c) PROVE Quiet
  BY <1>3 DEF CooldownRaises, Abandon
<1>4. ASSUME Pass PROVE Quiet
  BY <1>4 DEF Pass, Resolve, PassWindow, AutoClose, CooldownExpires, OwnerExpires
<1>5. ASSUME UNCHANGED vars PROVE Quiet
  BY <1>5 DEF vars
<1> HIDE DEF Quiet
<1> QED BY <1>0, <1>1, <1>2, <1>3, <1>4, <1>5, OpenLookUp, OpenWrite DEF Next, Record

(* One open incident per reason, however incidents age, close and reopen, for  *)
(* any number of requests and reasons, while lookups and writes do not overlap. *)
THEOREM OneOpenPerReasonHolds == Spec => []OneOpenPerReason
<1>1. Init => TypeOK /\ LateInv /\ OpenInv
  BY TypeInit, CallsAreDistinct, RequestsAssumption
  DEF Init, LateInv, Nothing, NoWriter, OpenInv, Open, At
<1>2. OpenInv => OneOpenPerReason
  BY DEF OpenInv, OneOpenPerReason
<1> QED BY <1>1, <1>2, TypeStep, LateStep, OpenStep, PTL DEF Spec

-----------------------------------------------------------------------------
(* What a reconciliation has listed is all that is in the name of a decision   *)
(* whose task is over, and stays so.                                          *)
ReconcileInv ==
  \A r \in prompt :
    /\ pc[Live(r)] \in Ends
    /\ pc[Fallback(r)] \in {"resolve", "done", "dead"}
    /\ pc[Fallback(r)] = "resolve" => OfSuperseded(r) \subseteq found[Fallback(r)]
    /\ pc[Fallback(r)] = "done" => OfSuperseded(r) = {}

(* ReconcileInv is inductive, together with the types.                        *)
LEMMA ReconcileStep == TypeOK /\ ReconcileInv /\ [Next]_vars => ReconcileInv'
<1> SUFFICES ASSUME TypeOK, ReconcileInv, [Next]_vars PROVE ReconcileInv'
  OBVIOUS
<1> USE CallsAreDistinct
    DEF TypeOK, ReconcileInv, OfSuperseded, Open, At, Goto, OnCooldown, Steps, Ends,
        keys, incidents, history
<1>1. ASSUME NEW r \in Requests, Decide(r) PROVE ReconcileInv'
  BY <1>1 DEF Decide, Evaluate, EvaluateBlindly, Judge, FinalizeLive, FinalizeLiveRaises,
              SetCooldown, SetOwner
<1>2. ASSUME NEW r \in Requests, FallBack(r) PROVE ReconcileInv'
  <2>1. CASE FinalizeFallback(r) BY <2>1 DEF FinalizeFallback
  <2>2. CASE FinalizeFallbackRaises(r) BY <2>2 DEF FinalizeFallbackRaises
  <2>3. CASE CompareOwner(r) \/ DeleteCooldown(r) \/ DeleteOwner(r)
    BY <2>3 DEF CompareOwner, DeleteCooldown, DeleteOwner
  <2>4. CASE ListIncidents(r) BY <2>4 DEF ListIncidents
  <2>5. CASE ResolveSuperseded(r) BY <2>5 DEF ResolveSuperseded
  <2> QED BY <1>2, <2>1, <2>2, <2>3, <2>4, <2>5 DEF FallBack
<1>3. ASSUME NEW c \in Calls, Record(c) PROVE ReconcileInv'
  <2>0. c[1] \in Requests /\ (c = Live(c[1]) \/ c = Fallback(c[1]))
    BY CallIsLiveOrFallback
  <2>1. CASE LookUp(c) BY <2>0, <2>1 DEF LookUp
  <2>2. CASE WriteIncident(c)
    <3>1. \A r \in prompt : c # Live(r)
      BY <2>2 DEF WriteIncident
    <3>2. \A r \in prompt : OfSuperseded(r)' \subseteq OfSuperseded(r)
      BY <2>2, <3>1 DEF WriteIncident
    <3> QED BY <2>0, <2>2, <3>2 DEF WriteIncident
  <2>3. CASE CooldownRaises(c) \/ Abandon(c) BY <2>0, <2>3 DEF CooldownRaises, Abandon
  <2> QED BY <1>3, <2>1, <2>2, <2>3 DEF Record
<1>4. CASE Pass
  BY <1>4 DEF Pass, Resolve, PassWindow, AutoClose, CooldownExpires, OwnerExpires
<1>5. CASE UNCHANGED vars BY <1>5 DEF vars
<1> QED BY <1>1, <1>2, <1>3, <1>4, <1>5 DEF Next

(* A fallback that lists incidents after the task of the block it supersedes   *)
(* leaves none of them open, whatever other requests do to the incidents.      *)
THEOREM SupersededIsResolvedHolds == Spec => []SupersededIsResolved
<1>1. Init => ReconcileInv
  BY DEF Init, ReconcileInv
<1>2. ReconcileInv => SupersededIsResolved
  BY DEF ReconcileInv, SupersededIsResolved, At
<1> QED BY <1>1, <1>2, TypeInit, TypeStep, ReconcileStep, PTL DEF Spec

-----------------------------------------------------------------------------
(* The contract of the outcome store.                                        *)

(* Before its fallback is reported a request has the outcome of its decision,  *)
(* or none.                                                                  *)
UnreportedInv ==
  \A r \in Requests : pc[Fallback(r)] = "idle" => outcome[r] \in {"none", "allow", "block"}

StoreInv == TypeOK /\ UnreportedInv

(* Steps that do not finalize leave the outcomes alone, and no call is started  *)
(* twice.                                                                    *)
LEMMA OnlyFinalized ==
  ASSUME TypeOK, [Next]_vars
  PROVE  \/ UNCHANGED outcome /\ \A c \in Calls : pc'[c] = "idle" => pc[c] = "idle"
         \/ \E r \in Requests : FinalizeLive(r) \/ FinalizeLiveRaises(r)
         \/ \E r \in Requests : FinalizeFallback(r) \/ FinalizeFallbackRaises(r)
<1> DEFINE Quiet == UNCHANGED outcome /\ \A c \in Calls : pc'[c] = "idle" => pc[c] = "idle"
<1> USE CallsAreDistinct DEF TypeOK, At, Goto
<1>1. ASSUME NEW r \in Requests, Decide(r)
      PROVE  Quiet \/ FinalizeLive(r) \/ FinalizeLiveRaises(r)
  BY <1>1 DEF Decide, Evaluate, EvaluateBlindly, Judge, SetCooldown, SetOwner
<1>2. ASSUME NEW r \in Requests, FallBack(r)
      PROVE  Quiet \/ FinalizeFallback(r) \/ FinalizeFallbackRaises(r)
  BY <1>2 DEF FallBack, CompareOwner, DeleteCooldown, DeleteOwner, ListIncidents, ResolveSuperseded
<1>3. ASSUME NEW c \in Calls, Record(c) PROVE Quiet
  BY <1>3 DEF Record, LookUp, WriteIncident, CooldownRaises, Abandon
<1>4. CASE Pass \/ UNCHANGED vars
  BY <1>4 DEF Pass, Resolve, PassWindow, AutoClose, CooldownExpires, OwnerExpires, vars
<1> QED BY <1>1, <1>2, <1>3, <1>4 DEF Next

LEMMA LiveFinalizes ==
  ASSUME StoreInv, NEW r \in Requests, FinalizeLive(r) \/ FinalizeLiveRaises(r)
  PROVE  /\ \A s \in Requests : pc'[Fallback(s)] = pc[Fallback(s)]
         /\ \/ UNCHANGED outcome
            \/ /\ outcome[r] = "none"
               /\ \E o \in {"allow", "block"} : outcome' = [outcome EXCEPT ![r] = o]
<1>1. Decided(r) \in {"allow", "block"}
  BY DEF Decided
<1>2. \A s \in Requests : pc'[Fallback(s)] = pc[Fallback(s)]
  BY CallsAreDistinct DEF FinalizeLive, FinalizeLiveRaises, Goto, StoreInv, TypeOK
<1> QED BY <1>1, <1>2 DEF FinalizeLive, FinalizeLiveRaises

LEMMA FallbackFinalizes ==
  ASSUME StoreInv, NEW r \in Requests, FinalizeFallback(r) \/ FinalizeFallbackRaises(r)
  PROVE  /\ pc[Fallback(r)] = "idle" /\ pc'[Fallback(r)] # "idle"
         /\ \A s \in Requests \ {r} : pc'[Fallback(s)] = pc[Fallback(s)]
         /\ \/ UNCHANGED outcome
            \/ \E o \in {"fallback_allow", "fallback_block"} : outcome' = [outcome EXCEPT ![r] = o]
<1>1. \A mode \in FailModes : FallbackOutcome(mode) \in {"fallback_allow", "fallback_block"}
  BY DEF FallbackOutcome
<1>2. /\ pc[Fallback(r)] = "idle"
      /\ \E to \in {"look_up", "compare", "done", "ignored"} : pc' = [pc EXCEPT ![Fallback(r)] = to]
  BY DEF FinalizeFallback, FinalizeFallbackRaises, At, Goto
<1>3. pc'[Fallback(r)] # "idle" /\ \A s \in Requests \ {r} : pc'[Fallback(s)] = pc[Fallback(s)]
  BY <1>2, CallsAreDistinct DEF StoreInv, TypeOK
<1>4. \E mode \in FailModes : outcome' \in {outcome, [outcome EXCEPT ![r] = FallbackOutcome(mode)]}
  BY DEF FinalizeFallback, FinalizeFallbackRaises
<1> QED BY <1>1, <1>2, <1>3, <1>4

LEMMA StoreInvariant == Spec => []StoreInv
<1>1. Init => UnreportedInv
  BY CallsAreDistinct DEF Init, UnreportedInv
<1>2. ASSUME StoreInv, [Next]_vars PROVE UnreportedInv'
  <2>1. CASE UNCHANGED outcome /\ \A c \in Calls : pc'[c] = "idle" => pc[c] = "idle"
    BY <1>2, <2>1, CallsAreDistinct DEF StoreInv, UnreportedInv
  <2>2. ASSUME NEW r \in Requests, FinalizeLive(r) \/ FinalizeLiveRaises(r) PROVE UnreportedInv'
    BY <1>2, <2>2, LiveFinalizes DEF StoreInv, UnreportedInv, TypeOK
  <2>3. ASSUME NEW r \in Requests, FinalizeFallback(r) \/ FinalizeFallbackRaises(r)
        PROVE  UnreportedInv'
    BY <1>2, <2>3, FallbackFinalizes DEF StoreInv, UnreportedInv, TypeOK
  <2> QED BY <1>2, <2>1, <2>2, <2>3, OnlyFinalized DEF StoreInv
<1> QED BY <1>1, <1>2, TypeInit, TypeStep, PTL DEF Spec, StoreInv

(* Two finite sets that differ in one element at most.                       *)
LEMMA OneElementApart ==
  ASSUME NEW S, NEW T, NEW e, IsFiniteSet(S), S \ {e} = T \ {e}
  PROVE  /\ Cardinality(S) \in Nat
         /\ Cardinality(T) = Cardinality(S) + (IF e \in T THEN 1 ELSE 0) - (IF e \in S THEN 1 ELSE 0)
<1>0. PICK Rest : Rest = S \ {e} /\ Rest = T \ {e}
  OBVIOUS
<1>1. IsFiniteSet(Rest) /\ Cardinality(Rest) \in Nat /\ e \notin Rest /\ Cardinality(S) \in Nat
  BY <1>0, FS_RemoveElement, FS_CardinalityType
<1>2. Cardinality(Rest \cup {e}) = Cardinality(Rest) + 1
  BY <1>1, FS_AddElement
<1>3. Cardinality(S) = Cardinality(Rest) + (IF e \in S THEN 1 ELSE 0)
  <2>1. CASE e \in S
    <3>1. S = Rest \cup {e} BY <1>0, <2>1
    <3> QED BY <1>2, <2>1, <3>1
  <2>2. CASE e \notin S
    <3>1. S = Rest BY <1>0, <2>2
    <3> QED BY <1>1, <2>2, <3>1
  <2> QED BY <2>1, <2>2
<1>4. Cardinality(T) = Cardinality(Rest) + (IF e \in T THEN 1 ELSE 0)
  <2>1. CASE e \in T
    <3>1. T = Rest \cup {e} BY <1>0, <2>1
    <3> QED BY <1>2, <2>1, <3>1
  <2>2. CASE e \notin T
    <3>1. T = Rest BY <1>0, <2>2
    <3> QED BY <1>1, <2>2, <3>1
  <2> QED BY <2>1, <2>2
<1> QED BY <1>1, <1>3, <1>4

(* An outcome that takes the place of another moves one count at most of each.  *)
LEMMA OutcomeFinalizes ==
  ASSUME StoreInv, NEW r \in Requests, NEW o \in Blocks \cup {"allow", "fallback_allow"},
         outcome' = [outcome EXCEPT ![r] = o],
         outcome[r] = "none" \/ Outranks(outcome[r], o)
  PROVE  OutcomeStore!Finalize(r, o)
<1> DEFINE Of(k) == {s \in Requests : Shown(outcome[s], k)}
           After(k) == {s \in Requests : Shown(outcome'[s], k)}
<1>1. ASSUME NEW k \in {"allow", "clamp", "block", "timeouts"}
      PROVE  Cardinality(After(k)) =
               Cardinality(Of(k)) + OutcomeStore!Weight(o, k) - OutcomeStore!Weight(outcome[r], k)
  <2>1. IsFiniteSet(Of(k))
    BY RequestsAssumption, FS_Subset
  <2>2. Of(k) \ {r} = After(k) \ {r}
    BY DEF StoreInv, TypeOK
  <2>3. (r \in After(k) <=> Shown(o, k)) /\ (r \in Of(k) <=> Shown(outcome[r], k))
    BY DEF StoreInv, TypeOK
  <2>4. OutcomeStore!Weight(o, k) = IF r \in After(k) THEN 1 ELSE 0
    BY <2>3 DEF OutcomeStore!Weight, Blocks
  <2>5. OutcomeStore!Weight(outcome[r], k) = IF r \in Of(k) THEN 1 ELSE 0
    BY <2>3 DEF OutcomeStore!Weight, Shown, Blocks
  <2> HIDE DEF Of, After
  <2> QED BY <2>1, <2>2, <2>4, <2>5, OneElementApart
<1> QED BY <1>1 DEF OutcomeStore!Finalize, OutcomeStore!Kinds

(* ProtectEndpoints takes finalize_outcome for one step, and every such step is *)
(* one that the contract of the store allows, for any number of requests,       *)
(* failures included: the two models meet at ProtectContract.                   *)
THEOREM KeepsStoreContractHolds == Spec => KeepsStoreContract
<1>1. ASSUME Init PROVE OutcomeStore!Init
  <2>1. \A k : {r \in Requests : Shown(outcome[r], k)} = {}
    BY <1>1 DEF Init, Shown, Blocks
  <2> QED BY <1>1, <2>1, FS_EmptySet DEF Init, OutcomeStore!Init, OutcomeStore!Kinds
<1>2. ASSUME StoreInv, [Next]_vars PROVE [OutcomeStore!Next]_(OutcomeStore!vars)
  <2>1. CASE UNCHANGED outcome
    BY <2>1 DEF OutcomeStore!vars
  <2>2. ASSUME NEW r \in Requests, FinalizeLive(r) \/ FinalizeLiveRaises(r), outcome' # outcome
        PROVE  OutcomeStore!Next
    <3>1. PICK o \in {"allow", "block"} : outcome[r] = "none" /\ outcome' = [outcome EXCEPT ![r] = o]
      BY <1>2, <2>2, LiveFinalizes
    <3>2. OutcomeStore!Finalize(r, o)
      BY <1>2, <3>1, OutcomeFinalizes DEF Blocks
    <3> QED BY <3>2 DEF OutcomeStore!Next, Blocks
  <2>3. ASSUME NEW r \in Requests, FinalizeFallback(r) \/ FinalizeFallbackRaises(r), outcome' # outcome
        PROVE  OutcomeStore!Next
    <3>1. PICK o \in {"fallback_allow", "fallback_block"} : outcome' = [outcome EXCEPT ![r] = o]
      BY <1>2, <2>3, FallbackFinalizes
    <3>2. outcome[r] = "none" \/ Outranks(outcome[r], o)
      BY <1>2, <2>3, FallbackFinalizes DEF StoreInv, UnreportedInv, Outranks
    <3>3. OutcomeStore!Finalize(r, o)
      BY <1>2, <3>1, <3>2, OutcomeFinalizes DEF Blocks
    <3> QED BY <3>3 DEF OutcomeStore!Next, Blocks
  <2> QED BY <1>2, <2>1, <2>2, <2>3, OnlyFinalized DEF StoreInv
<1> QED BY <1>1, <1>2, StoreInvariant, PTL DEF Spec, KeepsStoreContract, OutcomeStore!Spec
=============================================================================
