------------------------- MODULE EventIngestProofs -------------------------
(***************************************************************************)
(* What holds of event ingest for any number of posts, events, models and   *)
(* any limit: the handler keeps its contract, the windows match the table,  *)
(* a key stores one row, a gap is announced once.                            *)
(***************************************************************************)
EXTENDS EventIngest, FiniteSetTheorems, TLAPS

Counted == {"count_models", "record_model", "announce", "detect", "accepted"}

(* A post between StoreRow and CountTokens has its row, then its request.     *)
HandlerInv ==
  /\ \A p \in Posts : step[p] = "mark" => p \in Keyed
  /\ \A p \in Posts : step[p] \in {"count_request", "count_tokens"} \cup Counted => p \in rows
  /\ \A p \in Posts : step[p] = "count_tokens" => p \in old \cup requests
  /\ \A p \in Posts : step[p] \in Counted => p \in old \cup (requests \cap tokens)
  /\ requests \cup tokens \subseteq rows

(* The posts of a key that are stored or on their way: the key is worth one.   *)
Admitted(e) ==
  {p \in Posts : EventOf[p] = e /\ p \in Keyed /\ (p \in rows \/ step[p] \in {"limit", "store"})}
Worth(e) == IF e \in marks THEN 1 ELSE 0
KeyInv == \A e \in Events : Cardinality(Admitted(e)) <= lapses[e] + Worth(e)

(* A model about to be announced is recorded, by one post, and some recorded  *)
(* model is not going to be announced.                                        *)
Silent(m) ==
  m \in firstSeen /\ announced[m] = 0 /\ \A p \in Posts : step[p] = "announce" => Model(p) # m
GapInv ==
  /\ \A p \in Posts : baseline[p] => firstSeen # {}
  /\ \A p \in Posts : step[p] = "announce" => Model(p) \in firstSeen /\ announced[Model(p)] = 0
  /\ \A p, q \in Posts :
       step[p] = "announce" /\ step[q] = "announce" /\ Model(p) = Model(q) => p = q
  /\ \A m \in Models : announced[m] <= (IF m \in firstSeen THEN 1 ELSE 0)
  /\ firstSeen # {} => \E m \in firstSeen : Silent(m)

LEMMA ModelIsOne == \A p \in Posts : EventOf[p] \in Events /\ Model(p) \in Models
BY PostsAssumption, ModelsAssumption DEF Model

-----------------------------------------------------------------------------
(* Types.                                                                    *)

LEMMA IngestTypeInit == Init => TypeOK
BY DEF Init, TypeOK

LEMMA IngestTypeStep == TypeOK /\ [Next]_vars => TypeOK'
<1> SUFFICES ASSUME TypeOK, [Next]_vars PROVE TypeOK'
  OBVIOUS
<1> USE PostsAssumption, ModelIsOne DEF TypeOK, Goto, At, limits, windows, models
<1>1. ASSUME NEW p \in Posts, Receive(p) \/ ResolveKey(p) \/ Detect(p) \/ Fail(p) PROVE TypeOK'
  BY <1>1 DEF Receive, ResolveKey, Detect, Fail, Working, BeforeRow, AfterRow, Answers
<1>2. ASSUME NEW p \in Posts, SetKey(p) \/ SetKeyRaises(p) PROVE TypeOK'
  BY <1>2 DEF SetKey, SetKeyRaises, Working, BeforeRow, AfterRow, Answers
<1>3. ASSUME NEW p \in Posts, CheckRate(p) \/ CheckRateRaises(p) PROVE TypeOK'
  BY <1>3 DEF CheckRate, CheckRateRaises, Working, BeforeRow, AfterRow, Answers
<1>4. ASSUME NEW p \in Posts, StoreRow(p) \/ CountRequest(p) \/ CountTokens(p) PROVE TypeOK'
  BY <1>4 DEF StoreRow, CountRequest, CountTokens, Working, BeforeRow, AfterRow, Answers
<1>5. ASSUME NEW p \in Posts, CountModels(p) \/ RecordModel(p) \/ ModelStepRaises(p) PROVE TypeOK'
  BY <1>5 DEF CountModels, RecordModel, ModelStepRaises, Working, BeforeRow, AfterRow, Answers
<1>6. ASSUME NEW p \in Posts, Announce(p) PROVE TypeOK'
  BY <1>6 DEF Announce, Working, BeforeRow, AfterRow, Answers
<1>7. CASE Pass
  BY <1>7 DEF Pass, NextMinute, PastCutoff, KeyExpires
<1>8. CASE UNCHANGED vars
  BY <1>8 DEF vars
<1> QED
  BY <1>1, <1>2, <1>3, <1>4, <1>5, <1>6, <1>7, <1>8 DEF Next, Work, Upset

(* The variables keep their types.                                           *)
THEOREM IngestTypeCorrect == Spec => []TypeOK
BY IngestTypeInit, IngestTypeStep, PTL DEF Spec

-----------------------------------------------------------------------------
(* Rows and windows.                                                         *)

LEMMA HandlerStep == TypeOK /\ HandlerInv /\ [Next]_vars => HandlerInv'
<1> SUFFICES ASSUME TypeOK, HandlerInv, [Next]_vars PROVE HandlerInv'
  OBVIOUS
<1> USE DEF TypeOK, HandlerInv, Counted, Goto, At, limits, windows, models
<1>1. ASSUME NEW p \in Posts, Receive(p) \/ ResolveKey(p) \/ Detect(p) \/ Fail(p)
      PROVE  HandlerInv'
  BY <1>1 DEF Receive, ResolveKey, Detect, Fail
<1>2. ASSUME NEW p \in Posts,
             SetKey(p) \/ SetKeyRaises(p) \/ CheckRate(p) \/ CheckRateRaises(p)
      PROVE  HandlerInv'
  BY <1>2 DEF SetKey, SetKeyRaises, CheckRate, CheckRateRaises
<1>3. ASSUME NEW p \in Posts, StoreRow(p) PROVE HandlerInv'
  BY <1>3 DEF StoreRow
<1>4. ASSUME NEW p \in Posts, CountRequest(p) PROVE HandlerInv'
  BY <1>4 DEF CountRequest
<1>5. ASSUME NEW p \in Posts, CountTokens(p) PROVE HandlerInv'
  BY <1>5 DEF CountTokens
<1>6. ASSUME NEW p \in Posts,
             CountModels(p) \/ RecordModel(p) \/ Announce(p) \/ ModelStepRaises(p)
      PROVE  HandlerInv'
  BY <1>6 DEF CountModels, RecordModel, Announce, ModelStepRaises
<1>7. CASE Pass
  BY <1>7 DEF Pass, NextMinute, PastCutoff, KeyExpires
<1>8. CASE UNCHANGED vars
  BY <1>8 DEF vars
<1> QED
  BY <1>1, <1>2, <1>3, <1>4, <1>5, <1>6, <1>7, <1>8 DEF Next, Work, Upset

LEMMA HandlerInvariant == Spec => [](TypeOK /\ HandlerInv)
<1>1. Init => HandlerInv
  BY DEF Init, HandlerInv, Counted
<1> QED
  BY <1>1, IngestTypeInit, IngestTypeStep, HandlerStep, PTL DEF Spec

(* The rolling windows agree with the events table, for any number of posts:  *)
(* follows from where a handler is between its row and its points.            *)
THEOREM WindowsMatchRowsHolds == Spec => []WindowsMatchRows
<1>1. TypeOK /\ HandlerInv => WindowsMatchRows
  BY DEF TypeOK, HandlerInv, WindowsMatchRows, Counted, At
<1> QED
  BY <1>1, HandlerInvariant, PTL

-----------------------------------------------------------------------------
(* The contract.                                                             *)

LEMMA StatusMoves ==
  ASSUME TypeOK, NEW p \in Posts, NEW to, step' = [step EXCEPT ![p] = to]
  PROVE  /\ \A q \in Posts \ {p} : Status(q)' = Status(q)
         /\ step'[p] = to
BY DEF TypeOK, Status

LEMMA ContractStep == TypeOK /\ HandlerInv /\ [Next]_vars => [Contract!Next]_(Contract!contract)
<1> SUFFICES ASSUME TypeOK, HandlerInv, [Next]_vars
             PROVE  [Contract!Next]_(Contract!contract)
  OBVIOUS
<1> DEFINE now == [p \in Posts |-> Status(p)]
<1> USE DEF Goto, At, limits, windows, models, Contract!contract
<1>a. ASSUME NEW p \in Posts, NEW to, step' = [step EXCEPT ![p] = to]
      PROVE  /\ now' = [now EXCEPT ![p] = Status(p)']
             /\ step'[p] = to
  BY <1>a, StatusMoves
<1>b. ASSUME NEW p \in Posts, NEW to, step' = [step EXCEPT ![p] = to], rows' = rows,
             Status(p)' = Status(p)
      PROVE  UNCHANGED <<rows, now>>
  <2>1. now' = [now EXCEPT ![p] = now[p]]
    BY <1>a, <1>b
  <2> QED
    BY <1>b, <2>1
<1>c. ASSUME NEW p \in Posts, NEW to, step' = [step EXCEPT ![p] = to], rows' = rows,
             Status(p) = "open",
             \/ Status(p)' \in {"refused", "failed"}
             \/ Status(p)' = "duplicate" /\ p \in Keyed
      PROVE  Contract!Next
  BY <1>c, <1>a DEF Contract!Next, Contract!Decide, Contract!Refuse, Contract!Repeat,
                    Contract!Fail, Contract!Become
<1>d. ASSUME NEW p \in Posts, NEW to, step' = [step EXCEPT ![p] = to], rows' = rows,
             Status(p) = "stored", Status(p)' \in {"accepted", "failed"}
      PROVE  Contract!Next
  BY <1>d, <1>a DEF Contract!Next, Contract!Decide, Contract!Accept, Contract!Fail, Contract!Become
<1> USE DEF Status, BeforeRow, AfterRow
<1>1. ASSUME NEW p \in Posts, Receive(p) PROVE Contract!Next
  BY <1>1, <1>a DEF Receive, Contract!Next, Contract!Take, Contract!Become
<1>2. ASSUME NEW p \in Posts,
             ResolveKey(p) \/ SetKey(p) \/ SetKeyRaises(p) \/ CheckRate(p) \/ CheckRateRaises(p)
      PROVE  [Contract!Next]_(Contract!contract)
  <2>0. PICK to : step' = [step EXCEPT ![p] = to]
    BY <1>2 DEF ResolveKey, SetKey, SetKeyRaises, CheckRate, CheckRateRaises
  <2>1. /\ rows' = rows
        /\ step[p] \in BeforeRow
        /\ step'[p] \in BeforeRow \cup {"refused"} \/ (step'[p] = "duplicate" /\ p \in Keyed)
    BY <1>2, <1>a DEF ResolveKey, SetKey, SetKeyRaises, CheckRate, CheckRateRaises, HandlerInv
  <2>2. CASE step'[p] \in BeforeRow
    BY <2>0, <2>1, <2>2, <1>b
  <2>3. CASE step'[p] \notin BeforeRow
    BY <2>0, <2>1, <2>3, <1>c
  <2> QED
    BY <2>2, <2>3
<1>3. ASSUME NEW p \in Posts, StoreRow(p) PROVE Contract!Next
  <2>1. step' = [step EXCEPT ![p] = "count_request"] /\ rows' = rows \cup {p}
    BY <1>3 DEF StoreRow
  <2>2. step[p] = "store" /\ step'[p] = "count_request"
    BY <1>3, <2>1 DEF StoreRow, TypeOK
  <2>3. Contract!Store(p)
    BY <1>a, <2>1, <2>2 DEF Contract!Store, Contract!Become
  <2> QED
    BY <2>3 DEF Contract!Next, Contract!Decide
<1>4. ASSUME NEW p \in Posts,
             \/ CountRequest(p) \/ CountTokens(p) \/ CountModels(p) \/ RecordModel(p)
             \/ Announce(p) \/ ModelStepRaises(p)
      PROVE  [Contract!Next]_(Contract!contract)
  <2>0. PICK to : step' = [step EXCEPT ![p] = to]
    BY <1>4 DEF CountRequest, CountTokens, CountModels, RecordModel, Announce, ModelStepRaises
  <2>1. rows' = rows /\ step[p] \in AfterRow /\ step'[p] \in AfterRow
    BY <1>4, <1>a
    DEF CountRequest, CountTokens, CountModels, RecordModel, Announce, ModelStepRaises
  <2> QED
    BY <2>0, <2>1, <1>b
<1>5. ASSUME NEW p \in Posts, Detect(p) \/ Fail(p) PROVE Contract!Next
  <2>0. PICK to : /\ step' = [step EXCEPT ![p] = to] /\ to \in {"accepted", "failed"}
                  /\ to = "accepted" => step[p] = "detect"
    BY <1>5 DEF Detect, Fail
  <2>1. rows' = rows /\ step[p] \in Working /\ (to = "accepted" => step[p] \in AfterRow)
    BY <1>5, <2>0 DEF Detect, Fail, Working
  <2>2. Status(p)' = to
    BY <1>a, <2>0
  <2>3. CASE step[p] \in BeforeRow
    BY <2>0, <2>1, <2>2, <2>3, <1>c
  <2>4. CASE step[p] \in AfterRow
    BY <2>0, <2>1, <2>2, <2>4, <1>d
  <2> QED
    BY <2>1, <2>3, <2>4 DEF Working
<1>6. CASE Pass
  BY <1>6 DEF Pass, NextMinute, PastCutoff, KeyExpires
<1>7. CASE UNCHANGED vars
  BY <1>7 DEF vars
<1> QED
  BY <1>1, <1>2, <1>3, <1>4, <1>5, <1>6, <1>7 DEF Next, Work, Upset

(* Event ingest implements IngestContract: every step of a handler or of time  *)
(* is one of the contract's or changes neither the rows nor a post's status.  *)
THEOREM KeepsContractHolds == Spec => KeepsContract
<1>1. Init => Contract!Init
  BY DEF Init, Contract!Init, Status, BeforeRow, AfterRow
<1> QED
  BY <1>1, ContractStep, HandlerInvariant, PTL DEF Spec, KeepsContract, Contract!Spec

-----------------------------------------------------------------------------
(* Idempotency keys.                                                         *)

LEMMA AdmittedFinite == \A e : IsFiniteSet(Admitted(e)) /\ Cardinality(Admitted(e)) \in Nat
<1>1. \A e : Admitted(e) \subseteq Posts
  BY DEF Admitted
<1> QED
  BY <1>1, PostsAssumption, FS_Subset, FS_CardinalityType

(* A step that admits one post at most, worth its change of the key's value.   *)
LEMMA KeyChanges ==
  ASSUME TypeOK, TypeOK', KeyInv, NEW p \in Posts,
         \A e \in Events : Admitted(e)' \subseteq Admitted(e) \cup {p},
         \A e \in Events : e # EventOf[p] => Admitted(e)' \subseteq Admitted(e),
         \A e \in Events : lapses'[e] + Worth(e)' >= lapses[e] + Worth(e),
         \/ Admitted(EventOf[p])' \subseteq Admitted(EventOf[p])
         \/ lapses'[EventOf[p]] + Worth(EventOf[p])' > lapses[EventOf[p]] + Worth(EventOf[p])
  PROVE  KeyInv'
<1> SUFFICES ASSUME NEW e \in Events
             PROVE  Cardinality(Admitted(e)') <= lapses'[e] + Worth(e)'
  BY DEF KeyInv
<1> DEFINE A == Admitted(e)
           B == Admitted(e)'
<1>1. IsFiniteSet(A) /\ Cardinality(A) \in Nat /\ Cardinality(A) <= lapses[e] + Worth(e)
  BY AdmittedFinite DEF KeyInv
<1>2. /\ IsFiniteSet(A \cup {p})
      /\ Cardinality(A \cup {p}) \in Nat
      /\ Cardinality(A \cup {p}) <= Cardinality(A) + 1
  <2>1. /\ IsFiniteSet(A \cup {p})
        /\ Cardinality(A \cup {p}) = IF p \in A THEN Cardinality(A) ELSE Cardinality(A) + 1
    BY <1>1, FS_AddElement
  <2> HIDE DEF A
  <2> QED
    BY <1>1, <2>1, FS_CardinalityType
<1>3. B \subseteq A \cup {p}
  OBVIOUS
<1>4. Cardinality(B) \in Nat /\ Cardinality(B) <= Cardinality(A \cup {p})
  BY <1>2, <1>3, FS_Subset, FS_CardinalityType
<1>5. B \subseteq A => Cardinality(B) <= Cardinality(A)
  BY <1>1, FS_Subset
<1>6. lapses[e] \in Nat /\ lapses'[e] \in Nat /\ Worth(e) \in Nat /\ Worth(e)' \in Nat
  BY DEF TypeOK, Worth
<1>7. CASE B \subseteq A
  BY <1>1, <1>4, <1>5, <1>6, <1>7
<1>8. CASE ~ (B \subseteq A)
  <2>1. e = EventOf[p]
    BY <1>8
  <2>2. lapses'[e] + Worth(e)' > lapses[e] + Worth(e)
    BY <1>8, <2>1
  <2> QED
    BY <1>1, <1>2, <1>4, <1>6, <2>2
<1> QED BY <1>7, <1>8

LEMMA KeyKept ==
  ASSUME TypeOK, TypeOK', KeyInv, UNCHANGED <<marks, lapses>>,
         \A e \in Events : Admitted(e)' \subseteq Admitted(e)
  PROVE  KeyInv'
<1> SUFFICES ASSUME NEW e \in Events
             PROVE  Cardinality(Admitted(e)') <= lapses'[e] + Worth(e)'
  BY DEF KeyInv
<1>1. /\ Cardinality(Admitted(e)') <= Cardinality(Admitted(e))
      /\ Cardinality(Admitted(e)') \in Nat
  BY AdmittedFinite, FS_Subset, FS_CardinalityType
<1>2. Worth(e)' = Worth(e) /\ lapses'[e] = lapses[e]
  BY DEF Worth
<1>3. lapses[e] \in Nat /\ Worth(e) \in Nat
  BY DEF TypeOK, Worth
<1> QED
  BY <1>1, <1>2, <1>3, AdmittedFinite DEF KeyInv

LEMMA KeyStep == TypeOK /\ HandlerInv /\ KeyInv /\ [Next]_vars => KeyInv'
<1> SUFFICES ASSUME TypeOK, HandlerInv, KeyInv, [Next]_vars PROVE KeyInv'
  OBVIOUS
<1>t. TypeOK'
  BY IngestTypeStep
<1> USE DEF Goto, At, limits, windows, models
<1>1. ASSUME NEW p \in Posts, Receive(p) \/ ResolveKey(p) \/ Detect(p) \/ Fail(p) PROVE KeyInv'
  <2>1. UNCHANGED <<marks, lapses>> /\ \A e \in Events : Admitted(e)' \subseteq Admitted(e)
    BY <1>1, PostsAssumption DEF TypeOK, Admitted, Receive, ResolveKey, Detect, Fail
  <2> QED
    BY <1>t, <2>1, KeyKept
<1>2. ASSUME NEW p \in Posts, SetKey(p) PROVE KeyInv'
  <2>1. CASE EventOf[p] \in marks
    <3>1. UNCHANGED <<marks, lapses>> /\ \A e \in Events : Admitted(e)' \subseteq Admitted(e)
      BY <1>2, <2>1 DEF TypeOK, Admitted, SetKey
    <3> QED
      BY <1>t, <3>1, KeyKept
  <2>2. CASE EventOf[p] \notin marks
    <3>1. /\ \A e \in Events : Admitted(e)' \subseteq Admitted(e) \cup {p}
          /\ \A e \in Events : e # EventOf[p] => Admitted(e)' \subseteq Admitted(e)
          /\ lapses' = lapses
          /\ marks' = marks \cup {EventOf[p]}
      BY <1>2, <2>2 DEF TypeOK, Admitted, SetKey
    <3>2. /\ \A e \in Events : lapses'[e] + Worth(e)' >= lapses[e] + Worth(e)
          /\ lapses'[EventOf[p]] + Worth(EventOf[p])' > lapses[EventOf[p]] + Worth(EventOf[p])
      BY <2>2, <3>1, ModelIsOne DEF TypeOK, Worth
    <3> QED
      BY <1>t, <3>1, <3>2, KeyChanges
  <2> QED BY <2>1, <2>2
<1>3. ASSUME NEW p \in Posts, SetKeyRaises(p) PROVE KeyInv'
  <2>1. /\ \A e \in Events : Admitted(e)' \subseteq Admitted(e) \cup {p}
        /\ \A e \in Events : e # EventOf[p] => Admitted(e)' \subseteq Admitted(e)
        /\ marks' = marks
        /\ lapses' = [lapses EXCEPT ![EventOf[p]] = @ + 1]
    BY <1>3 DEF TypeOK, Admitted, SetKeyRaises
  <2>2. /\ \A e \in Events : lapses'[e] + Worth(e)' >= lapses[e] + Worth(e)
        /\ lapses'[EventOf[p]] + Worth(EventOf[p])' > lapses[EventOf[p]] + Worth(EventOf[p])
    BY <2>1, ModelIsOne DEF TypeOK, Worth
  <2> QED
    BY <1>t, <2>1, <2>2, KeyChanges
<1>4. ASSUME NEW p \in Posts,
             \/ CheckRate(p) \/ CheckRateRaises(p) \/ StoreRow(p)
             \/ CountRequest(p) \/ CountTokens(p) \/ CountModels(p) \/ RecordModel(p)
             \/ Announce(p) \/ ModelStepRaises(p)
      PROVE  KeyInv'
  <2>1. UNCHANGED <<marks, lapses>> /\ \A e \in Events : Admitted(e)' \subseteq Admitted(e)
    BY <1>4
    DEF TypeOK, Admitted, CheckRate, CheckRateRaises, StoreRow, CountRequest, CountTokens,
        CountModels, RecordModel, Announce, ModelStepRaises
  <2> QED
    BY <1>t, <2>1, KeyKept
<1>5. ASSUME UNCHANGED <<step, rows, marks, lapses>> PROVE KeyInv'
  BY <1>5 DEF KeyInv, Admitted, Worth
<1>6. ASSUME NEW k \in Events, KeyExpires(k) PROVE KeyInv'
  <2>1. \A e \in Events : Admitted(e)' = Admitted(e)
    BY <1>6 DEF KeyExpires, Admitted
  <2>2. \A e \in Events : lapses'[e] + Worth(e)' = lapses[e] + Worth(e)
    BY <1>6 DEF KeyExpires, TypeOK, Worth
  <2> QED
    BY <2>1, <2>2 DEF KeyInv
<1> QED
  BY <1>1, <1>2, <1>3, <1>4, <1>5, <1>6
  DEF Next, Work, Upset, Pass, NextMinute, PastCutoff, vars

(* A key's posts store one row, and one more each time the key expired or its  *)
(* SET raised: of the posts of a key only as many pass it as it is worth.      *)
THEOREM StoredOncePerKeyHolds == Spec => []StoredOncePerKey
<1>1. Init => KeyInv
  <2> SUFFICES ASSUME Init PROVE KeyInv
    OBVIOUS
  <2>1. \A e \in Events : Admitted(e) = {}
    BY DEF Init, Admitted
  <2> QED
    BY <2>1, FS_EmptySet DEF Init, KeyInv, Worth
<1>2. TypeOK /\ KeyInv => StoredOncePerKey
  <2> SUFFICES ASSUME TypeOK, KeyInv, NEW e \in Events
               PROVE  Cardinality(KeyedRows(e)) <= 1 + lapses[e]
    BY DEF StoredOncePerKey
  <2>1. KeyedRows(e) \subseteq Admitted(e)
    BY DEF TypeOK, KeyedRows, Admitted
  <2>2. /\ Cardinality(KeyedRows(e)) <= Cardinality(Admitted(e))
        /\ Cardinality(KeyedRows(e)) \in Nat
    BY <2>1, AdmittedFinite, FS_Subset, FS_CardinalityType
  <2> QED
    BY <2>2, AdmittedFinite DEF TypeOK, KeyInv, Worth
<1> QED
  BY <1>1, <1>2, KeyStep, IngestTypeInit, HandlerInvariant, IngestTypeStep, PTL DEF Spec

-----------------------------------------------------------------------------
(* Policy gaps.                                                              *)

LEMMA GapStep == TypeOK /\ GapInv /\ [Next]_vars => GapInv'
<1> SUFFICES ASSUME TypeOK, GapInv, [Next]_vars PROVE GapInv'
  OBVIOUS
<1> USE ModelIsOne DEF TypeOK, GapInv, Silent, Goto, At, Model, limits, windows, models
<1>1. ASSUME NEW p \in Posts, step' = [step EXCEPT ![p] = step'[p]], step'[p] # "announce",
             UNCHANGED models
      PROVE  GapInv'
  BY <1>1
<1>2. ASSUME NEW p \in Posts, CountModels(p) PROVE GapInv'
  BY <1>2 DEF CountModels
<1>3. ASSUME NEW p \in Posts, RecordModel(p) PROVE GapInv'
  <2>1. CASE Model(p) \in firstSeen
    BY <1>3, <2>1 DEF RecordModel
  <2>2. CASE Model(p) \notin firstSeen /\ baseline[p]
    BY <1>3, <2>2 DEF RecordModel
  <2>3. CASE Model(p) \notin firstSeen /\ ~ baseline[p]
    BY <1>3, <2>3 DEF RecordModel
  <2> QED BY <2>1, <2>2, <2>3
<1>4. ASSUME NEW p \in Posts, Announce(p) PROVE GapInv'
  BY <1>4 DEF Announce
<1>5. ASSUME UNCHANGED <<step, models>> PROVE GapInv'
  BY <1>5
<1>6. ASSUME NEW p \in Posts,
             \/ Receive(p) \/ ResolveKey(p) \/ SetKey(p) \/ SetKeyRaises(p)
             \/ CheckRate(p) \/ CheckRateRaises(p) \/ StoreRow(p) \/ CountRequest(p)
             \/ CountTokens(p) \/ ModelStepRaises(p) \/ Detect(p) \/ Fail(p)
      PROVE  GapInv'
  <2>1. step' = [step EXCEPT ![p] = step'[p]] /\ step'[p] # "announce" /\ UNCHANGED models
    BY <1>6
    DEF Receive, ResolveKey, SetKey, SetKeyRaises, CheckRate, CheckRateRaises, StoreRow,
        CountRequest, CountTokens, ModelStepRaises, Detect, Fail
  <2> QED
    BY <2>1, <1>1
<1> QED
  BY <1>2, <1>3, <1>4, <1>5, <1>6
  DEF Next, Work, Upset, Pass, NextMinute, PastCutoff, KeyExpires, vars

(* A model is announced once at most, when recorded, and some recorded model   *)
(* never is: the unique constraint gives each model to one handler, and the    *)
(* handler that recorded the first of all had counted none.                    *)
THEOREM GapsAnnouncedOnceHolds == Spec => []GapsAnnouncedOnce
<1>1. Init => GapInv
  BY ModelIsOne DEF Init, GapInv, Silent
<1>2. GapInv => GapsAnnouncedOnce
  BY DEF GapInv, Silent, GapsAnnouncedOnce
<1> QED
  BY <1>1, <1>2, GapStep, IngestTypeInit, IngestTypeStep, PTL DEF Spec
=============================================================================
