---------------------------- MODULE IngestKeys -----------------------------
(***************************************************************************)
(* The ingest keys of one project: requests of its owner create, revoke    *)
(* and rotate them, at once, and may delete the project.  Each repository  *)
(* call is a transaction of its own, so a rotation is two: the old key is  *)
(* revoked, then a new one created.                                        *)
(***************************************************************************)
EXTENDS Naturals, FiniteSets

CONSTANTS
  KeyIds,        (* ids of keys, also of those not created yet               *)
  Owners,        (* requests of the owner under way at once                  *)
  NoKey,
  MaxBroken      (* bound on the rotations that end halfway                  *)

ASSUME NoKeyAssumption == NoKey \notin KeyIds
ASSUME MaxBrokenAssumption == MaxBroken \in Nat
ASSUME FiniteAssumption == IsFiniteSet(KeyIds) /\ IsFiniteSet(Owners)

VARIABLES
  listed,        (* the project's row is there                               *)
  key,           (* key[k]: "none", or the status of the row                 *)
  step,          (* step[o]: where request o is                              *)
  target,        (* target[o]: the key it read                               *)
  created,       (* history: keys of the create endpoint                     *)
  revoked,       (* history: active keys that the revoke endpoint revoked    *)
  broken         (* history: rotations that ended after their revocation     *)

keyVars == <<listed, key, step, target, created, revoked, broken>>

Steps == {"idle", "create", "revoke", "rotate", "replace"}
Statuses == {"none", "active", "revoked", "deleted"}

KeysTypeOK ==
  /\ listed \in BOOLEAN
  /\ key \in [KeyIds -> Statuses]
  /\ step \in [Owners -> Steps]
  /\ target \in [Owners -> KeyIds \cup {NoKey}]
  /\ created \subseteq KeyIds /\ revoked \subseteq KeyIds
  /\ broken \in Nat

KeysInit ==
  /\ listed = TRUE
  /\ key = [k \in KeyIds |-> "none"]
  /\ step = [o \in Owners |-> "idle"]
  /\ target = [o \in Owners |-> NoKey]
  /\ created = {} /\ revoked = {} /\ broken = 0

ActiveKeys == {k \in KeyIds : key[k] = "active"}

(* The project a key gives access to: an active key of a project that is.    *)
Resolves(k) == listed /\ key[k] = "active"

Move(o, there) == step' = [step EXCEPT ![o] = there]
Return(o) == Move(o, "idle") /\ target' = [target EXCEPT ![o] = NoKey]

(* A request reads the key it is about, if any, and checks the ownership.    *)
AskCreate(o) ==
  /\ step[o] = "idle" /\ listed
  /\ Move(o, "create")
  /\ UNCHANGED <<listed, key, target, created, revoked, broken>>

AskChange(o, k, change) ==
  /\ step[o] = "idle" /\ listed
  /\ key[k] \in {"active", "revoked"}
  /\ target' = [target EXCEPT ![o] = k]
  /\ Move(o, change)
  /\ UNCHANGED <<listed, key, created, revoked, broken>>

(* The new row needs its project.                                            *)
Insert(k) ==
  /\ listed /\ key[k] = "none"
  /\ key' = [key EXCEPT ![k] = "active"]

CreateKey(o, k) ==
  /\ step[o] = "create"
  /\ Insert(k)
  /\ created' = created \cup {k}
  /\ Return(o)
  /\ UNCHANGED <<listed, revoked, broken>>

(* Faulty form: every active key goes, not the one asked for.                *)
MarkAllRevoked(k) == [j \in KeyIds |-> IF key[j] = "active" THEN "revoked" ELSE key[j]]

(* Revoking a key a second time, or one that was deleted, changes nothing.   *)
MarkRevoked(k) == [key EXCEPT ![k] = IF @ = "active" THEN "revoked" ELSE @]

RevokeKey(o) ==
  /\ step[o] = "revoke"
  /\ key' = MarkRevoked(target[o])
  /\ revoked' = IF key[target[o]] = "active" THEN revoked \cup {target[o]} ELSE revoked
  /\ Return(o)
  /\ UNCHANGED <<listed, created, broken>>

(* rotate_key, first transaction: a key already revoked is rotated as well.  *)
RotateRevoke(o) ==
  /\ step[o] = "rotate"
  /\ IF key[target[o]] = "deleted"
     THEN UNCHANGED key /\ Return(o)
     ELSE key' = MarkRevoked(target[o]) /\ Move(o, "replace") /\ UNCHANGED target
  /\ UNCHANGED <<listed, created, revoked, broken>>

(* The second.                                                               *)
RotateCreate(o, k) ==
  /\ step[o] = "replace"
  /\ Insert(k)
  /\ Return(o)
  /\ UNCHANGED <<listed, created, revoked, broken>>

(* A request fails where it is: the database, the process, or a project that *)
(* has gone.  What it has committed stays.                                   *)
Break(o) ==
  /\ step[o] # "idle"
  /\ step[o] = "replace" => broken < MaxBroken
  /\ broken' = IF step[o] = "replace" THEN broken + 1 ELSE broken
  /\ Return(o)
  /\ UNCHANGED <<listed, key, created, revoked>>

(* delete_project takes the keys with it.                                    *)
DeleteProject ==
  /\ listed
  /\ listed' = FALSE
  /\ key' = [k \in KeyIds |-> IF key[k] = "none" THEN "none" ELSE "deleted"]
  /\ UNCHANGED <<step, target, created, revoked, broken>>

KeysNext ==
  \/ \E o \in Owners :
       \/ AskCreate(o) \/ RevokeKey(o) \/ RotateRevoke(o) \/ Break(o)
       \/ \E k \in KeyIds :
            \/ AskChange(o, k, "revoke") \/ AskChange(o, k, "rotate")
            \/ CreateKey(o, k) \/ RotateCreate(o, k)
  \/ DeleteProject

KeysSpec == KeysInit /\ [][KeysNext]_keyVars

-----------------------------------------------------------------------------
(* Access is lost only to what took it away.  However many requests revoke   *)
(* and rotate keys at once, also the same key, while the project stands each *)
(* created key is worth one that gives access, but for the keys the revoke   *)
(* endpoint took, and the rotations that have revoked one and not yet, or    *)
(* never, made the next.                                                     *)
KeysBalance ==
  LET halfway == {o \in Owners : step[o] = "replace"}
      usable == {k \in KeyIds : Resolves(k)}
  IN  listed =>
        Cardinality(usable) + Cardinality(revoked) + Cardinality(halfway) + broken
          >= Cardinality(created)
=============================================================================
