--------------------------- MODULE MCEventIngest ---------------------------
(* TLC instances of EventIngest: one post of the first event and two of the  *)
(* second, which is of another model; all have an Idempotency-Key.           *)
EXTENDS EventIngest, TLC

CONSTANTS p1, p2, p3, e1, e2, m1, m2

OneAndTwo == (p1 :> e1) @@ (p2 :> e2) @@ (p3 :> e2)
EachItsModel == (e1 :> m1) @@ (e2 :> m2)
RepeatSymmetry == Permutations({p2, p3})
=============================================================================
