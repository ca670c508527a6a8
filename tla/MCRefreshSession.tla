------------------------- MODULE MCRefreshSession --------------------------
(* Model values for the run of RefreshSession.                              *)
EXTENDS RefreshSession, TLC

CONSTANTS j1, j2, j3, j4, c1, c2, c3

(* Two logins, or one with up to three rotations.                           *)
MCJtis == {j1, j2, j3, j4}
MCCalls == {c1, c2, c3}
MCSymmetry == Permutations(MCJtis) \cup Permutations(MCCalls)
=============================================================================
