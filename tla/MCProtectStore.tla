---------------------------- MODULE MCProtectStore ----------------------------
(* Small instances of ProtectStore.                                         *)
EXTENDS ProtectStore, TLC

CONSTANTS r1, r2, c1, c2, c3

MCRequests == {r1, r2}
MCOneRequest == {r1}
MCCalls == {c1, c2, c3}
MCCallSymmetry == Permutations(MCCalls)

LiveAllow == [decision |-> "allow", reason |-> "ok", source |-> "live"]
LiveClamp == [decision |-> "clamp", reason |-> "token_clamp", source |-> "live"]
LiveBlock == [decision |-> "block", reason |-> "cap_breach", source |-> "live"]
Fallback(d, s) == [decision |-> d, reason |-> FallbackReason[s], source |-> s]

(* Every counter, every source and both fail modes.                         *)
MCPayloads ==
  {LiveAllow, LiveBlock, LiveClamp,
   Fallback("allow", "timeout_fallback"), Fallback("block", "unavailable_fallback")}

(* Two decisions that contend for the same counter, and a timeout.          *)
MCFewPayloads == {LiveAllow, LiveBlock, Fallback("allow", "timeout_fallback")}
=============================================================================
