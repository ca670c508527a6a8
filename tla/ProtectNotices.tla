-------------------------- MODULE ProtectNotices ---------------------------
(***************************************************************************)
(* The notices protect mode sends: a block of a breached cap, a block by a *)
(* cooldown, the start of clamping, a call kept back without a decision,   *)
(* and an incident opened by a detector.  Each is a webhook and an email,  *)
(* rows of the outbox.  For the kinds that would repeat, a marker with a   *)
(* time to live is claimed in Redis first, so that others stay silent.     *)
(* One project and provider; each call's notice is made by one thread.     *)
(***************************************************************************)
EXTENDS Integers

CONSTANTS
  Notifiers,       (* calls, each of which may have something to announce     *)
  Reported,        (* the request ids of fallbacks, or the reason without one *)
  TicksPerSecond,  (* the clock's ticks stand for milliseconds                *)
  CooldownSeconds, (* protect_block_cooldown_seconds                          *)
  DedupSeconds,    (* incident_dedup_window_seconds                           *)
  MaxTick,         (* bound on the clock                                      *)
  NoTime

ASSUME TimesAssumption ==
  /\ {TicksPerSecond, CooldownSeconds, DedupSeconds} \subseteq Nat \ {0}
  /\ MaxTick \in Nat
  /\ NoTime \notin Nat

VARIABLES
  tick,
  blockedUntil,    (* the cooldown in Redis, or NoTime                        *)
  markers,         (* the report markers in Redis, with their expiry          *)
  notice,          (* notice[c]: what c has to announce, and how far it is    *)
  announced        (* outbox rows: a channel and the call that announced      *)

noticeVars == <<tick, blockedUntil, markers, notice, announced>>

Channels == {"webhook", "email"}
Silent == [place |-> "none", kind |-> "none", mark |-> <<>>, ttl |-> 0, claimed |-> NoTime]

NoticesInit ==
  /\ tick = 0
  /\ blockedUntil = NoTime
  /\ markers = {}
  /\ notice = [c \in Notifiers |-> Silent]
  /\ announced = {}

Reach(c, place) == notice' = [notice EXCEPT ![c].place = place]
Forget(c) == notice' = [notice EXCEPT ![c] = [Silent EXCEPT !.place = "over"]]

Announces(c, place, kind, mark, ttl) ==
  /\ notice[c].place = "none"
  /\ notice' = [notice EXCEPT ![c] = [place |-> place, kind |-> kind, mark |-> mark,
                                      ttl |-> ttl, claimed |-> NoTime]]
  /\ UNCHANGED <<tick, markers, announced>>

InCooldown == blockedUntil # NoTime /\ tick < blockedUntil

(* Faulty form: the last part of a second does not count.                    *)
RetryAfterFloor(until) == (until - tick) \div TicksPerSecond

(* The whole seconds until then, rounded up.                                 *)
RetryAfter(until) == (until - tick + TicksPerSecond - 1) \div TicksPerSecond

-----------------------------------------------------------------------------
(* What there is to announce.                                                *)

(* A block of a breached cap starts a cooldown, in place of one that another  *)
(* block may have started since this one was decided.  It has no marker.     *)
BlockNotice(c) ==
  /\ blockedUntil' = tick + CooldownSeconds * TicksPerSecond
  /\ Announces(c, "task", "block", <<>>, 0)

(* A block by the cooldown: its marker names the cooldown, and is to last as *)
(* long as it, at least a second.                                            *)
CooldownNotice(c) ==
  /\ InCooldown
  /\ LET seconds == RetryAfter(blockedUntil)
     IN  Announces(c, "task", "cooldown_block", <<"cooldown_block", blockedUntil>>,
                   IF seconds < 1 THEN 1 ELSE seconds)
  /\ UNCHANGED blockedUntil

ClampNotice(c) ==
  /\ Announces(c, "task", "clamp_started", <<"clamp_started">>, DedupSeconds)
  /\ UNCHANGED blockedUntil

(* A fallback of request r is reported while the project's mode is closed;   *)
(* the notice is made by the endpoint itself.                                *)
FailClosedNotice(c, r) ==
  /\ Announces(c, "claim", "fail_closed", <<"fail_closed", r>>, DedupSeconds)
  /\ UNCHANGED blockedUntil

(* A detector's incident was opened: no marker.                              *)
DetectionNotice(c) ==
  /\ Announces(c, "webhook", "incident", <<>>, 0)
  /\ UNCHANGED blockedUntil

-----------------------------------------------------------------------------
(* How it is announced.                                                      *)

(* The background task: an answer that took longer than the SDK waits for is *)
(* not announced.                                                            *)
Postprocess(c) ==
  /\ notice[c].place = "task"
  /\ \/ Reach(c, IF notice[c].kind = "block" THEN "webhook" ELSE "claim")
     \/ Forget(c)
  /\ UNCHANGED <<tick, blockedUntil, markers, announced>>

Marked(mark) == \E m \in markers : m.mark = mark /\ tick < m.expires

(* mark_report_sent: SET NX EX, one command.  A marker that is there, or an  *)
(* error of Redis, keeps the notice back.                                    *)
MarkReport(c) ==
  /\ notice[c].place = "claim"
  /\ \/ /\ ~Marked(notice[c].mark)
        /\ markers' = {m \in markers : tick < m.expires} \cup
             {[mark |-> notice[c].mark, expires |-> tick + notice[c].ttl * TicksPerSecond]}
        /\ notice' = [notice EXCEPT ![c].place = "webhook", ![c].claimed = tick]
     \/ Forget(c) /\ UNCHANGED markers
  /\ UNCHANGED <<tick, blockedUntil, announced>>

(* The outbox takes the row, or not; either way the next channel has its turn. *)
(* sent_at is part of the dedupe key, so no two calls share a row.           *)
Enqueue(c, channel, next) ==
  /\ notice[c].place = channel
  /\ announced' \in {announced, announced \cup {<<channel, c>>}}
  /\ Reach(c, next)
  /\ UNCHANGED <<tick, blockedUntil, markers>>

EnqueueWebhook(c) == Enqueue(c, "webhook", "email")
EnqueueEmail(c) == Enqueue(c, "email", "over")

(* The process dies; or the counters or the project a fail_closed notice     *)
(* shows cannot be read.  A marker already claimed stays.                    *)
DropNotice(c) ==
  /\ notice[c].place \in {"task", "claim", "webhook", "email"}
  /\ IF <<"webhook", c>> \in announced THEN Reach(c, "over") ELSE Forget(c)
  /\ UNCHANGED <<tick, blockedUntil, markers, announced>>

(* A fallback that supersedes the block takes its cooldown back.             *)
LiftCooldown ==
  /\ blockedUntil # NoTime
  /\ blockedUntil' = NoTime
  /\ UNCHANGED <<tick, markers, notice, announced>>

NextTick ==
  /\ tick < MaxTick
  /\ tick' = tick + 1
  /\ UNCHANGED <<blockedUntil, markers, notice, announced>>

NoticesNext ==
  \/ \E c \in Notifiers :
       \/ BlockNotice(c) \/ CooldownNotice(c) \/ ClampNotice(c) \/ DetectionNotice(c)
       \/ \E r \in Reported : FailClosedNotice(c, r)
       \/ Postprocess(c) \/ MarkReport(c)
       \/ EnqueueWebhook(c) \/ EnqueueEmail(c) \/ DropNotice(c)
  \/ LiftCooldown
  \/ NextTick

NoticesSpec == NoticesInit /\ [][NoticesNext]_noticeVars

-----------------------------------------------------------------------------
(* Until when the marker of c's notice is there to keep others back.         *)
QuietUntil(c) ==
  IF notice[c].kind = "cooldown_block" THEN notice[c].mark[2]
  ELSE notice[c].claimed + DedupSeconds * TicksPerSecond

(* mark_report_sent is True "only when this report marker is first observed  *)
(* inside the TTL window": however many calls a cooldown blocks at once, each *)
(* with the seconds it read for itself, a channel announces that cooldown    *)
(* once while it lasts; clamping, and a request kept back, once per window.  *)
AnnouncedOnce ==
  \A c, d \in Notifiers, channel \in Channels :
    /\ c # d
    /\ <<channel, c>> \in announced /\ <<channel, d>> \in announced
    /\ notice[c].mark = notice[d].mark /\ notice[c].mark # <<>>
    /\ notice[c].claimed <= notice[d].claimed
    => notice[d].claimed >= QuietUntil(c)
=============================================================================
