------------------------- MODULE DetectorIncidents -------------------------
(***************************************************************************)
(* Incidents of the anomaly detectors: ingests, several at once, store an  *)
(* event, run the detectors and look up, refresh or open an incident for   *)
(* each signal, while users resolve incidents and a job closes cold ones.  *)
(* The events are of one project and provider.                             *)
(***************************************************************************)
EXTENDS AnomalyDetectors, FiniteSetsExt

CONSTANTS
  Ingesters,         (* ingests under way at once                            *)
  EventKinds,        (* what an event can be, but for its two times          *)
  CounterWindow,     (* the 60 seconds of the rolling counters               *)
  Episode,           (* Episode[d]: episode_window_seconds of detector d     *)
  BlockWindow,       (* incident_dedup_window_seconds                        *)
  AutoCloseAfter,    (* incident_auto_close_seconds                          *)
  MaxEvents,         (* bound on the events                                  *)
  MaxClock,          (* bound on the clock                                   *)
  NoRow

ASSUME NoRowAssumption == NoRow \notin Nat
ASSUME KindsAssumption ==
  /\ NoTokens \notin Nat
  /\ \A kind \in EventKinds : kind.total \in Nat /\ kind.explosion \in Nat \cup {NoTokens}
ASSUME WindowsAssumption ==
  /\ {CounterWindow, BlockWindow, AutoCloseAfter, MaxEvents, MaxClock} \subseteq Nat
  /\ \A d \in {"retry_storm", "loop_suspect", "token_explosion"} : Episode[d] \in Nat

VARIABLES
  log,               (* the events' rows, in the order of arrival            *)
  incidents,         (* the incidents' rows, in the order of creation        *)
  blockSeen,         (* when the open block incident was seen last, or NoRow *)
  protect,           (* protect_enabled                                      *)
  clock,
  at,                (* at[w]: where ingest w is                             *)
  mine,              (* mine[w]: the event it ingests                        *)
  due,               (* due[w]: the signals it has yet to process            *)
  moment,            (* moment[w]: the time it gave process_signals          *)
  found,             (* found[w]: the row its lookup found and its count     *)
  processed,         (* history: signals processed                           *)
  outrun,            (* history: the ingests whose lookup is out of date     *)
  raced,             (* history: one of them wrote                           *)
  setBack            (* history: an ingest with a time before a row's looked *)

detectorVars == <<log, incidents, blockSeen, protect, clock, at, mine, due, moment,
                  found, processed, outrun, raced, setBack>>

WorkerPlaces == {"idle", "detect", "screen", "lookup", "write"}
NothingFound == [row |-> NoRow, count |-> 0]

DetectorsInit ==
  /\ log = <<>> /\ incidents = <<>>
  /\ blockSeen = NoRow
  /\ protect \in BOOLEAN
  /\ clock = 0
  /\ at = [w \in Ingesters |-> "idle"]
  /\ mine = [w \in Ingesters |-> NoRow]
  /\ due = [w \in Ingesters |-> <<>>]
  /\ moment = [w \in Ingesters |-> 0]
  /\ found = [w \in Ingesters |-> NothingFound]
  /\ processed = 0 /\ outrun = {} /\ raced = FALSE /\ setBack = FALSE

Pass(w, there) == at' = [at EXCEPT ![w] = there]

(* The ingest is over, and what it read forgotten.                           *)
Finish(w) ==
  /\ Pass(w, "idle")
  /\ mine' = [mine EXCEPT ![w] = NoRow]
  /\ due' = [due EXCEPT ![w] = <<>>]
  /\ moment' = [moment EXCEPT ![w] = 0]
  /\ found' = [found EXCEPT ![w] = NothingFound]

Row(kind, stamp) ==
  [model |-> kind.model, stream |-> kind.stream, fingerprint |-> kind.fingerprint,
   outcome |-> kind.outcome, total |-> kind.total, explosion |-> kind.explosion,
   ts |-> stamp, created |-> clock]

(* The row and the counters; an event may arrive after one stamped later.    *)
Store(w) ==
  /\ at[w] = "idle" /\ Len(log) < MaxEvents
  /\ LET n == Len(log) + 1
     IN  /\ \E kind \in EventKinds, stamp \in {2 * n, 2 * n - 3} :
              log' = Append(log, Row(kind, stamp))
         /\ mine' = [mine EXCEPT ![w] = n]
  /\ Pass(w, "detect")
  /\ UNCHANGED <<incidents, blockSeen, protect, clock, due, moment, found, processed,
                 outrun, raced, setBack>>

Counted == {i \in DOMAIN log : log[i].created > clock - CounterWindow}
Requests60 == Cardinality(Counted)
Tokens60 == FoldSet(LAMBDA i, sum : sum + log[i].total, 0, Counted)

Detect(w) ==
  /\ at[w] = "detect"
  /\ LET signals == Signals(log, mine[w], Requests60, Tokens60, clock)
     IN  IF signals = <<>> THEN Finish(w)
         ELSE /\ due' = [due EXCEPT ![w] = signals]
              /\ Pass(w, "screen")
              /\ UNCHANGED <<mine, moment, found>>
  /\ UNCHANGED <<log, incidents, blockSeen, protect, clock, processed, outrun, raced, setBack>>

(* Under protect mode an active block incident mutes the detectors.          *)
Muted == protect /\ blockSeen # NoRow /\ blockSeen >= clock - BlockWindow

Screen(w) ==
  /\ at[w] = "screen"
  /\ IF Muted THEN Finish(w)
     ELSE /\ moment' = [moment EXCEPT ![w] = clock]
          /\ Pass(w, "lookup")
          /\ UNCHANGED <<mine, due, found>>
  /\ UNCHANGED <<log, incidents, blockSeen, protect, clock, processed, outrun, raced, setBack>>

Signal(w) == Head(due[w])

(* Faulty form: a row seen exactly a window ago is cold.                     *)
ActiveAfter(print, time) ==
  {i \in DOMAIN incidents :
     /\ incidents[i].status = "open" /\ incidents[i].print = print
     /\ incidents[i].seen > time - Episode[print[1]]}

ActiveSince(print, time) ==
  {i \in DOMAIN incidents :
     /\ incidents[i].status = "open" /\ incidents[i].print = print
     /\ incidents[i].seen >= time - Episode[print[1]]}

(* An ingest opens a row by the time it took, so that several may be newest.  *)
Newest(rows) ==
  {i \in rows : \A j \in rows : incidents[j].created <= incidents[i].created}

(* The ingest looks up with a time older than the last write of a row.        *)
Overtaken(w) ==
  \E i \in DOMAIN incidents :
    /\ incidents[i].status = "open" /\ incidents[i].print = Signal(w)
    /\ incidents[i].seen > moment[w]

LookUp(w) ==
  /\ at[w] = "lookup"
  /\ LET rows == ActiveSince(Signal(w), moment[w])
     IN  \/ rows = {} /\ found' = [found EXCEPT ![w] = NothingFound]
         \/ \E i \in Newest(rows) :
              found' = [found EXCEPT ![w] = [row |-> i, count |-> incidents[i].count]]
  /\ setBack' = (setBack \/ Overtaken(w))
  /\ Pass(w, "write")
  /\ UNCHANGED <<log, incidents, blockSeen, protect, clock, mine, due, moment, processed,
                 outrun, raced>>

(* The ingests whose lookup a write on this fingerprint puts out of date.    *)
OutrunBy(w, print) ==
  {v \in Ingesters \ {w} : at[v] = "write" /\ Signal(v) = print}

(* Faulty form: the refresh leaves the count alone.                          *)
RefreshedUncounted(w) ==
  LET row == found[w].row
  IN  IF incidents[row].status # "open" THEN incidents
      ELSE [incidents EXCEPT ![row].seen = moment[w]]

(* The row found is refreshed, if it is still open; else a new one is opened. *)
Refreshed(w) ==
  LET row == found[w].row
  IN  IF incidents[row].status # "open" THEN incidents
      ELSE [incidents EXCEPT ![row].count = found[w].count + 1, ![row].seen = moment[w]]

Opened(w) ==
  Append(incidents, [print |-> Signal(w), status |-> "open", created |-> moment[w],
                     seen |-> moment[w], count |-> 1])

Process(w) ==
  /\ at[w] = "write"
  /\ incidents' = IF found[w].row = NoRow THEN Opened(w) ELSE Refreshed(w)
  /\ processed' = processed + 1
  /\ raced' = (raced \/ w \in outrun)
  /\ outrun' = (outrun \cup OutrunBy(w, Signal(w))) \ {w}
  /\ IF Len(due[w]) = 1 THEN Finish(w)
     ELSE /\ due' = [due EXCEPT ![w] = Tail(@)]
          /\ found' = [found EXCEPT ![w] = NothingFound]
          /\ Pass(w, "lookup")
          /\ UNCHANGED <<mine, moment>>
  /\ UNCHANGED <<log, blockSeen, protect, clock, setBack>>

(* The database fails: the rest of the signals go with the request.          *)
Abandon(w) ==
  /\ at[w] # "idle"
  /\ Finish(w)
  /\ outrun' = outrun \ {w}
  /\ UNCHANGED <<log, incidents, blockSeen, protect, clock, processed, raced, setBack>>

(* The resolve endpoint takes an incident in any status.                     *)
ResolveByUser(i) ==
  /\ incidents[i].status # "resolved"
  /\ incidents' = [incidents EXCEPT ![i].status = "resolved"]
  /\ outrun' = outrun \cup {v \in Ingesters : at[v] = "write" /\ Signal(v) = incidents[i].print}
  /\ UNCHANGED <<log, blockSeen, protect, clock, at, mine, due, moment, found, processed,
                 raced, setBack>>

Cold == {i \in DOMAIN incidents :
           incidents[i].status = "open" /\ incidents[i].seen < clock - AutoCloseAfter}

AutoCloseCold ==
  /\ Cold # {}
  /\ incidents' = [i \in DOMAIN incidents |->
       IF i \in Cold THEN [incidents[i] EXCEPT !.status = "auto_resolved"] ELSE incidents[i]]
  /\ outrun' = outrun \cup {v \in Ingesters :
       at[v] = "write" /\ \E i \in Cold : Signal(v) = incidents[i].print}
  /\ UNCHANGED <<log, blockSeen, protect, clock, at, mine, due, moment, found, processed,
                 raced, setBack>>

(* A live block opens or refreshes the block incident; it gets resolved.     *)
SeeBlock ==
  /\ protect /\ blockSeen # clock
  /\ blockSeen' = clock
  /\ UNCHANGED <<log, incidents, protect, clock, at, mine, due, moment, found, processed,
                 outrun, raced, setBack>>

EndBlock ==
  /\ blockSeen # NoRow
  /\ blockSeen' = NoRow
  /\ UNCHANGED <<log, incidents, protect, clock, at, mine, due, moment, found, processed,
                 outrun, raced, setBack>>

PassTime ==
  /\ clock < MaxClock
  /\ clock' = clock + 1
  /\ UNCHANGED <<log, incidents, blockSeen, protect, at, mine, due, moment, found, processed,
                 outrun, raced, setBack>>

DetectorsNext ==
  \/ \E w \in Ingesters :
       Store(w) \/ Detect(w) \/ Screen(w) \/ LookUp(w) \/ Process(w) \/ Abandon(w)
  \/ \E i \in DOMAIN incidents : ResolveByUser(i)
  \/ AutoCloseCold \/ SeeBlock \/ EndBlock \/ PassTime

DetectorsSpec == DetectorsInit /\ [][DetectorsNext]_detectorVars

-----------------------------------------------------------------------------
(* Loop detection is there to be suppressed "when the same request stream is *)
(* clearly growing": one event is reported as a loop and as an explosion only *)
(* for passing the absolute threshold, whichever order events arrive in.     *)
GrowthIsNoLoop ==
  \A w \in Ingesters :
    LET reported == {due[w][i][1] : i \in DOMAIN due[w]}
    IN  {"loop_suspect", "token_explosion"} \subseteq reported =>
          ContextTokens(log[mine[w]]) >= Abs

(* A fingerprint has one active incident, unless an ingest wrote on a lookup  *)
(* that another write or a resolution had put out of date, or was so late     *)
(* that it looked up with a time before a row's last write, to set it back.   *)
OneEpisode ==
  ~raced /\ ~setBack =>
    \A i, j \in DOMAIN incidents :
      /\ incidents[i].print = incidents[j].print
      /\ incidents[i].status = "open" /\ incidents[j].status = "open"
      /\ Min({incidents[i].seen, incidents[j].seen}) >= clock - Episode[incidents[i].print[1]]
      => i = j

(* The signals counted, each by its incident and its place in the count.      *)
CountedSignals == UNION {{i} \X (1..incidents[i].count) : i \in DOMAIN incidents}

(* Without such a write no signal is lost: each is in the count of one        *)
(* incident.  Whatever the races, none is counted twice.                     *)
SignalsCounted ==
  /\ Cardinality(CountedSignals) <= processed
  /\ ~raced => Cardinality(CountedSignals) = processed
=============================================================================
