------------------------------- MODULE Ingestion -------------------------------
(***************************************************************************)
(* The way of log events into the platform: callers POST batches through   *)
(* the SDK client, the server stores each batch in one transaction, reads  *)
(* the clock and analyses the stored events of the service.  Calls         *)
(* overlap; the network and the server may let a call down at any point,   *)
(* and an answer may come after the caller has given up.                   *)
(*                                                                         *)
(* The events are those of one service: the analysis of a service reads no *)
(* other events.  What follows detection is the subject of Pipeline.       *)
(***************************************************************************)
EXTENDS Detection

CONSTANTS Calls,     \* calls of create_event and create_batch
          Payloads,  \* batches a caller may send
          MaxBatch,  \* max_length of BatchEventCreate.events
          MaxClock,  \* bound on the clock
          MaxFaults  \* bound on what goes wrong

ASSUME PayloadAssumption ==
  \A payload \in Payloads : /\ payload \in Seq(Range(payload))
                            /\ \A item \in Range(payload) : item.lag \in Int
ASSUME NoneIsNoStatus == None \notin Nat

VARIABLES
  clock,
  events,     \* rows of the events table, in the order of their ids
  anomalies,  \* rows of the anomalies table
  client,     \* what each caller knows
  batch,      \* what it sent
  server,     \* where its request is
  reply,      \* status the server answers with
  now,        \* the `now` of its analysis
  hits,       \* signals it detected
  faults      \* how often something has gone wrong

requests == <<server, reply, now, hits>>
vars == <<clock, events, anomalies, client, batch, requests, faults>>

(***************************************************************************)
(* normalize_level, of a level stripped and in upper case; None is raised. *)
(***************************************************************************)
LevelMap ==
  [INFO |-> {"INFO", "INFORMATION", "NOTICE", "DEBUG", "TRACE"},
   WARN |-> {"WARN", "WARNING"},
   ERROR |-> {"ERROR", "ERR"},
   CRITICAL |-> {"CRITICAL", "CRIT", "FATAL", "EMERGENCY", "ALERT"}]

Level(raw) ==
  IF \E l \in DOMAIN LevelMap : raw \in LevelMap[l]
  THEN CHOOSE l \in DOMAIN LevelMap : raw \in LevelMap[l]
  ELSE None

Acceptable(payload) ==
  /\ Len(payload) \in 1..MaxBatch
  /\ \A n \in DOMAIN payload : Level(payload[n].level) # None

Rows(c) ==
  [n \in DOMAIN batch[c] |->
     [call |-> c, signature |-> batch[c][n].signature,
      level |-> Level(batch[c][n].level), timestamp |-> batch[c][n].timestamp]]

Init ==
  /\ clock = 0
  /\ events = <<>> /\ anomalies = {}
  /\ client = [c \in Calls |-> "idle"]
  /\ batch = [c \in Calls |-> <<>>]
  /\ server = [c \in Calls |-> "none"]
  /\ reply = [c \in Calls |-> None]
  /\ now = [c \in Calls |-> 0]
  /\ hits = [c \in Calls |-> {}]
  /\ faults = 0

Tick ==
  /\ clock < MaxClock
  /\ clock' = clock + 1
  /\ UNCHANGED <<events, anomalies, client, batch, requests, faults>>

Fault == faults < MaxFaults /\ faults' = faults + 1

(***************************************************************************)
(* WatchdogClient._post.                                                   *)
(***************************************************************************)
\* Timestamps are the caller's: lag is how far they are behind the clock.
Post(c, payload) ==
  /\ client[c] = "idle"
  /\ client' = [client EXCEPT ![c] = "waiting"]
  /\ batch' = [batch EXCEPT ![c] =
       [n \in DOMAIN payload |->
          [signature |-> payload[n].signature, level |-> payload[n].level,
           timestamp |-> clock - payload[n].lag]]]
  /\ UNCHANGED <<clock, events, anomalies, requests, faults>>

\* What a caller makes of the status of an answer.
Outcome(status) ==
  IF status < 400 THEN "created" ELSE IF status = 422 THEN "rejected" ELSE "error"

Deliver(c) ==
  /\ client[c] = "waiting"
  /\ server[c] \in {"analysed", "answered"}
  /\ client' = [client EXCEPT ![c] = Outcome(reply[c])]
  /\ UNCHANGED <<clock, events, anomalies, batch, requests, faults>>

\* Mutant: a POST is retried like a GET.
PostAgain(c) ==
  /\ client[c] = "waiting"
  /\ Fault
  /\ server' = [server EXCEPT ![c] = "none"]
  /\ UNCHANGED <<clock, events, anomalies, client, batch, reply, now, hits>>

\* No answer in time, or no connection: WatchdogTimeout, and no second try.
GiveUp(c) ==
  /\ client[c] = "waiting"
  /\ IF server[c] = "dead" THEN UNCHANGED faults ELSE Fault
  /\ client' = [client EXCEPT ![c] = "timeout"]
  /\ UNCHANGED <<clock, events, anomalies, batch, requests>>

(***************************************************************************)
(* The routes POST /events and /events/batch.                              *)
(***************************************************************************)
Answer(c, stage, status) ==
  /\ server' = [server EXCEPT ![c] = stage]
  /\ reply' = [reply EXCEPT ![c] = status]

\* The request may arrive after its caller gave up.
Arrived(c) == client[c] # "idle" /\ server[c] = "none"

Reject(c) ==
  /\ Arrived(c)
  /\ ~Acceptable(batch[c])
  /\ Answer(c, "answered", 422)
  /\ UNCHANGED <<clock, events, anomalies, client, batch, now, hits, faults>>

\* Every payload is converted before the first is added to the session.
Store(c) ==
  /\ Arrived(c)
  /\ Acceptable(batch[c])
  /\ events' = events \o Rows(c)
  /\ server' = [server EXCEPT ![c] = "stored"]
  /\ UNCHANGED <<clock, anomalies, client, batch, reply, now, hits, faults>>

\* The database is locked, at the commit or when the rows are refreshed after it.
IngestionFails(c) ==
  /\ Arrived(c) \/ server[c] = "stored"
  /\ Fault
  /\ Answer(c, "answered", 500)
  /\ UNCHANGED <<clock, events, anomalies, client, batch, now, hits>>

ReadClock(c) ==
  /\ server[c] = "stored"
  /\ server' = [server EXCEPT ![c] = "analyse"]
  /\ now' = [now EXCEPT ![c] = clock]
  /\ UNCHANGED <<clock, events, anomalies, client, batch, reply, hits, faults>>

IsDuplicate(signal, instant) ==
  \E a \in anomalies : a.signal = signal /\ a.window_end = instant

\* Mutant: the analysis reads what the request itself stored.
OwnSignals(c) ==
  LET own == SelectSeq(events, LAMBDA e : e.call = c)
  IN {signal \in Detected(own, now[c]) : ~IsDuplicate(signal, now[c])}

NewSignals(c) ==
  {signal \in Detected(events, now[c]) : ~IsDuplicate(signal, now[c])}

Analyse(c) ==
  /\ server[c] = "analyse"
  /\ hits' = [hits EXCEPT ![c] = NewSignals(c)]
  /\ IF NewSignals(c) = {}
     THEN Answer(c, "analysed", 201)
     ELSE server' = [server EXCEPT ![c] = "save"] /\ UNCHANGED reply
  /\ UNCHANGED <<clock, events, anomalies, client, batch, now, faults>>

SaveAnomalies(c) ==
  /\ server[c] = "save"
  /\ anomalies' = anomalies \cup
       {[call |-> c, signal |-> signal, window_end |-> now[c]] : signal \in hits[c]}
  /\ Answer(c, "analysed", 201)
  /\ UNCHANGED <<clock, events, client, batch, now, hits, faults>>

\* _run_pipeline swallows whatever the pipeline raises.
PipelineFails(c) ==
  /\ server[c] \in {"analyse", "save"}
  /\ Fault
  /\ Answer(c, "answered", 201)
  /\ UNCHANGED <<clock, events, anomalies, client, batch, now, hits>>

\* The server process dies under the request.
Crash(c) ==
  /\ server[c] \in {"stored", "analyse", "save"}
  /\ Fault
  /\ server' = [server EXCEPT ![c] = "dead"]
  /\ UNCHANGED <<clock, events, anomalies, client, batch, reply, now, hits>>

\* Every call has ended, for its caller and on the server.
Quiescent ==
  /\ \A c \in Calls : /\ client[c] \notin {"idle", "waiting"}
                      /\ server[c] \notin {"stored", "analyse", "save"}
  /\ UNCHANGED vars

Next ==
  \/ Tick
  \/ \E c \in Calls, payload \in Payloads : Post(c, payload)
  \/ \E c \in Calls :
       \/ Deliver(c) \/ GiveUp(c)
       \/ Reject(c) \/ Store(c) \/ IngestionFails(c) \/ ReadClock(c)
       \/ Analyse(c) \/ SaveAnomalies(c) \/ PipelineFails(c) \/ Crash(c)
  \/ Quiescent

Spec == Init /\ [][Next]_vars

(***************************************************************************)
(* Properties.                                                             *)
(***************************************************************************)
StoredBy(c) == {n \in DOMAIN events : events[n].call = c}

\* What a caller knows of its call is true of the table: a created batch is stored
\* whole, a rejected one not at all, and one whose outcome is unknown is stored
\* whole or not at all; whatever became of the call, no event is stored twice.
OutcomeIsTruthful ==
  \A c \in Calls :
    /\ Cardinality(StoredBy(c)) \in {0, Len(batch[c])}
    /\ client[c] = "created" => StoredBy(c) # {}
    /\ client[c] = "rejected" => StoredBy(c) = {}

\* A burst is noticed although none of the overlapping calls that bring it need
\* see all of it: when the calls that stored events of a signature have all been
\* analysed to the end, and the events are enough for a burst and recent for every one of
\* the analyses, one of them recorded the burst.
BurstIsNoticed ==
  \A k \in {events[n].signature : n \in DOMAIN events} :
    LET rows == WithSignature(events, DOMAIN events, k)
        callers == {events[n].call : n \in rows}
    IN (/\ Cardinality(rows) >= Floor
        /\ Len(events) <= EventLimit
        /\ \A c \in callers : /\ server[c] = "analysed"
                              /\ \A n \in rows : events[n].timestamp > now[c] - BucketSeconds)
       => \E a \in anomalies : a.signal = Signal("signature_frequency", k)

\* An anomaly has evidence in the table: a burst as many events of its signature
\* as the floor asks for, a rate anomaly an error, younger than one bucket.
AnomalyHasEvidence ==
  \A a \in anomalies :
    LET recent == {n \in DOMAIN events :
                     events[n].timestamp > a.window_end - BucketSeconds}
    IN IF a.signal.strategy = "signature_frequency"
       THEN Cardinality(WithSignature(events, recent, a.signal.signature)) >= Floor
       ELSE Errors(events, recent) # {}

\* More of the same never silences a detector: what is detected in the table is
\* detected as well when one more error has just arrived, short of the limit.
MoreErrorsNeverSilence ==
  Len(events) < EventLimit =>
    \A k \in {events[n].signature : n \in DOMAIN events} :
      Detected(events, clock) \subseteq
        Detected(Append(events, [call |-> None, signature |-> k, level |-> "ERROR",
                                 timestamp |-> clock]), clock)

\* The limit of the query costs history, never the present: an event is analysed
\* unless the limit is used up by events as recent.
LimitCutsThePast ==
  \A n \in Since(events, clock - Window) :
    n \notin Selected(events, clock) =>
      Cardinality({m \in Selected(events, clock) :
                     events[m].timestamp >= events[n].timestamp}) = EventLimit
=============================================================================
