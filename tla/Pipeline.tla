------------------------------- MODULE Pipeline -------------------------------
(***************************************************************************)
(* The observability pipeline of backend/app: every ingestion request runs *)
(* detection, correlation, triage and alerting for the services of its     *)
(* events, in a thread of the server's pool and in a database session of   *)
(* its own, while operators PATCH the status of incidents.                 *)
(*                                                                         *)
(* One action is what one thread does between two points where another     *)
(* thread can get in: a SELECT that later steps rely on, or a transaction. *)
(* SQLite serialises write transactions from the first write (the flush)   *)
(* to the commit, and a SELECT outside one sees the last committed state.  *)
(*                                                                         *)
(* Rows have natural names in place of autoincrement ids: a request stores *)
(* at most one anomaly per service and signal, opens at most one incident  *)
(* per service, and records at most one alert per incident and channel.    *)
(* What the detectors see in the events is abstracted: any signal may fire.*)
(***************************************************************************)
EXTENDS Integers, Sequences, FiniteSets

CONSTANTS Requests,           \* ingestion requests (POST /events, /events/batch)
          Patches,            \* operator requests (PATCH /incidents/{id})
          Services,           \* monitored services
          Signals,            \* (strategy, signature) pairs a detector can report
          Channels,           \* alert channels, in default_channels() order
          Categories,         \* IncidentCategory values, "unknown" included
          PatchTargets,       \* statuses the operators ask for
          None,               \* SQL NULL, Python None
          CorrelationWindow,  \* correlation_window_seconds
          AlertRateLimit,     \* alert_rate_limit_seconds
          PoolSize,           \* requests served at the same time
          MaxClock,           \* bound on the clock
          MaxFailures         \* bound on the requests that fail

Anomaly  == [request : Requests, service : Services, signal : Signals]
Incident == [opener : Requests, service : Services]
ChannelSet == {Channels[n] : n \in DOMAIN Channels}

ASSUME NoneAssumption ==
  /\ None \notin Incident \cup Categories \cup Services \cup Nat
ASSUME FiniteAssumption ==
  /\ IsFiniteSet(Signals)
  /\ Channels \in Seq(STRING)
ASSUME WindowAssumption == CorrelationWindow \in Nat /\ AlertRateLimit \in Nat
ASSUME PoolAssumption == PoolSize \in Nat

VARIABLES
  clock,       \* wall-clock time, in units of the windows
  anomalies,   \* rows of the anomalies table
  link,        \* anomalies.incident_id
  incidents,   \* rows of the incidents table
  severity, status, category, updated, resolved,  \* its columns
  alerts,      \* rows of the alerts table
  sent,        \* messages the channels were given (the world outside)
  pc,          \* where each request is
  now,         \* the `now` it passes down the pipeline
  todo,        \* services it has not processed yet
  service,     \* service it is processing
  hits,        \* signals it detected for that service
  incident,    \* incident it is working on
  loaded,      \* severity in its session's copy of that incident
  payload,     \* category in its copy of that incident
  channel,     \* index of the next channel
  fired,       \* channels sent to, alert rows still pending in the session
  patch        \* the PATCH requests

anomalyTable  == <<anomalies, link>>
incidentTable == <<incidents, severity, status, category, updated, resolved>>
outbox        == <<alerts, sent>>
locals        == <<now, todo, service, hits, incident, loaded, payload, channel, fired>>
vars == <<clock, anomalyTable, incidentTable, outbox, pc, locals, patch>>

LOW == 1
MEDIUM == 2
HIGH == 3
CRITICAL == 4
Severities == LOW..CRITICAL
Statuses == {"OPEN", "INVESTIGATING", "MITIGATED", "RESOLVED"}

ASSUME PatchAssumption == PatchTargets \subseteq Statuses

Stages == {"detect", "save", "correlate", "open", "attach", "gate", "triage",
           "payload", "alert"}
Active(r) == pc[r] \in Stages

(***************************************************************************)
(* What the code derives from the tables.  An operator marked "Mutant" is a *)
(* plausible bug of the definition after it; nothing else refers to it.    *)
(***************************************************************************)
UncappedSeverity(n) == n  \* Mutant: no case for four anomalies and more

DeriveSeverity(n) ==
  IF n >= 4 THEN CRITICAL
  ELSE IF n = 3 THEN HIGH
  ELSE IF n = 2 THEN MEDIUM
  ELSE LOW

Linked(i) == {a \in anomalies : link[a] = i}

\* Mutant: correlates all anomalies of the service.
FoundForService(r) ==
  {a \in Anomaly : /\ a.service = service[r]
                   /\ a \in anomalies \/ (a.request = r /\ a.signal \in hits[r])}

\* The anomalies request r has detected for the service it is processing.
Found(r) == [request : {r}, service : {service[r]}, signal : hits[r]]

IsDuplicate(s, k, t) ==
  \E a \in anomalies : a.service = s /\ a.signal = k /\ now[a.request] = t

\* The rows an ORDER BY updated_at DESC may put first.
Latest(rows) == {i \in rows : \A j \in rows : updated[j] <= updated[i]}

\* Mutant: the window excludes its first instant.
FindOpenExclusive(s, since) ==
  Latest({i \in incidents : /\ i.service = s /\ status[i] # "RESOLVED"
                            /\ updated[i] > since})

\* Mutant: resolved incidents absorb too.
FindAnyForService(s, since) ==
  Latest({i \in incidents : i.service = s /\ updated[i] >= since})

FindOpenForService(s, since) ==
  Latest({i \in incidents : /\ i.service = s
                            /\ status[i] # "RESOLVED"
                            /\ updated[i] >= since})

\* Mutant: the window excludes its first instant.
ExistsAfter(i, c, since) ==
  \E a \in alerts : a.incident = i /\ a.channel = c /\ a.created_at > since

\* Mutant: an alert suppresses all later ones.
ExistsEver(i, c, since) == \E a \in alerts : a.incident = i /\ a.channel = c

ExistsSince(i, c, since) ==
  \E a \in alerts : a.incident = i /\ a.channel = c /\ a.created_at >= since

RowService(row) == row.service

\* Mutant: the loop over the anomalies ends after the first one.
LinkFirst(A, i) == [link EXCEPT ![CHOOSE a \in A : TRUE] = i]

LinkAll(A, i) == [a \in Anomaly |-> IF a \in A THEN i ELSE link[a]]

\* Mutant: counts before the links are flushed.
CountBeforeFlush(r, i) == Cardinality(Linked(i))

\* Mutant: counts the new anomalies only.
CountOfBatch(r, i) == Cardinality(Found(r))

\* len(incident.anomalies) once the links of request r are flushed.
CountAfterFlush(r, i) == Cardinality(Linked(i) \cup Found(r))

NeverTriage(i) == FALSE  \* Mutant: the gate is closed
AlwaysTriage(i) == TRUE  \* Mutant: the gate is missing
NeedsTriage(i) == category[i] = None

AlertRow(r, c) == [request |-> r, incident |-> incident[r], channel |-> c,
                   category |-> payload[r], created_at |-> now[r]]

\* Mutant: only the first channel's row is added to the session.
FirstRowOnly(r) == {AlertRow(r, c) : c \in fired[r] \cap {Channels[1]}}

PendingAlerts(r) == {AlertRow(r, c) : c \in fired[r]}

(***************************************************************************)
(* Threads.  The pool is shared by ingestion and PATCH requests.           *)
(***************************************************************************)
Busy == {r \in Requests : Active(r)} \cup {p \in Patches : patch[p].pc = "loaded"}
FreeThread == Cardinality(Busy) < PoolSize

IdlePatch(stage) ==
  [pc |-> stage, incident |-> None, want |-> "OPEN", now |-> 0, loaded |-> "OPEN"]

Init ==
  /\ clock = 0
  /\ anomalies = {} /\ incidents = {} /\ alerts = {} /\ sent = {}
  /\ link = [a \in Anomaly |-> None]
  /\ severity = [i \in Incident |-> LOW]
  /\ status = [i \in Incident |-> "OPEN"]
  /\ category = [i \in Incident |-> None]
  /\ updated = [i \in Incident |-> 0]
  /\ resolved = [i \in Incident |-> None]
  /\ pc = [r \in Requests |-> "new"]
  /\ now = [r \in Requests |-> 0]
  /\ todo = [r \in Requests |-> {}]
  /\ service = [r \in Requests |-> None]
  /\ hits = [r \in Requests |-> {}]
  /\ incident = [r \in Requests |-> None]
  /\ loaded = [r \in Requests |-> LOW]
  /\ payload = [r \in Requests |-> None]
  /\ channel = [r \in Requests |-> 1]
  /\ fired = [r \in Requests |-> {}]
  /\ patch = [p \in Patches |-> IdlePatch("new")]

Tick ==
  /\ clock < MaxClock
  /\ clock' = clock + 1
  /\ UNCHANGED <<anomalyTable, incidentTable, outbox, pc, locals, patch>>

Goto(r, stage) == pc' = [pc EXCEPT ![r] = stage]

\* The events are committed; _run_pipeline collects their services, in a set
\* (so in any order), and reads the time once for the whole request.
Begin(r, S) ==
  /\ pc[r] = "new"
  /\ FreeThread
  /\ S # {}
  /\ Goto(r, "detect")
  /\ now' = [now EXCEPT ![r] = clock]
  /\ todo' = [todo EXCEPT ![r] = S]
  /\ UNCHANGED <<clock, anomalyTable, incidentTable, outbox, service, hits, incident,
                 loaded, payload, channel, fired, patch>>

\* What the session held for the service it was processing is gone.
Forget(r) ==
  /\ service' = [service EXCEPT ![r] = None]
  /\ hits' = [hits EXCEPT ![r] = {}]
  /\ incident' = [incident EXCEPT ![r] = None]
  /\ loaded' = [loaded EXCEPT ![r] = LOW]
  /\ payload' = [payload EXCEPT ![r] = None]
  /\ channel' = [channel EXCEPT ![r] = 1]
  /\ fired' = [fired EXCEPT ![r] = {}]

NextService(r) == IF todo[r] = {} THEN "done" ELSE "detect"

(***************************************************************************)
(* Detection: any signals that are not duplicates may have fired.          *)
(***************************************************************************)
Detect(r, s, K) ==
  /\ pc[r] = "detect"
  /\ s \in todo[r]
  /\ \A k \in K : ~IsDuplicate(s, k, now[r])
  /\ todo' = [todo EXCEPT ![r] = @ \ {s}]
  /\ IF K = {}
     THEN /\ Goto(r, IF todo[r] = {s} THEN "done" ELSE "detect")
          /\ UNCHANGED <<service, hits>>
     ELSE /\ Goto(r, "save")
          /\ service' = [service EXCEPT ![r] = s]
          /\ hits' = [hits EXCEPT ![r] = K]
  /\ UNCHANGED <<clock, anomalyTable, incidentTable, outbox, now, incident, loaded,
                 payload, channel, fired, patch>>

SaveAnomalies(r) ==
  /\ pc[r] = "save"
  /\ anomalies' = anomalies \cup Found(r)
  /\ Goto(r, "correlate")
  /\ UNCHANGED <<clock, link, incidentTable, outbox, locals, patch>>

(***************************************************************************)
(* Correlation: a SELECT, then one transaction that opens or absorbs.      *)
(***************************************************************************)
FindOpen(r) ==
  LET candidates == FindOpenForService(service[r], now[r] - CorrelationWindow)
  IN /\ pc[r] = "correlate"
     /\ \/ /\ candidates = {}
           /\ Goto(r, "open")
           /\ UNCHANGED <<incident, loaded>>
        \/ \E i \in candidates :
             /\ Goto(r, "attach")
             /\ incident' = [incident EXCEPT ![r] = i]
             /\ loaded' = [loaded EXCEPT ![r] = severity[i]]
     /\ UNCHANGED <<clock, anomalyTable, incidentTable, outbox, now, todo, service, hits,
                    payload, channel, fired, patch>>

OpenIncident(r) ==
  LET i == [opener |-> r, service |-> service[r]]
  IN /\ pc[r] = "open"
     /\ incidents' = incidents \cup {i}
     /\ severity' = [severity EXCEPT ![i] = DeriveSeverity(Cardinality(Found(r)))]
     /\ status' = [status EXCEPT ![i] = "OPEN"]
     /\ updated' = [updated EXCEPT ![i] = now[r]]
     /\ link' = LinkAll(Found(r), i)
     /\ incident' = [incident EXCEPT ![r] = i]
     /\ Goto(r, "gate")
     /\ UNCHANGED <<clock, anomalies, category, resolved, outbox, now, todo, service, hits,
                    loaded, payload, channel, fired, patch>>

\* The links are flushed before the incident's anomalies are counted.  The
\* session writes the severity column only if it differs from its own copy.
AttachAnomalies(r) ==
  LET i == incident[r]
      derived == DeriveSeverity(CountAfterFlush(r, i))
  IN /\ pc[r] = "attach"
     /\ link' = LinkAll(Found(r), i)
     /\ severity' = [severity EXCEPT ![i] = IF derived = loaded[r] THEN @ ELSE derived]
     /\ updated' = [updated EXCEPT ![i] = now[r]]
     /\ Goto(r, "gate")
     /\ UNCHANGED <<clock, anomalies, incidents, status, category, resolved, outbox,
                    locals, patch>>

(***************************************************************************)
(* Triage: the refreshed incident is triaged if it has no category.  The   *)
(* agents' calls and audit rows in between touch no other table.           *)
(***************************************************************************)
TriageGate(r) ==
  /\ pc[r] = "gate"
  /\ payload' = [payload EXCEPT ![r] = category[incident[r]]]
  /\ Goto(r, IF NeedsTriage(incident[r]) THEN "triage" ELSE "alert")
  /\ UNCHANGED <<clock, anomalyTable, incidentTable, outbox, now, todo, service, hits,
                 incident, loaded, channel, fired, patch>>

SaveTriage(r, c) ==
  /\ pc[r] = "triage"
  /\ category' = [category EXCEPT ![incident[r]] = c]
  /\ Goto(r, "payload")
  /\ UNCHANGED <<clock, anomalyTable, incidents, severity, status, updated, resolved,
                 outbox, locals, patch>>

(***************************************************************************)
(* Alerting.                                                               *)
(***************************************************************************)
\* The commit of the triage expired the incident: the payload reloads it.
BuildPayload(r) ==
  /\ pc[r] = "payload"
  /\ payload' = [payload EXCEPT ![r] = category[incident[r]]]
  /\ Goto(r, "alert")
  /\ UNCHANGED <<clock, anomalyTable, incidentTable, outbox, now, todo, service, hits,
                 incident, loaded, channel, fired, patch>>

SendOrSkip(r) ==
  LET c == Channels[channel[r]]
  IN /\ pc[r] = "alert"
     /\ channel[r] \in DOMAIN Channels
     /\ IF ExistsSince(incident[r], c, now[r] - AlertRateLimit)
        THEN UNCHANGED <<sent, fired>>
        ELSE /\ sent' = sent \cup {[request |-> r, incident |-> incident[r],
                                    channel |-> c]}
             /\ fired' = [fired EXCEPT ![r] = @ \cup {c}]
     /\ channel' = [channel EXCEPT ![r] = @ + 1]
     /\ UNCHANGED <<clock, anomalyTable, incidentTable, alerts, pc, now, todo, service,
                    hits, incident, loaded, payload, patch>>

CommitAlerts(r) ==
  /\ pc[r] = "alert"
  /\ channel[r] \notin DOMAIN Channels
  /\ alerts' = alerts \cup PendingAlerts(r)
  /\ Goto(r, NextService(r))
  /\ Forget(r)
  /\ UNCHANGED <<clock, anomalyTable, incidentTable, sent, now, todo, patch>>

\* An exception anywhere (a locked database, a prompt log that cannot be
\* written, a transport error of the LLM client) or the death of the process:
\* the session rolls back and the remaining services are not processed.
Fail(r) ==
  /\ Active(r)
  /\ Cardinality({q \in Requests : pc[q] = "failed"}) < MaxFailures
  /\ Goto(r, "failed")
  /\ todo' = [todo EXCEPT ![r] = {}]
  /\ Forget(r)
  /\ UNCHANGED <<clock, anomalyTable, incidentTable, outbox, now, patch>>

(***************************************************************************)
(* PATCH: load the row, set the columns, commit.  status is written only   *)
(* if it differs from the copy loaded; resolved_at is never cleared.       *)
(***************************************************************************)
PatchLoad(p, i, want) ==
  /\ patch[p].pc = "new"
  /\ FreeThread
  /\ i \in incidents
  /\ patch' = [patch EXCEPT ![p] = [pc |-> "loaded", incident |-> i, want |-> want,
                                    now |-> clock, loaded |-> status[i]]]
  /\ UNCHANGED <<clock, anomalyTable, incidentTable, outbox, pc, locals>>

\* Mutant: the time is cleared unless the request resolves.
ResolvedAtOrCleared(p) == IF patch[p].want = "RESOLVED" THEN patch[p].now ELSE None

ResolvedAt(p) ==
  IF patch[p].want = "RESOLVED" THEN patch[p].now ELSE resolved[patch[p].incident]

PatchCommit(p) ==
  LET i == patch[p].incident
  IN /\ patch[p].pc = "loaded"
     /\ status' = [status EXCEPT ![i] = IF patch[p].want = patch[p].loaded
                                        THEN @ ELSE patch[p].want]
     /\ updated' = [updated EXCEPT ![i] = patch[p].now]
     /\ resolved' = [resolved EXCEPT ![i] = ResolvedAt(p)]
     /\ patch' = [patch EXCEPT ![p] = IdlePatch("done")]
     /\ UNCHANGED <<clock, anomalyTable, incidents, severity, category, outbox, pc, locals>>

(***************************************************************************)
(* The specification.                                                      *)
(***************************************************************************)
Step(r) ==
  \/ \E s \in Services, K \in SUBSET Signals : Detect(r, s, K)
  \/ SaveAnomalies(r)
  \/ FindOpen(r)
  \/ OpenIncident(r)
  \/ AttachAnomalies(r)
  \/ TriageGate(r)
  \/ \E c \in Categories : SaveTriage(r, c)
  \/ BuildPayload(r)
  \/ SendOrSkip(r)
  \/ CommitAlerts(r)

Operator(p) ==
  \/ \E i \in Incident, want \in PatchTargets : PatchLoad(p, i, want)
  \/ PatchCommit(p)

\* Every request was answered.
Quiescent ==
  /\ \A r \in Requests : pc[r] \in {"done", "failed"}
  /\ UNCHANGED vars

Next ==
  \/ Tick
  \/ \E r \in Requests, S \in SUBSET Services : Begin(r, S)
  \/ \E r \in Requests : Step(r) \/ Fail(r)
  \/ \E p \in Patches : Operator(p)
  \/ Quiescent

\* Threads are scheduled and every call of a step returns or raises: the
\* retries of the LLM client are bounded.
Fairness == \A r \in Requests : WF_vars(Step(r))

Spec == Init /\ [][Next]_vars
FairSpec == Spec /\ Fairness

Ledger == INSTANCE IncidentLedger WITH
  Anomalies <- Anomaly, Incidents <- Incident, ServiceOf <- RowService,
  SeverityFor <- DeriveSeverity, NoIncident <- None, NoCategory <- None,
  recorded <- anomalies, opened <- incidents, file <- link, grade <- severity,
  verdict <- category, announced <- {a.incident : a \in alerts}

(***************************************************************************)
(* Properties that hold whatever the interleaving.                         *)
(***************************************************************************)
\* Every variable has its type.
TypeOK ==
  /\ clock \in Nat
  /\ anomalies \subseteq Anomaly
  /\ link \in [Anomaly -> Incident \cup {None}]
  /\ incidents \subseteq Incident
  /\ severity \in [Incident -> Severities]
  /\ status \in [Incident -> Statuses]
  /\ category \in [Incident -> Categories \cup {None}]
  /\ updated \in [Incident -> Nat]
  /\ resolved \in [Incident -> Nat \cup {None}]
  /\ alerts \subseteq [request : Requests, incident : Incident, channel : ChannelSet,
                       category : Categories \cup {None}, created_at : Nat]
  /\ sent \subseteq [request : Requests, incident : Incident, channel : ChannelSet]
  /\ pc \in [Requests -> Stages \cup {"new", "done", "failed"}]
  /\ now \in [Requests -> Nat]
  /\ todo \in [Requests -> SUBSET Services]
  /\ service \in [Requests -> Services \cup {None}]
  /\ hits \in [Requests -> SUBSET Signals]
  /\ incident \in [Requests -> Incident \cup {None}]
  /\ loaded \in [Requests -> Severities]
  /\ payload \in [Requests -> Categories \cup {None}]
  /\ channel \in [Requests -> Nat \ {0}]
  /\ fired \in [Requests -> SUBSET ChannelSet]
  /\ patch \in [Patches -> [pc : {"new", "loaded", "done"}, incident : Incident \cup {None},
                            want : Statuses, now : Nat, loaded : Statuses]]

\* The severity of an incident is the one the heuristic gives for the anomalies
\* linked to it, although attach_anomalies compares the derived severity with a
\* copy that other requests may have made stale, and skips the write if equal.
SeverityMatchesCount ==
  \A i \in incidents : severity[i] = DeriveSeverity(Cardinality(Linked(i)))

\* An anomaly that belongs to no incident is one its request still holds, or
\* one a failed request left behind between two commits.
OrphansOnlyAfterFailure ==
  \A a \in anomalies :
    link[a] = None =>
      \/ pc[a.request] = "failed"
      \/ /\ pc[a.request] \in {"correlate", "open", "attach"}
         /\ a \in Found(a.request)

\* No channel is ever told about an incident that has no category: triage comes
\* before alerting, whichever request did it.
AlertsFollowTriage ==
  /\ \A a \in alerts : a.category # None /\ category[a.incident] # None
  /\ \A m \in sent : category[m.incident] # None

\* The check-then-send of raise_for_incident lets requests that overlap alert
\* twice, but never more often in one rate-limit window than requests overlap.
AlertBurstBounded ==
  \A a \in alerts :
    Cardinality({b \in alerts : /\ b.incident = a.incident
                                /\ b.channel = a.channel
                                /\ b.created_at \in a.created_at..(a.created_at + AlertRateLimit)})
      <= PoolSize

\* Every message a channel was given has an alert row, or will have one with
\* the pending commit of its request, or its request failed before the commit.
\* No alert row exists for a message that was not sent.
SendsAreRecorded ==
  /\ \A m \in sent :
       \/ \E a \in alerts : a.request = m.request /\ a.incident = m.incident
                            /\ a.channel = m.channel
       \/ pc[m.request] = "alert" /\ m.incident = incident[m.request]
                                  /\ m.channel \in fired[m.request]
       \/ pc[m.request] = "failed"
  /\ \A a \in alerts : \E m \in sent : a.request = m.request /\ a.incident = m.incident
                                       /\ a.channel = m.channel

\* A resolved incident has the time of its resolution, even when PATCH requests
\* overlap and one of them writes columns from a stale copy.
ResolvedHasTimestamp ==
  \A i \in incidents : status[i] = "RESOLVED" => resolved[i] # None

\* An anomaly linked to an incident is never linked to another one.
LinksNeverMove ==
  [][\A a \in Anomaly : link[a] # None => link'[a] = link[a]]_vars

\* The pipeline implements the ledger: anomalies are filed once, under an
\* incident of their service, with the severity kept in step.
ImplementsLedger == Ledger!LedgerSpec

(***************************************************************************)
(* Properties that hold when requests do not overlap (PoolSize = 1).       *)
(***************************************************************************)
\* No incident is opened while an unresolved one of the service was updated
\* within the correlation window: an open incident absorbs new anomalies.
NoDuplicateIncidents ==
  [][\A i \in incidents' \ incidents, j \in incidents :
       j.service = i.service /\ status[j] # "RESOLVED"
         => updated[j] < now[i.opener] - CorrelationWindow]_vars

\* Anomalies are linked to incidents that are not resolved at that moment.
AbsorbedWhileUnresolved ==
  [][\A a \in Anomaly :
       link[a] = None /\ link'[a] # None => status'[link'[a]] # "RESOLVED"]_vars

\* A request triages an incident only while the incident has no category.
TriagedOnlyWhileUntriaged ==
  \A r \in Requests : pc[r] = "triage" => category[incident[r]] = None

\* The category an alert announced is the one the incident has.
AlertsAgreeWithIncident ==
  \A a \in alerts : a.category = category[a.incident]

\* Recorded alerts of an incident on a channel are more than the limit apart.
AlertSpacing ==
  \A a, b \in alerts :
    a # b /\ a.incident = b.incident /\ a.channel = b.channel
      => \/ a.created_at > b.created_at + AlertRateLimit
         \/ b.created_at > a.created_at + AlertRateLimit

\* Every stored anomaly ends up in an incident that was triaged and announced on
\* every channel within the rate-limit window, unless its request fails.
AnomalyIsAnnounced ==
  \A a \in Anomaly :
    a \in anomalies ~>
      \/ pc[a.request] = "failed"
      \/ /\ link[a] # None
         /\ \A c \in ChannelSet : \E b \in alerts :
              /\ b.incident = link[a] /\ b.channel = c
              /\ b.created_at >= now[a.request] - AlertRateLimit

(***************************************************************************)
(* A statement of the documentation that the code does not keep.           *)
(***************************************************************************)
\* "Dedup: same (service, signature) within the window contributes once": an
\* incident holds a signal once per correlation window.
SignalContributesOnce ==
  \A a, b \in anomalies :
    a # b /\ a.service = b.service /\ a.signal = b.signal /\ link[a] = link[b]
          /\ link[a] # None
      => \/ now[a.request] > now[b.request] + CorrelationWindow
         \/ now[b.request] > now[a.request] + CorrelationWindow
=============================================================================
