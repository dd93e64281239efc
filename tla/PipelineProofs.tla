---------------------------- MODULE PipelineProofs ----------------------------
(* Theorems about Pipeline, for every value of its constants. *)
EXTENDS Pipeline, Counting

(***************************************************************************)
(* Type correctness.                                                       *)
(***************************************************************************)
\* Where each stage of process_service has got its service and its incident.
WithService == Stages \ {"detect"}
WithIncident == {"attach", "gate", "triage", "payload", "alert"}

Located ==
  /\ \A r \in Requests : /\ pc[r] \in WithService => service[r] \in Services
                         /\ pc[r] \in WithIncident => incident[r] \in Incident
  /\ \A p \in Patches : patch[p].pc = "loaded" => patch[p].incident \in Incident

TypeInv == TypeOK /\ Located

USE DEF Stages, WithService, WithIncident

LEMMA SeverityType == \A n \in Nat : DeriveSeverity(n) \in Severities
  BY DEF DeriveSeverity, Severities, LOW, MEDIUM, HIGH, CRITICAL

LEMMA TypeInit == Init => TypeInv
  BY WindowAssumption, NoneAssumption
     DEF Init, TypeInv, TypeOK, Located, IdlePatch, Severities, LOW, CRITICAL, Statuses

LEMMA TypeNext == TypeInv /\ [Next]_vars => TypeInv'
  <1> SUFFICES ASSUME TypeInv, [Next]_vars PROVE TypeInv'
    OBVIOUS
  <1> USE DEF TypeInv, TypeOK, Located, Goto
  <1>1. CASE Tick
    BY <1>1 DEF Tick, anomalyTable, incidentTable, outbox, locals
  <1>2. ASSUME NEW r \in Requests, NEW S \in SUBSET Services, Begin(r, S) PROVE TypeInv'
    BY <1>2 DEF Begin, anomalyTable, incidentTable, outbox
  <1>3. ASSUME NEW r \in Requests, NEW s \in Services, NEW K \in SUBSET Signals,
               Detect(r, s, K) PROVE TypeInv'
    <2>1. /\ pc[r] = "detect"
          /\ todo' = [todo EXCEPT ![r] = @ \ {s}]
          /\ UNCHANGED <<clock, anomalies, link, incidents, severity, status, category, updated,
                         resolved, alerts, sent, now, incident, loaded, payload, channel, fired,
                         patch>>
      BY <1>3 DEF Detect, anomalyTable, incidentTable, outbox
    <2>2. CASE K = {}
      <3>1. /\ pc' = [pc EXCEPT ![r] = IF todo[r] = {s} THEN "done" ELSE "detect"]
            /\ UNCHANGED <<service, hits>>
        BY <1>3, <2>2 DEF Detect
      <3>2. QED
        BY <2>1, <3>1
    <2>3. CASE K # {}
      <3>1. /\ pc' = [pc EXCEPT ![r] = "save"]
            /\ service' = [service EXCEPT ![r] = s]
            /\ hits' = [hits EXCEPT ![r] = K]
        BY <1>3, <2>3 DEF Detect
      <3>2. QED
        BY <2>1, <3>1
    <2>4. QED
      BY <2>2, <2>3
  <1>4. ASSUME NEW r \in Requests, SaveAnomalies(r) PROVE TypeInv'
    BY <1>4 DEF SaveAnomalies, Found, Anomaly, incidentTable, outbox, locals
  <1>5. ASSUME NEW r \in Requests, FindOpen(r) PROVE TypeInv'
    <2>1. \A i \in FindOpenForService(service[r], now[r] - CorrelationWindow) : i \in Incident
      BY DEF FindOpenForService, Latest
    <2>2. /\ pc[r] = "correlate"
          /\ UNCHANGED <<clock, anomalies, link, incidents, severity, status, category, updated,
                         resolved, alerts, sent, now, todo, service, hits, payload, channel,
                         fired, patch>>
      BY <1>5 DEF FindOpen, anomalyTable, incidentTable, outbox
    <2>3. CASE pc' = [pc EXCEPT ![r] = "open"] /\ UNCHANGED <<incident, loaded>>
      BY <2>2, <2>3
    <2>4. ASSUME NEW i \in Incident, pc' = [pc EXCEPT ![r] = "attach"],
                 incident' = [incident EXCEPT ![r] = i],
                 loaded' = [loaded EXCEPT ![r] = severity[i]]
          PROVE  TypeInv'
      BY <2>2, <2>4
    <2>5. QED
      BY <1>5, <2>1, <2>3, <2>4 DEF FindOpen
  <1>6. ASSUME NEW r \in Requests, OpenIncident(r) PROVE TypeInv'
    <2>1. [opener |-> r, service |-> service[r]] \in Incident
      BY <1>6 DEF OpenIncident, Incident
    <2>2. DeriveSeverity(Cardinality(Found(r))) \in Severities
      BY DEF DeriveSeverity, Severities, LOW, MEDIUM, HIGH, CRITICAL
    <2>3. QED
      BY <1>6, <2>1, <2>2 DEF OpenIncident, LinkAll, Statuses, outbox
  <1>7. ASSUME NEW r \in Requests, AttachAnomalies(r) PROVE TypeInv'
    <2>1. DeriveSeverity(CountAfterFlush(r, incident[r])) \in Severities
      BY DEF DeriveSeverity, Severities, LOW, MEDIUM, HIGH, CRITICAL
    <2>2. QED
      BY <1>7, <2>1 DEF AttachAnomalies, LinkAll, outbox, locals
  <1>8. ASSUME NEW r \in Requests, TriageGate(r) PROVE TypeInv'
    BY <1>8 DEF TriageGate, anomalyTable, incidentTable, outbox
  <1>9. ASSUME NEW r \in Requests, NEW c \in Categories, SaveTriage(r, c) PROVE TypeInv'
    BY <1>9 DEF SaveTriage, anomalyTable, outbox, locals
  <1>10. ASSUME NEW r \in Requests, BuildPayload(r) PROVE TypeInv'
    BY <1>10 DEF BuildPayload, anomalyTable, incidentTable, outbox
  <1>11. ASSUME NEW r \in Requests, SendOrSkip(r) PROVE TypeInv'
    BY <1>11 DEF SendOrSkip, ChannelSet, anomalyTable, incidentTable
  <1>12. ASSUME NEW r \in Requests, CommitAlerts(r) PROVE TypeInv'
    BY <1>12 DEF CommitAlerts, PendingAlerts, AlertRow, NextService, Forget, ChannelSet,
                 anomalyTable, incidentTable, Severities, LOW, CRITICAL
  <1>13. ASSUME NEW r \in Requests, Fail(r) PROVE TypeInv'
    BY <1>13 DEF Fail, Forget, anomalyTable, incidentTable, outbox, Severities, LOW, CRITICAL
  <1>14. ASSUME NEW p \in Patches, NEW i \in Incident, NEW w \in PatchTargets,
                PatchLoad(p, i, w) PROVE TypeInv'
    BY <1>14, PatchAssumption DEF PatchLoad, anomalyTable, incidentTable, outbox, locals
  <1>15. ASSUME NEW p \in Patches, PatchCommit(p) PROVE TypeInv'
    BY <1>15 DEF PatchCommit, ResolvedAt, IdlePatch, Statuses, anomalyTable, outbox, locals
  <1>16. CASE UNCHANGED vars
    BY <1>16 DEF vars, anomalyTable, incidentTable, outbox, locals
  <1>17. QED
    BY <1>1, <1>2, <1>3, <1>4, <1>5, <1>6, <1>7, <1>8, <1>9, <1>10, <1>11, <1>12, <1>13,
       <1>14, <1>15, <1>16 DEF Next, Step, Operator, Quiescent

\* Every stage has the service and the incident it works on, whatever the interleaving.
THEOREM Typing == Spec => []TypeInv
  BY TypeInit, TypeNext, PTL DEF Spec

\* Every variable keeps its type.
THEOREM TypeCorrect == Spec => []TypeOK
  BY Typing, PTL DEF TypeInv

(***************************************************************************)
(* The heuristic and the sets it counts.                                   *)
(***************************************************************************)
LEMMA SeverityMonotone ==
  ASSUME NEW m \in Nat, NEW n \in Nat, m <= n
  PROVE  DeriveSeverity(m) <= DeriveSeverity(n)
  BY DEF DeriveSeverity, LOW, MEDIUM, HIGH, CRITICAL

\* A write skipped because the derived value equals a copy that is not ahead of
\* the table leaves the derived value in the table.
LEMMA SkippedWrite ==
  ASSUME NEW copy \in Int, NEW table \in Int, NEW derived \in Int,
         copy <= table, table <= derived
  PROVE  (IF derived = copy THEN table ELSE derived) = derived
  OBVIOUS

LEMMA BatchIsFinite ==
  ASSUME NEW r, NEW s, NEW K, IsFiniteSet(K)
  PROVE  IsFiniteSet([request : {r}, service : {s}, signal : K])
  <1> DEFINE S == [request : {r}, service : {s}, signal : K]
             f == [a \in S |-> a.signal]
  <1>1. f \in [S -> K]
    OBVIOUS
  <1>2. ASSUME NEW a \in S, NEW b \in S, f[a] = f[b] PROVE a = b
    BY <1>2
  <1>3. f \in Injection(S, K)
    BY <1>1, <1>2 DEF Injection, IsInjective
  <1>4. QED
    BY <1>3, FS_Injection

(***************************************************************************)
(* The incident book.  SeverityMatchesCount is not inductive: it needs to  *)
(* know that rows are new when they are inserted (OldRows, OldIncidents),  *)
(* that only unlinked rows are linked (HeldUnlinked), and that the copy an *)
(* attaching request compares with is never ahead of the table             *)
(* (LoadedBehind), so that a skipped write changes nothing.                *)
(***************************************************************************)
OldRows ==
  \A a \in anomalies :
    /\ pc[a.request] # "new"
    /\ a.service \notin todo[a.request]
    /\ pc[a.request] = "save" => a.service # service[a.request]

OldIncidents ==
  \A i \in incidents :
    /\ pc[i.opener] # "new"
    /\ i.service \notin todo[i.opener]
    /\ pc[i.opener] \in {"save", "correlate", "open"} => i.service # service[i.opener]

Batch ==
  \A r \in Requests :
    pc[r] \in WithService => service[r] \notin todo[r] /\ hits[r] # {}

LinksKnown ==
  \A a \in Anomaly :
    link[a] # None =>
      a \in anomalies /\ link[a] \in incidents /\ link[a].service = a.service

Holding == {"correlate", "open", "attach"}

HeldUnlinked ==
  \A r \in Requests :
    pc[r] \in Holding => \A a \in Found(r) : a \in anomalies /\ link[a] = None

Target ==
  \A r \in Requests :
    pc[r] \in WithIncident =>
      incident[r] \in incidents /\ incident[r].service = service[r]

LoadedBehind ==
  \A r \in Requests : pc[r] = "attach" => loaded[r] <= severity[incident[r]]

BookInv ==
  /\ IsFiniteSet(anomalies)
  /\ OldRows
  /\ OldIncidents
  /\ Batch
  /\ LinksKnown
  /\ HeldUnlinked
  /\ Target
  /\ LoadedBehind
  /\ SeverityMatchesCount

USE DEF Holding

LEMMA BookInit == Init => BookInv
  BY FS_EmptySet DEF Init, BookInv, OldRows, OldIncidents, Batch, LinksKnown, HeldUnlinked,
                     Target, LoadedBehind, SeverityMatchesCount

\* A batch a request holds is finite, not empty, and not linked yet.
LEMMA HeldBatch ==
  ASSUME TypeInv, BookInv, NEW r \in Requests, pc[r] \in WithService
  PROVE  /\ IsFiniteSet(Found(r))
         /\ Found(r) # {}
         /\ Found(r) \subseteq Anomaly
  <1>1. service[r] \in Services /\ hits[r] \subseteq Signals /\ hits[r] # {}
    BY DEF TypeInv, TypeOK, Located, BookInv, Batch
  <1>2. IsFiniteSet(hits[r])
    BY <1>1, FiniteAssumption, FS_Subset
  <1>3. IsFiniteSet(Found(r))
    BY <1>2, BatchIsFinite DEF Found
  <1>4. PICK k \in hits[r] : TRUE
    BY <1>1
  <1>5. [request |-> r, service |-> service[r], signal |-> k] \in Found(r)
    BY <1>4 DEF Found
  <1>6. Found(r) \subseteq Anomaly
    BY <1>1 DEF Found, Anomaly
  <1>7. QED
    BY <1>3, <1>5, <1>6

\* The anomalies linked to an incident can be counted.
LEMMA LinkedIsFinite ==
  ASSUME BookInv, NEW i
  PROVE  IsFiniteSet(Linked(i)) /\ Cardinality(Linked(i)) \in Nat
  BY FS_Subset, FS_CardinalityType DEF BookInv, Linked

\* A step that changes neither table nor request's place keeps the book; so
\* does one that only moves requests between stages that promise less.
LEMMA BookQuiet ==
  ASSUME TypeInv, BookInv,
         UNCHANGED <<anomalies, link, incidents, severity>>,
         NEW r \in Requests,
         \A q \in Requests \ {r} : /\ pc'[q] = pc[q] /\ todo'[q] = todo[q]
                                   /\ service'[q] = service[q] /\ hits'[q] = hits[q]
                                   /\ incident'[q] = incident[q] /\ loaded'[q] = loaded[q],
         pc'[r] # "new", todo'[r] \subseteq todo[r],
         pc'[r] \in {"detect", "done", "failed"}
           \/ /\ pc[r] \in WithService \ {"save"} /\ pc'[r] \in WithService \ {"save"}
              /\ pc'[r] \in Holding => pc[r] \in Holding
              /\ pc'[r] \in {"correlate", "open"} => pc[r] = "correlate"
              /\ service'[r] = service[r] /\ hits'[r] = hits[r]
              /\ pc'[r] \in WithIncident =>
                   incident'[r] \in incidents /\ incident'[r].service = service[r]
              /\ pc'[r] = "attach" => loaded'[r] <= severity[incident'[r]]
  PROVE  BookInv'
  <1> USE DEF BookInv
  <1>1. IsFiniteSet(anomalies)'
    OBVIOUS
  <1>2. OldRows'
    BY DEF OldRows, TypeInv, TypeOK, Anomaly
  <1>3. OldIncidents'
    BY DEF OldIncidents, TypeInv, TypeOK, Incident
  <1>4. Batch'
    BY DEF Batch
  <1>5. LinksKnown'
    BY DEF LinksKnown
  <1>6. HeldUnlinked'
    BY DEF HeldUnlinked, Found
  <1>7. Target'
    BY DEF Target
  <1>8. LoadedBehind'
    BY DEF LoadedBehind
  <1>9. SeverityMatchesCount'
    BY DEF SeverityMatchesCount, Linked
  <1>10. QED
    BY <1>1, <1>2, <1>3, <1>4, <1>5, <1>6, <1>7, <1>8, <1>9

LEMMA BookDetect ==
  ASSUME TypeInv, BookInv, NEW r \in Requests, NEW s \in Services,
         NEW K \in SUBSET Signals, Detect(r, s, K)
  PROVE  BookInv'
  <1> USE DEF Detect, Goto, TypeInv, TypeOK, anomalyTable, incidentTable
  <1>1. CASE K = {}
    <2>1. pc'[r] \in {"detect", "done"} /\ todo'[r] \subseteq todo[r]
      BY <1>1
    <2>2. QED
      BY <1>1, <2>1, BookQuiet
  <1>2. CASE K # {}
    <2> USE <1>2 DEF BookInv
    <2>1. IsFiniteSet(anomalies)'
      OBVIOUS
    <2>2. OldRows'
      BY DEF OldRows, Anomaly
    <2>3. OldIncidents'
      BY DEF OldIncidents, Incident
    <2>4. Batch'
      BY DEF Batch
    <2>5. LinksKnown'
      BY DEF LinksKnown
    <2>6. HeldUnlinked'
      BY DEF HeldUnlinked, Found
    <2>7. Target'
      BY DEF Target
    <2>8. LoadedBehind'
      BY DEF LoadedBehind
    <2>9. SeverityMatchesCount'
      BY DEF SeverityMatchesCount, Linked
    <2>10. QED
      BY <2>1, <2>2, <2>3, <2>4, <2>5, <2>6, <2>7, <2>8, <2>9
  <1>3. QED
    BY <1>1, <1>2

LEMMA BookSave ==
  ASSUME TypeInv, BookInv, NEW r \in Requests, SaveAnomalies(r)
  PROVE  BookInv'
  <1> USE DEF SaveAnomalies, Goto, TypeInv, TypeOK, incidentTable, locals
  <1>1. IsFiniteSet(Found(r)) /\ Found(r) \subseteq Anomaly
    BY HeldBatch
  <1>2. \A a \in Found(r) : a.request = r /\ a.service = service[r]
    BY DEF Found
  <1>3. \A a \in Found(r) : a \notin anomalies /\ link[a] = None
    BY <1>1, <1>2 DEF BookInv, OldRows, LinksKnown
  <1> USE DEF BookInv
  <1>4. IsFiniteSet(anomalies)'
    BY <1>1, FS_Union
  <1>5. OldRows'
    BY <1>2 DEF OldRows, Batch, Anomaly
  <1>6. OldIncidents'
    BY DEF OldIncidents, Incident
  <1>7. Batch' /\ Target' /\ LoadedBehind'
    BY DEF Batch, Target, LoadedBehind
  <1>8. LinksKnown'
    BY DEF LinksKnown
  <1>9. HeldUnlinked'
    BY <1>3 DEF HeldUnlinked, Found
  <1>10. \A i \in Incident : Linked(i)' = Linked(i)
    BY <1>3, NoneAssumption DEF Linked
  <1>11. SeverityMatchesCount'
    BY <1>10 DEF SeverityMatchesCount
  <1>12. QED
    BY <1>4, <1>5, <1>6, <1>7, <1>8, <1>9, <1>11

LEMMA BookOpen ==
  ASSUME TypeInv, BookInv, NEW r \in Requests, OpenIncident(r)
  PROVE  BookInv'
  <1> DEFINE i == [opener |-> r, service |-> service[r]]
  <1> USE DEF OpenIncident, Goto, TypeInv, TypeOK
  <1>1. i \in Incident /\ i \notin incidents
    BY DEF Located, BookInv, OldIncidents, Incident
  <1>2. /\ IsFiniteSet(Found(r)) /\ Found(r) \subseteq Anomaly
        /\ \A a \in Found(r) : a.request = r /\ a.service = service[r]
    BY HeldBatch DEF Found
  <1>3. \A a \in Found(r) : a \in anomalies /\ link[a] = None
    BY DEF BookInv, HeldUnlinked
  <1>4. \A a \in Anomaly : link'[a] = IF a \in Found(r) THEN i ELSE link[a]
    BY DEF LinkAll
  <1>5. Linked(i)' = Found(r)
    BY <1>1, <1>2, <1>3, <1>4, NoneAssumption DEF Linked, BookInv, LinksKnown
  <1>6. \A j \in incidents : Linked(j)' = Linked(j)
    BY <1>1, <1>3, <1>4, NoneAssumption DEF Linked
  <1> USE DEF BookInv
  <1>7. IsFiniteSet(anomalies)'
    OBVIOUS
  <1>8. OldRows'
    BY DEF OldRows, Anomaly
  <1>9. OldIncidents'
    BY DEF OldIncidents, Batch, Incident
  <1>10. Batch'
    BY DEF Batch
  <1>11. LinksKnown'
    BY <1>2, <1>3, <1>4 DEF LinksKnown
  <1>12. HeldUnlinked'
    <2> SUFFICES ASSUME NEW q \in Requests, pc'[q] \in Holding, NEW a \in Found(q)'
                 PROVE  a \in anomalies' /\ link'[a] = None
      BY DEF HeldUnlinked
    <2>1. q # r /\ pc[q] \in Holding /\ a \in Found(q) /\ a.request = q
      BY DEF Found
    <2>2. a \in Anomaly /\ a \notin Found(r)
      BY <2>1, <1>2, HeldBatch
    <2>3. QED
      BY <2>1, <2>2, <1>4 DEF HeldUnlinked
  <1>13. Target'
    BY DEF Target
  <1>14. LoadedBehind'
    BY <1>1 DEF LoadedBehind, Target
  <1>15. SeverityMatchesCount'
    BY <1>1, <1>5, <1>6 DEF SeverityMatchesCount
  <1>16. QED
    BY <1>7, <1>8, <1>9, <1>10, <1>11, <1>12, <1>13, <1>14, <1>15

\* Absorbing a batch: the count grows, so the severity does not fall, and a
\* derived severity equal to the copy is equal to the one in the table.
LEMMA AttachCounts ==
  ASSUME TypeInv, BookInv, NEW r \in Requests, AttachAnomalies(r)
  PROVE  /\ incident[r] \in incidents
         /\ Linked(incident[r])' = Linked(incident[r]) \cup Found(r)
         /\ \A j \in incidents \ {incident[r]} : Linked(j)' = Linked(j)
         /\ \A a \in Anomaly : link'[a] = IF a \in Found(r) THEN incident[r] ELSE link[a]
         /\ severity'[incident[r]] = DeriveSeverity(CountAfterFlush(r, incident[r]))
         /\ severity[incident[r]] <= severity'[incident[r]]
  <1> DEFINE i == incident[r]
             derived == DeriveSeverity(CountAfterFlush(r, i))
  <1> USE DEF AttachAnomalies, TypeInv, TypeOK, locals
  <1>1. i \in incidents /\ i \in Incident
    BY DEF BookInv, Target, Located
  <1>2. IsFiniteSet(Found(r)) /\ Found(r) \subseteq Anomaly
    BY HeldBatch
  <1>3. \A a \in Found(r) : a \in anomalies /\ link[a] = None
    BY DEF BookInv, HeldUnlinked
  <1>4. \A a \in Anomaly : link'[a] = IF a \in Found(r) THEN i ELSE link[a]
    BY DEF LinkAll
  <1>5. Linked(i)' = Linked(i) \cup Found(r)
    BY <1>1, <1>2, <1>3, <1>4 DEF Linked
  <1>6. \A j \in incidents \ {i} : Linked(j)' = Linked(j)
    BY <1>1, <1>3, <1>4, NoneAssumption DEF Linked
  <1>7. /\ Cardinality(Linked(i)) \in Nat
        /\ CountAfterFlush(r, i) \in Nat
        /\ Cardinality(Linked(i)) <= CountAfterFlush(r, i)
    <2>1. IsFiniteSet(Linked(i) \cup Found(r))
      BY <1>2, LinkedIsFinite, FS_Union
    <2>2. QED
      BY <2>1, LinkedIsFinite, FS_Subset, FS_CardinalityType DEF CountAfterFlush
  <1>8. severity[i] <= derived
    BY <1>1, <1>7, SeverityMonotone DEF BookInv, SeverityMatchesCount
  <1>9. loaded[r] <= severity[i]
    BY DEF BookInv, LoadedBehind
  <1>10. derived \in Int /\ severity[i] \in Int /\ loaded[r] \in Int
    BY <1>1, <1>7, SeverityType DEF Severities, LOW, CRITICAL
  <1>11. severity'[i] = derived
    <2>1. severity'[i] = IF derived = loaded[r] THEN severity[i] ELSE derived
      BY <1>1
    <2> HIDE DEF derived, AttachAnomalies, TypeInv, TypeOK
    <2>2. (IF derived = loaded[r] THEN severity[i] ELSE derived) = derived
      BY <1>8, <1>9, <1>10, SkippedWrite
    <2>3. QED
      BY <2>1, <2>2
  <1>12. QED
    BY <1>1, <1>4, <1>5, <1>6, <1>8, <1>11

LEMMA BookAttach ==
  ASSUME TypeInv, BookInv, NEW r \in Requests, AttachAnomalies(r)
  PROVE  BookInv'
  <1> DEFINE i == incident[r]
  <1> USE DEF AttachAnomalies, Goto, TypeInv, TypeOK, locals
  <1>1. /\ i \in incidents /\ i.service = service[r]
        /\ \A a \in Found(r) : /\ a \in anomalies /\ link[a] = None
                               /\ a.request = r /\ a.service = service[r]
    BY DEF BookInv, Target, HeldUnlinked, Found
  <1>2. \A a \in Anomaly : link'[a] = IF a \in Found(r) THEN i ELSE link[a]
    BY AttachCounts
  <1>3. \A j \in Incident : severity[j] <= severity'[j]
    <2>1. severity[i] <= severity'[i]
      BY AttachCounts
    <2>2. \A j \in Incident \ {i} : severity'[j] = severity[j]
      OBVIOUS
    <2>3. \A j \in Incident : severity[j] \in Int
      BY DEF Severities, LOW, CRITICAL
    <2>4. QED
      BY <2>1, <2>2, <2>3
  <1>4. SeverityMatchesCount'
    <2>1. severity'[i] = DeriveSeverity(Cardinality(Linked(i)'))
      <3>1. /\ Linked(i)' = Linked(i) \cup Found(r)
            /\ severity'[i] = DeriveSeverity(Cardinality(Linked(i) \cup Found(r)))
        BY AttachCounts DEF CountAfterFlush
      <3>2. QED
        BY <3>1
    <2>2. ASSUME NEW j \in incidents'
          PROVE  severity'[j] = DeriveSeverity(Cardinality(Linked(j)'))
      <3>1. CASE j = i
        <4>1. Linked(j)' = Linked(i)'
          BY <3>1 DEF Linked
        <4>2. QED
          BY <2>1, <3>1, <4>1
      <3>2. CASE j # i
        <4>1. j \in incidents /\ Linked(j)' = Linked(j) /\ severity'[j] = severity[j]
          BY <3>2, AttachCounts
        <4>2. QED
          BY <4>1 DEF BookInv, SeverityMatchesCount
      <3>3. QED
        BY <3>1, <3>2
    <2>3. QED
      BY <2>2 DEF SeverityMatchesCount
  <1> USE DEF BookInv
  <1>5. IsFiniteSet(anomalies)'
    OBVIOUS
  <1>6. OldRows' /\ OldIncidents' /\ Batch'
    BY DEF OldRows, OldIncidents, Batch, Anomaly, Incident
  <1>7. LinksKnown'
    BY <1>1, <1>2 DEF LinksKnown
  <1>8. HeldUnlinked'
    <2> SUFFICES ASSUME NEW q \in Requests, pc'[q] \in Holding, NEW a \in Found(q)'
                 PROVE  a \in anomalies' /\ link'[a] = None
      BY DEF HeldUnlinked
    <2>1. q # r /\ pc[q] \in Holding /\ a \in Found(q) /\ a.request = q
      BY DEF Found
    <2>2. a \in Anomaly /\ a \notin Found(r)
      BY <2>1, <1>1, HeldBatch
    <2>3. QED
      BY <2>1, <2>2, <1>2 DEF HeldUnlinked
  <1>9. Target'
    BY DEF Target
  <1>10. LoadedBehind'
    <2> SUFFICES ASSUME NEW q \in Requests, pc'[q] = "attach"
                 PROVE  loaded'[q] <= severity'[incident'[q]]
      BY DEF LoadedBehind
    <2>1. q # r /\ pc[q] = "attach" /\ incident[q] \in Incident
      BY DEF Located
    <2>2. loaded[q] <= severity[incident[q]] /\ severity[incident[q]] <= severity'[incident[q]]
      BY <2>1, <1>3 DEF LoadedBehind
    <2>3. loaded[q] \in Int /\ severity[incident[q]] \in Int
      BY <2>1 DEF Severities, LOW, CRITICAL
    <2>4. severity'[incident[q]] \in Int
      <3>1. severity' \in [Incident -> Severities]
        BY TypeNext DEF Next, Step, TypeInv, TypeOK
      <3>2. QED
        BY <2>1, <3>1 DEF Severities, LOW, CRITICAL
    <2>5. loaded'[q] = loaded[q] /\ incident'[q] = incident[q]
      OBVIOUS
    <2> HIDE DEF AttachAnomalies, TypeInv, TypeOK, BookInv
    <2>6. QED
      BY <2>2, <2>3, <2>4, <2>5
  <1>11. QED
    BY <1>4, <1>5, <1>6, <1>7, <1>8, <1>9, <1>10
LEMMA BookBegin ==
  ASSUME TypeInv, BookInv, NEW r \in Requests, NEW S \in SUBSET Services, Begin(r, S)
  PROVE  BookInv'
  <1> USE DEF Begin, Goto, TypeInv, TypeOK, BookInv, anomalyTable, incidentTable
  <1>1. IsFiniteSet(anomalies)'
    OBVIOUS
  <1>2. OldRows' /\ OldIncidents'
    BY DEF OldRows, OldIncidents, Anomaly, Incident
  <1>3. Batch' /\ LinksKnown' /\ Target' /\ LoadedBehind'
    BY DEF Batch, LinksKnown, Target, LoadedBehind
  <1>4. HeldUnlinked'
    BY DEF HeldUnlinked, Found
  <1>5. SeverityMatchesCount'
    BY DEF SeverityMatchesCount, Linked
  <1>6. QED
    BY <1>1, <1>2, <1>3, <1>4, <1>5

\* Time, operators and idle steps do not concern the book.
LEMMA BookElsewhere ==
  ASSUME BookInv,
         UNCHANGED <<anomalies, link, incidents, severity, pc, todo, service, hits,
                     incident, loaded>>
  PROVE  BookInv'
  BY DEF BookInv, OldRows, OldIncidents, Batch, LinksKnown, HeldUnlinked, Found, Target,
         LoadedBehind, SeverityMatchesCount, Linked

LEMMA BookNext == TypeInv /\ BookInv /\ [Next]_vars => BookInv'
  <1> SUFFICES ASSUME TypeInv, BookInv, [Next]_vars PROVE BookInv'
    OBVIOUS
  <1>1. CASE Tick
    BY <1>1, BookElsewhere DEF Tick, anomalyTable, incidentTable, locals
  <1>2. ASSUME NEW r \in Requests, NEW S \in SUBSET Services, Begin(r, S) PROVE BookInv'
    BY <1>2, BookBegin
  <1>3. ASSUME NEW r \in Requests, NEW s \in Services, NEW K \in SUBSET Signals,
               Detect(r, s, K) PROVE BookInv'
    BY <1>3, BookDetect
  <1>4. ASSUME NEW r \in Requests, SaveAnomalies(r) PROVE BookInv'
    BY <1>4, BookSave
  <1>5. ASSUME NEW r \in Requests, FindOpen(r) PROVE BookInv'
    <2> USE <1>5 DEF FindOpen, Goto, TypeInv, TypeOK, anomalyTable, incidentTable
    <2>1. CASE pc' = [pc EXCEPT ![r] = "open"] /\ UNCHANGED <<incident, loaded>>
      BY <2>1, BookQuiet
    <2>2. ASSUME NEW i \in FindOpenForService(service[r], now[r] - CorrelationWindow),
                 pc' = [pc EXCEPT ![r] = "attach"],
                 incident' = [incident EXCEPT ![r] = i],
                 loaded' = [loaded EXCEPT ![r] = severity[i]]
          PROVE  BookInv'
      <3>1. i \in incidents /\ i \in Incident /\ i.service = service[r]
        BY DEF FindOpenForService, Latest
      <3>2. severity[i] <= severity[i]
        BY <3>1 DEF Severities, LOW, CRITICAL
      <3>3. QED
        BY <2>2, <3>1, <3>2, BookQuiet
    <2>3. QED
      BY <2>1, <2>2
  <1>6. ASSUME NEW r \in Requests, OpenIncident(r) PROVE BookInv'
    BY <1>6, BookOpen
  <1>7. ASSUME NEW r \in Requests, AttachAnomalies(r) PROVE BookInv'
    BY <1>7, BookAttach
  <1>8. ASSUME NEW r \in Requests,
               \/ TriageGate(r) \/ BuildPayload(r)
               \/ \E c \in Categories : SaveTriage(r, c)
        PROVE  BookInv'
    BY <1>8, BookQuiet
       DEF TriageGate, BuildPayload, SaveTriage, Goto, TypeInv, TypeOK, BookInv, Target,
           anomalyTable, incidentTable, locals
  <1>9. ASSUME NEW r \in Requests, SendOrSkip(r) PROVE BookInv'
    BY <1>9, BookElsewhere DEF SendOrSkip, anomalyTable, incidentTable
  <1>10. ASSUME NEW r \in Requests, CommitAlerts(r) \/ Fail(r) PROVE BookInv'
    BY <1>10, BookQuiet
       DEF CommitAlerts, Fail, NextService, Forget, Goto, TypeInv, TypeOK, anomalyTable,
           incidentTable
  <1>11. ASSUME NEW p \in Patches, Operator(p) PROVE BookInv'
    BY <1>11, BookElsewhere
       DEF Operator, PatchLoad, PatchCommit, anomalyTable, incidentTable, locals
  <1>12. CASE UNCHANGED vars
    BY <1>12, BookElsewhere DEF vars, anomalyTable, incidentTable, locals
  <1>13. QED
    BY <1>1, <1>2, <1>3, <1>4, <1>5, <1>6, <1>7, <1>8, <1>9, <1>10, <1>11, <1>12
       DEF Next, Step, Quiescent

\* The incident book is an invariant.
THEOREM Book == Spec => []BookInv
  <1>1. Init => TypeInv /\ BookInv
    BY TypeInit, BookInit
  <1>2. TypeInv /\ BookInv /\ [Next]_vars => (TypeInv /\ BookInv)'
    BY TypeNext, BookNext
  <1>3. QED
    BY <1>1, <1>2, PTL DEF Spec

\* However the requests interleave, and although attach_anomalies compares with
\* a copy that may be stale, the severity of an incident is the one the
\* heuristic gives for the anomalies linked to it.
THEOREM SeverityCorrect == Spec => []SeverityMatchesCount
  <1>1. BookInv => SeverityMatchesCount
    BY DEF BookInv
  <1>2. QED
    BY <1>1, Book, PTL

\* An anomaly linked to an incident is never linked to another one: only rows
\* that their request inserted and nobody linked are ever linked.
THEOREM LinksStable == Spec => LinksNeverMove
  <1>1. ASSUME TypeInv, BookInv, [Next]_vars
        PROVE  \A a \in Anomaly : link[a] # None => link'[a] = link[a]
    <2>1. ASSUME NEW r \in Requests, OpenIncident(r) \/ AttachAnomalies(r)
          PROVE  \A a \in Anomaly : link[a] # None => link'[a] = link[a]
      <3>1. pc[r] \in Holding
        BY <2>1 DEF OpenIncident, AttachAnomalies
      <3>2. \A a \in Found(r) : link[a] = None
        BY <1>1, <3>1 DEF BookInv, HeldUnlinked
      <3>3. \E i : link' = LinkAll(Found(r), i)
        BY <2>1 DEF OpenIncident, AttachAnomalies
      <3>4. QED
        BY <3>2, <3>3 DEF LinkAll
    <2>2. UNCHANGED link \/ \E r \in Requests : OpenIncident(r) \/ AttachAnomalies(r)
      BY <1>1
         DEF Next, Step, Operator, Quiescent, Tick, Begin, Detect, SaveAnomalies, FindOpen,
             TriageGate, SaveTriage, BuildPayload, SendOrSkip, CommitAlerts, Fail, PatchLoad,
             PatchCommit, vars, anomalyTable
    <2>3. QED
      BY <2>1, <2>2
  <1>2. TypeInv /\ BookInv /\ [Next]_vars
          => [\A a \in Anomaly : link[a] # None => link'[a] = link[a]]_vars
    BY <1>1
  <1>3. QED
    BY <1>2, Typing, Book, PTL DEF Spec, LinksNeverMove
(***************************************************************************)
(* Anomalies without an incident.                                          *)
(***************************************************************************)
LEMMA OrphansNext ==
  ASSUME TypeInv, BookInv, OrphansOnlyAfterFailure, [Next]_vars
  PROVE  OrphansOnlyAfterFailure'
  <1> USE DEF OrphansOnlyAfterFailure, TypeInv, TypeOK, Goto, Anomaly
  <1>1. CASE Tick \/ UNCHANGED vars
    BY <1>1 DEF Tick, Found, vars, anomalyTable, incidentTable, locals
  <1>2. ASSUME NEW r \in Requests, NEW S \in SUBSET Services, Begin(r, S)
        PROVE  OrphansOnlyAfterFailure'
    BY <1>2 DEF Begin, Found, anomalyTable
  <1>3. ASSUME NEW r \in Requests, NEW s \in Services, NEW K \in SUBSET Signals,
               Detect(r, s, K) PROVE OrphansOnlyAfterFailure'
    BY <1>3 DEF Detect, Found, anomalyTable
  <1>4. ASSUME NEW r \in Requests, SaveAnomalies(r) PROVE OrphansOnlyAfterFailure'
    BY <1>4 DEF SaveAnomalies, Found, locals
  <1>5. ASSUME NEW r \in Requests, FindOpen(r) PROVE OrphansOnlyAfterFailure'
    BY <1>5 DEF FindOpen, Found, anomalyTable
  <1>6. ASSUME NEW r \in Requests, OpenIncident(r) \/ AttachAnomalies(r)
        PROVE  OrphansOnlyAfterFailure'
    <2>1. PICK i \in Incident : link' = LinkAll(Found(r), i)
      BY <1>6 DEF OpenIncident, AttachAnomalies, Located, Incident
    <2>2. /\ pc[r] \in Holding /\ anomalies' = anomalies
          /\ pc' = [pc EXCEPT ![r] = "gate"] /\ service' = service /\ hits' = hits
      BY <1>6 DEF OpenIncident, AttachAnomalies, locals
    <2>3. QED
      BY <2>1, <2>2, NoneAssumption DEF LinkAll, Found
  <1>7. ASSUME NEW r \in Requests,
               \/ TriageGate(r) \/ BuildPayload(r) \/ SendOrSkip(r) \/ CommitAlerts(r)
               \/ Fail(r) \/ \E c \in Categories : SaveTriage(r, c)
        PROVE  OrphansOnlyAfterFailure'
    BY <1>7 DEF TriageGate, BuildPayload, SendOrSkip, CommitAlerts, Fail, SaveTriage,
                NextService, Forget, Found, anomalyTable, locals
  <1>8. ASSUME NEW p \in Patches, Operator(p) PROVE OrphansOnlyAfterFailure'
    BY <1>8 DEF Operator, PatchLoad, PatchCommit, Found, anomalyTable, locals
  <1>9. QED
    BY <1>1, <1>2, <1>3, <1>4, <1>5, <1>6, <1>7, <1>8 DEF Next, Step, Quiescent

\* Between the commit that inserts anomalies and the one that links them only a
\* failure can leave an anomaly without an incident.
THEOREM NoSilentOrphans == Spec => []OrphansOnlyAfterFailure
  <1>1. Init => OrphansOnlyAfterFailure
    BY DEF Init, OrphansOnlyAfterFailure
  <1>2. QED
    BY <1>1, OrphansNext, Typing, Book, PTL DEF Spec

(***************************************************************************)
(* Triage before alerts.                                                   *)
(***************************************************************************)
\* A request that is past triage works on an incident that has a category, and
\* its payload carries one.
PastTriage ==
  \A r \in Requests :
    /\ pc[r] \in {"payload", "alert"} => category[incident[r]] # None
    /\ pc[r] = "alert" => payload[r] # None

TriageInv == AlertsFollowTriage /\ PastTriage

\* A category is never taken back.
LEMMA CategoryStays ==
  ASSUME TypeInv, [Next]_vars
  PROVE  \A i \in Incident : category[i] # None => category'[i] # None
  <1>1. ASSUME NEW r \in Requests, NEW c \in Categories, SaveTriage(r, c)
        PROVE  \A i \in Incident : category[i] # None => category'[i] # None
    BY <1>1, NoneAssumption DEF SaveTriage, TypeInv, TypeOK
  <1>2. \/ UNCHANGED category
        \/ \E r \in Requests, c \in Categories : SaveTriage(r, c)
    BY DEF Next, Step, Operator, Quiescent, Tick, Begin, Detect, SaveAnomalies, FindOpen,
           OpenIncident, AttachAnomalies, TriageGate, BuildPayload, SendOrSkip,
           CommitAlerts, Fail, PatchLoad, PatchCommit, vars, incidentTable
  <1>3. QED
    BY <1>1, <1>2

LEMMA TriageNext ==
  ASSUME TypeInv, TriageInv, [Next]_vars
  PROVE  TriageInv'
  <1> USE DEF TypeInv, TypeOK, Located, TriageInv, PastTriage, Goto
  <1>1. \A i \in Incident : category[i] # None => category'[i] # None
    BY CategoryStays
  <1>2. AlertsFollowTriage'
    <2> USE DEF AlertsFollowTriage
    <2>1. ASSUME NEW r \in Requests, SendOrSkip(r) PROVE AlertsFollowTriage'
      BY <2>1 DEF SendOrSkip, incidentTable
    <2>2. ASSUME NEW r \in Requests, CommitAlerts(r) PROVE AlertsFollowTriage'
      BY <2>2 DEF CommitAlerts, PendingAlerts, AlertRow, incidentTable
    <2>3. CASE UNCHANGED outbox
      BY <2>3, <1>1 DEF outbox
    <2>4. UNCHANGED outbox \/ \E r \in Requests : SendOrSkip(r) \/ CommitAlerts(r)
      BY DEF Next, Step, Operator, Quiescent, Tick, Begin, Detect, SaveAnomalies, FindOpen,
             OpenIncident, AttachAnomalies, TriageGate, SaveTriage, BuildPayload, Fail,
             PatchLoad, PatchCommit, vars
    <2>5. QED
      BY <2>1, <2>2, <2>3, <2>4
  <1>3. PastTriage'
    <2>1. ASSUME NEW r \in Requests, TriageGate(r) PROVE PastTriage'
      BY <2>1 DEF TriageGate, NeedsTriage, incidentTable
    <2>2. ASSUME NEW r \in Requests, NEW c \in Categories, SaveTriage(r, c)
          PROVE  PastTriage'
      BY <2>2, <1>1, NoneAssumption DEF SaveTriage, locals
    <2>3. ASSUME NEW r \in Requests, BuildPayload(r) PROVE PastTriage'
      BY <2>3 DEF BuildPayload, incidentTable
    <2>4. ASSUME NEW r \in Requests,
                 \/ \E s \in Services, K \in SUBSET Signals : Detect(r, s, K)
                 \/ SaveAnomalies(r) \/ FindOpen(r) \/ OpenIncident(r)
                 \/ AttachAnomalies(r) \/ SendOrSkip(r) \/ CommitAlerts(r) \/ Fail(r)
                 \/ \E S \in SUBSET Services : Begin(r, S)
          PROVE  PastTriage'
      BY <2>4
         DEF Detect, SaveAnomalies, FindOpen, OpenIncident, AttachAnomalies, SendOrSkip,
             CommitAlerts, Fail, Begin, NextService, Forget, incidentTable, locals
    <2>5. CASE UNCHANGED <<pc, category, incident, payload>>
      BY <2>5
    <2>6. ASSUME Tick \/ UNCHANGED vars \/ \E p \in Patches : Operator(p)
          PROVE  UNCHANGED <<pc, category, incident, payload>>
      BY <2>6 DEF Tick, Operator, PatchLoad, PatchCommit, vars, incidentTable, locals
    <2>7. QED
      BY <2>1, <2>2, <2>3, <2>4, <2>5, <2>6 DEF Next, Step, Quiescent
  <1>4. QED
    BY <1>2, <1>3

\* No channel hears of an incident that was not triaged: triage comes before
\* alerting, and no later step takes the category back.
THEOREM TriageBeforeAlerts == Spec => []AlertsFollowTriage
  <1>1. Init => TriageInv
    BY DEF Init, TriageInv, AlertsFollowTriage, PastTriage
  <1>2. TriageInv => AlertsFollowTriage
    BY DEF TriageInv
  <1>3. QED
    BY <1>1, <1>2, TriageNext, Typing, PTL DEF Spec
(***************************************************************************)
(* Resolution.                                                             *)
(***************************************************************************)
LEMMA ResolvedNext ==
  ASSUME TypeInv, ResolvedHasTimestamp, [Next]_vars
  PROVE  ResolvedHasTimestamp'
  <1>1. \/ UNCHANGED <<incidents, status, resolved>>
        \/ \E r \in Requests : OpenIncident(r)
        \/ \E p \in Patches : PatchCommit(p)
    <2> SUFFICES ASSUME ~ \E r \in Requests : OpenIncident(r),
                        ~ \E p \in Patches : PatchCommit(p)
                 PROVE  UNCHANGED <<incidents, status, resolved>>
      OBVIOUS
    <2>1. ASSUME NEW r \in Requests, Step(r) \/ Fail(r)
          PROVE  UNCHANGED <<incidents, status, resolved>>
      BY <2>1 DEF Step, Detect, SaveAnomalies, FindOpen, AttachAnomalies, TriageGate, SaveTriage,
                  BuildPayload, SendOrSkip, CommitAlerts, Fail, incidentTable
    <2>2. ASSUME NEW p \in Patches, Operator(p)
          PROVE  UNCHANGED <<incidents, status, resolved>>
      BY <2>2 DEF Operator, PatchLoad, incidentTable
    <2>3. QED
      BY <2>1, <2>2 DEF Next, Quiescent, Tick, Begin, vars, incidentTable
  <1> USE DEF TypeInv, TypeOK, Located, ResolvedHasTimestamp
  <1>2. ASSUME NEW r \in Requests, OpenIncident(r) PROVE ResolvedHasTimestamp'
    BY <1>2 DEF OpenIncident, Incident
  <1>3. ASSUME NEW p \in Patches, PatchCommit(p) PROVE ResolvedHasTimestamp'
    BY <1>3, NoneAssumption DEF PatchCommit, ResolvedAt
  <1>4. CASE UNCHANGED <<incidents, status, resolved>>
    BY <1>4
  <1>5. QED
    BY <1>1, <1>2, <1>3, <1>4

\* An incident that is resolved has a resolution time, whatever PATCH requests
\* overlap: each sets the time before it may set the status, in one transaction.
THEOREM ResolutionIsTimed == Spec => []ResolvedHasTimestamp
  <1>1. Init => ResolvedHasTimestamp
    BY DEF Init, ResolvedHasTimestamp
  <1>2. QED
    BY <1>1, ResolvedNext, Typing, PTL DEF Spec

(***************************************************************************)
(* Messages and alert rows.                                                *)
(***************************************************************************)
\* Channel c was given a message about incident i by request r; a row says so.
Told(r, i, c) == \E m \in sent : m.request = r /\ m.incident = i /\ m.channel = c
Row(r, i, c) == \E a \in alerts : a.request = r /\ a.incident = i /\ a.channel = c
Pending(r, i, c) == pc[r] = "alert" /\ i = incident[r] /\ c \in fired[r]

\* The rows pending in a session belong to messages its request really sent.
PendingSent ==
  \A r \in Requests :
    /\ pc[r] # "alert" => fired[r] = {}
    /\ \A c \in fired[r] : Told(r, incident[r], c)

Accounted ==
  \A r \in Requests, i \in Incident, c \in ChannelSet :
    /\ Told(r, i, c) => Row(r, i, c) \/ Pending(r, i, c) \/ pc[r] = "failed"
    /\ Row(r, i, c) => Told(r, i, c)

OutboxInv == Accounted /\ PendingSent

LEMMA AccountedMeans ==
  ASSUME TypeInv, Accounted
  PROVE  SendsAreRecorded
  <1>1. ASSUME NEW m \in sent
        PROVE  \/ Row(m.request, m.incident, m.channel)
               \/ Pending(m.request, m.incident, m.channel)
               \/ pc[m.request] = "failed"
    <2>1. m.request \in Requests /\ m.incident \in Incident /\ m.channel \in ChannelSet
      BY DEF TypeInv, TypeOK
    <2>2. Told(m.request, m.incident, m.channel)
      BY DEF Told
    <2>3. QED
      BY <2>1, <2>2 DEF Accounted
  <1>2. ASSUME NEW a \in alerts PROVE Told(a.request, a.incident, a.channel)
    <2>1. a.request \in Requests /\ a.incident \in Incident /\ a.channel \in ChannelSet
      BY DEF TypeInv, TypeOK
    <2>2. Row(a.request, a.incident, a.channel)
      BY DEF Row
    <2>3. QED
      BY <2>1, <2>2 DEF Accounted
  <1>3. QED
    BY <1>1, <1>2 DEF SendsAreRecorded, Told, Row, Pending

\* What a step has to respect when it neither sends nor stores.
LEMMA OutboxQuiet ==
  ASSUME OutboxInv, UNCHANGED <<alerts, sent>>, NEW r \in Requests,
         \A q \in Requests \ {r} : /\ pc'[q] = pc[q] /\ incident'[q] = incident[q]
                                   /\ fired'[q] = fired[q],
         \/ fired'[r] = fired[r] /\ pc[r] \notin {"alert", "failed"}
         \/ fired'[r] = {} /\ pc'[r] = "failed"
  PROVE  OutboxInv'
  <1>1. \A q, i, c : Told(q, i, c)' = Told(q, i, c) /\ Row(q, i, c)' = Row(q, i, c)
    BY DEF Told, Row
  <1>2. PendingSent'
    BY <1>1 DEF OutboxInv, PendingSent
  <1>3. \A q \in Requests : \A i, c : Pending(q, i, c) => Pending(q, i, c)' \/ pc'[q] = "failed"
    BY DEF Pending
  <1>4. \A q \in Requests : pc[q] = "failed" => pc'[q] = "failed"
    OBVIOUS
  <1>5. Accounted'
    BY <1>1, <1>3, <1>4 DEF OutboxInv, Accounted
  <1>6. QED
    BY <1>2, <1>5 DEF OutboxInv

LEMMA OutboxSend ==
  ASSUME TypeInv, OutboxInv, NEW r \in Requests, SendOrSkip(r)
  PROVE  OutboxInv'
  <1>1. /\ pc[r] = "alert" /\ UNCHANGED <<pc, incident, alerts>>
        /\ pc \in [Requests -> Stages \cup {"new", "done", "failed"}]
        /\ fired \in [Requests -> SUBSET ChannelSet]
    BY DEF SendOrSkip, TypeInv, TypeOK
  <1>2. CASE UNCHANGED <<sent, fired>>
    BY <1>1, <1>2 DEF OutboxInv, Accounted, PendingSent, Told, Row, Pending
  <1>3. ASSUME NEW d \in ChannelSet,
               sent' = sent \cup {[request |-> r, incident |-> incident[r],
                                   channel |-> d]},
               fired' = [fired EXCEPT ![r] = @ \cup {d}]
        PROVE  OutboxInv'
    <2>1. \A q, i, c : /\ Row(q, i, c)' = Row(q, i, c)
                       /\ Told(q, i, c) => Told(q, i, c)'
      BY <1>1, <1>3 DEF Told, Row
    <2>2. Told(r, incident[r], d)'
      <3> DEFINE m == [request |-> r, incident |-> incident[r], channel |-> d]
      <3>1. m \in sent' /\ m.request = r /\ m.incident = incident[r] /\ m.channel = d
        BY <1>3
      <3>2. QED
        BY <3>1, <1>1 DEF Told
    <2>3. \A q, i, c : Told(q, i, c)' => Told(q, i, c) \/ (q = r /\ i = incident[r] /\ c = d)
      BY <1>3 DEF Told
    <2>4. \A q \in Requests : fired[q] \subseteq fired'[q] /\ (q # r => fired'[q] = fired[q])
      BY <1>1, <1>3
    <2>5. fired'[r] = fired[r] \cup {d}
      BY <1>1, <1>3
    <2>6. PendingSent'
      BY <1>1, <2>1, <2>2, <2>4, <2>5 DEF OutboxInv, PendingSent
    <2>7. Accounted'
      <3> SUFFICES ASSUME NEW q \in Requests, NEW i \in Incident, NEW c \in ChannelSet
                   PROVE  /\ Told(q, i, c)' => Row(q, i, c)' \/ Pending(q, i, c)' \/ pc'[q] = "failed"
                          /\ Row(q, i, c)' => Told(q, i, c)'
        BY DEF Accounted
      <3>1. Row(q, i, c)' => Told(q, i, c)'
        BY <2>1 DEF OutboxInv, Accounted
      <3>2. CASE Told(q, i, c)
        <4>1. Pending(q, i, c) => Pending(q, i, c)'
          BY <1>1, <2>4 DEF Pending
        <4>2. QED
          BY <1>1, <2>1, <3>1, <3>2, <4>1 DEF OutboxInv, Accounted
      <3>3. CASE q = r /\ i = incident[r] /\ c = d
        BY <1>1, <2>5, <3>1, <3>3 DEF Pending
      <3>4. QED
        BY <2>3, <3>1, <3>2, <3>3
    <2>8. QED
      BY <2>6, <2>7 DEF OutboxInv
  <1>4. QED
    BY <1>2, <1>3 DEF SendOrSkip, ChannelSet

LEMMA OutboxCommit ==
  ASSUME TypeInv, OutboxInv, NEW r \in Requests, CommitAlerts(r)
  PROVE  OutboxInv'
  <1>1. /\ pc[r] = "alert" /\ sent' = sent /\ alerts' = alerts \cup PendingAlerts(r)
        /\ \A q \in Requests \ {r} : /\ pc'[q] = pc[q] /\ incident'[q] = incident[q]
                                      /\ fired'[q] = fired[q]
        /\ fired'[r] = {}
    BY DEF CommitAlerts, Forget, Goto, TypeInv, TypeOK
  <1>2. \A q, i, c : /\ Told(q, i, c)' = Told(q, i, c)
                     /\ Row(q, i, c) => Row(q, i, c)'
    BY <1>1 DEF Told, Row
  <1>3. ASSUME NEW i, i = incident[r], NEW c \in fired[r] PROVE Row(r, i, c)'
    <2>1. /\ AlertRow(r, c) \in alerts' /\ AlertRow(r, c).request = r
          /\ AlertRow(r, c).incident = i /\ AlertRow(r, c).channel = c
      BY <1>1, <1>3 DEF PendingAlerts, AlertRow
    <2>2. QED
      BY <2>1 DEF Row
  <1>4. \A q, i, c : Row(q, i, c)' =>
          Row(q, i, c) \/ (q = r /\ i = incident[r] /\ c \in fired[r])
    BY <1>1 DEF Row, PendingAlerts, AlertRow
  <1>5. PendingSent'
    BY <1>1, <1>2 DEF OutboxInv, PendingSent
  <1>6. Accounted'
    <2> SUFFICES ASSUME NEW q \in Requests, NEW i \in Incident, NEW c \in ChannelSet
                 PROVE  /\ Told(q, i, c)' => Row(q, i, c)' \/ Pending(q, i, c)' \/ pc'[q] = "failed"
                        /\ Row(q, i, c)' => Told(q, i, c)'
      BY DEF Accounted
    <2>1. Row(q, i, c)' => Told(q, i, c)'
      <3>1. CASE Row(q, i, c)
        BY <1>2, <3>1 DEF OutboxInv, Accounted
      <3>2. CASE q = r /\ i = incident[r] /\ c \in fired[r]
        BY <1>2, <3>2 DEF OutboxInv, PendingSent
      <3>3. QED
        BY <1>4, <3>1, <3>2
    <2>2. Pending(q, i, c) => Row(q, i, c)' \/ Pending(q, i, c)'
      BY <1>1, <1>3 DEF Pending
    <2>3. pc[q] = "failed" => pc'[q] = "failed"
      BY <1>1
    <2>4. QED
      BY <1>2, <2>1, <2>2, <2>3 DEF OutboxInv, Accounted
  <1>7. QED
    BY <1>5, <1>6 DEF OutboxInv

LEMMA OutboxNext ==
  ASSUME TypeInv, OutboxInv, [Next]_vars
  PROVE  OutboxInv'
  <1>1. ASSUME NEW r \in Requests, Fail(r) PROVE OutboxInv'
    BY <1>1, OutboxQuiet DEF Fail, Forget, Goto, outbox, TypeInv, TypeOK
  <1>2. ASSUME NEW r \in Requests,
               \/ \E s \in Services, K \in SUBSET Signals : Detect(r, s, K)
               \/ SaveAnomalies(r) \/ FindOpen(r) \/ OpenIncident(r)
               \/ AttachAnomalies(r) \/ TriageGate(r) \/ BuildPayload(r)
               \/ \E c \in Categories : SaveTriage(r, c)
               \/ \E S \in SUBSET Services : Begin(r, S)
        PROVE  OutboxInv'
    <2>1. /\ UNCHANGED <<alerts, sent, fired>>
          /\ pc[r] \notin {"alert", "failed"}
          /\ \A q \in Requests \ {r} : pc'[q] = pc[q] /\ incident'[q] = incident[q]
      BY <1>2
         DEF Detect, SaveAnomalies, FindOpen, OpenIncident, AttachAnomalies, TriageGate,
             BuildPayload, SaveTriage, Begin, Goto, outbox, locals, TypeInv, TypeOK
    <2>2. QED
      BY <2>1, OutboxQuiet
  <1>3. ASSUME Tick \/ UNCHANGED vars \/ \E p \in Patches : Operator(p)
        PROVE  OutboxInv'
    <2>1. UNCHANGED <<alerts, sent, fired, pc, incident>>
      BY <1>3 DEF Tick, Operator, PatchLoad, PatchCommit, vars, outbox, locals
    <2>2. QED
      BY <2>1 DEF OutboxInv, Accounted, PendingSent, Told, Row, Pending
  <1>4. QED
    BY <1>1, <1>2, <1>3, OutboxSend, OutboxCommit DEF Next, Step, Quiescent

\* Every message has its alert row, or is about to get it with the pending commit
\* of its request, or its request failed first; no row stands for a message that
\* was not sent.
THEOREM MessagesAreRecorded == Spec => []SendsAreRecorded
  <1>1. Init => OutboxInv
    BY DEF Init, OutboxInv, Accounted, PendingSent, Told, Row
  <1>2. TypeInv /\ OutboxInv => SendsAreRecorded
    BY AccountedMeans DEF OutboxInv
  <1>3. QED
    BY <1>1, <1>2, OutboxNext, Typing, PTL DEF Spec

(***************************************************************************)
(* Bursts of alerts.  Requests that alert one incident on one channel      *)
(* within a rate-limit window have all passed the check before the first   *)
(* of them committed, so they were being worked on together.               *)
(***************************************************************************)
\* No more requests are being worked on than there are threads.
PoolKept == IsFiniteSet(Busy) /\ Cardinality(Busy) <= PoolSize

\* A row has the time of its request, which stores it once.
RowsOnce ==
  /\ \A a \in alerts : pc[a.request] # "new" /\ a.created_at = now[a.request]
  /\ \A a, b \in alerts :
       a.request = b.request /\ a.incident = b.incident /\ a.channel = b.channel => a = b
  /\ \A r \in Requests, a \in alerts :
       a.request = r /\ a.incident = incident[r] => a.channel \notin fired[r]

\* The requests that alert incident i on channel c in the window that begins at t.
Window(t) == t..(t + AlertRateLimit)
Stored(i, c, t) ==
  {r \in Requests : /\ now[r] \in Window(t)
                    /\ \E a \in alerts : a.request = r /\ a.incident = i /\ a.channel = c}
Sending(i, c, t) == {r \in Requests : now[r] \in Window(t) /\ Pending(r, i, c)}

Together(S) == IsFiniteSet(S) /\ Cardinality(S) <= PoolSize

BurstInv ==
  /\ PoolKept
  /\ RowsOnce
  /\ \A r \in Requests : pc[r] # "alert" => fired[r] = {}
  /\ \A i \in Incident, c \in ChannelSet, t \in Nat :
       Together(Stored(i, c, t) \cup Sending(i, c, t))

LEMMA FewerTogether ==
  ASSUME NEW S, NEW T, T \subseteq S, Together(S)
  PROVE  Together(T)
  <1>1. IsFiniteSet(T) /\ Cardinality(T) <= Cardinality(S)
    BY FS_Subset DEF Together
  <1>2. Cardinality(T) \in Nat /\ Cardinality(S) \in Nat
    BY <1>1, FS_CardinalityType DEF Together
  <1> QED
    BY <1>1, <1>2, PoolAssumption DEF Together

LEMMA OneMoreBusy ==
  ASSUME PoolKept, FreeThread, NEW x, Busy' \subseteq Busy \cup {x}
  PROVE  PoolKept'
  <1>1. IsFiniteSet(Busy \cup {x}) /\ Cardinality(Busy) \in Nat
    BY FS_AddElement, FS_CardinalityType DEF PoolKept
  <1>2. Cardinality(Busy \cup {x}) <= Cardinality(Busy) + 1 /\ Cardinality(Busy \cup {x}) \in Nat
    BY <1>1, FS_AddElement, FS_CardinalityType DEF PoolKept
  <1>3. Together(Busy \cup {x})
    BY <1>1, <1>2, PoolAssumption DEF FreeThread, Together
  <1> QED
    BY <1>3, FewerTogether DEF Together, PoolKept

LEMMA PoolNext == TypeInv /\ PoolKept /\ [Next]_vars => PoolKept'
  <1> SUFFICES ASSUME TypeInv, PoolKept, [Next]_vars PROVE PoolKept'
    OBVIOUS
  <1> USE DEF TypeInv, TypeOK, Goto, Active
  <1>1. CASE Busy' \subseteq Busy
    BY <1>1, FewerTogether DEF Together, PoolKept
  <1>2. ASSUME NEW r \in Requests, NEW S \in SUBSET Services, Begin(r, S) PROVE PoolKept'
    <2>1. Busy' \subseteq Busy \cup {r}
      BY <1>2 DEF Begin, Busy
    <2> QED
      BY <1>2, <2>1, OneMoreBusy DEF Begin
  <1>3. ASSUME NEW p \in Patches, NEW i \in Incident, NEW w \in PatchTargets, PatchLoad(p, i, w)
        PROVE  PoolKept'
    <2>1. Busy' \subseteq Busy \cup {p}
      BY <1>3 DEF PatchLoad, Busy
    <2> QED
      BY <1>3, <2>1, OneMoreBusy DEF PatchLoad
  <1>4. ASSUME NEW p \in Patches, PatchCommit(p) PROVE Busy' \subseteq Busy
    BY <1>4 DEF PatchCommit, IdlePatch, Busy
  <1>5. ASSUME NEW r \in Requests, Step(r) \/ Fail(r) PROVE Busy' \subseteq Busy
    <2>1. pc[r] \in Stages /\ patch' = patch /\ \A q \in Requests \ {r} : pc'[q] = pc[q]
      <3>1. CASE Fail(r)
        BY <3>1 DEF Fail
      <3>2. ASSUME NEW s \in Services, NEW K \in SUBSET Signals, Detect(r, s, K)
            PROVE  pc[r] \in Stages /\ patch' = patch /\ \A q \in Requests \ {r} : pc'[q] = pc[q]
        BY <3>2 DEF Detect
      <3>3. CASE SaveAnomalies(r) \/ FindOpen(r) \/ OpenIncident(r) \/ AttachAnomalies(r)
        BY <3>3 DEF SaveAnomalies, FindOpen, OpenIncident, AttachAnomalies
      <3>4. CASE TriageGate(r) \/ (\E c \in Categories : SaveTriage(r, c)) \/ BuildPayload(r)
        BY <3>4 DEF TriageGate, SaveTriage, BuildPayload
      <3>5. CASE SendOrSkip(r) \/ CommitAlerts(r)
        BY <3>5 DEF SendOrSkip, CommitAlerts
      <3> QED
        BY <1>5, <3>1, <3>2, <3>3, <3>4, <3>5 DEF Step
    <2> QED
      BY <2>1 DEF Busy
  <1>6. CASE UNCHANGED <<pc, patch>>
    BY <1>6, <1>1 DEF Busy
  <1> QED
    BY <1>1, <1>2, <1>3, <1>4, <1>5, <1>6 DEF Next, Operator, Tick, Quiescent, vars

\* A step in which no row is stored and no message is sent.
LEMMA BurstQuiet ==
  ASSUME TypeInv, BurstInv, PoolKept', alerts' = alerts, NEW r \in Requests,
         \A q \in Requests \ {r} : /\ pc'[q] = pc[q] /\ incident'[q] = incident[q]
                                   /\ fired'[q] = fired[q] /\ now'[q] = now[q],
         pc[r] # "new" => now'[r] = now[r] /\ pc'[r] # "new",
         fired'[r] = {}
  PROVE  BurstInv'
  <1>1. RowsOnce'
    <2>1. \A a \in alerts : a.request \in Requests
      BY DEF TypeInv, TypeOK
    <2>2. QED
      BY <2>1 DEF BurstInv, RowsOnce
  <1>2. \A q \in Requests : pc'[q] # "alert" => fired'[q] = {}
    BY DEF BurstInv
  <1>3. ASSUME NEW i \in Incident, NEW c \in ChannelSet, NEW t \in Nat
        PROVE  Together(Stored(i, c, t) \cup Sending(i, c, t))'
    <2> DEFINE S == Stored(i, c, t) \cup Sending(i, c, t)
               T == Stored(i, c, t)' \cup Sending(i, c, t)'
    <2>1. Stored(i, c, t)' \subseteq Stored(i, c, t)
      BY DEF Stored, Window, BurstInv, RowsOnce
    <2>2. Sending(i, c, t)' \subseteq Sending(i, c, t)
      BY DEF Sending, Pending, Window
    <2>3. T \subseteq S
      BY <2>1, <2>2
    <2>4. Together(S)
      BY DEF BurstInv
    <2> HIDE DEF S
    <2>5. Together(T)
      BY <2>3, <2>4, FewerTogether
    <2> QED
      BY <2>5 DEF Together
  <1> QED
    BY <1>1, <1>2, <1>3 DEF BurstInv

\* A request that sends finds no row in the window: the requests that alert the
\* incident there are all being worked on.
LEMMA BurstSend ==
  ASSUME TypeInv, BurstInv, PoolKept', NEW r \in Requests, SendOrSkip(r)
  PROVE  BurstInv'
  <1>1. UNCHANGED <<alerts, pc, incident, now>> /\ pc[r] = "alert"
    BY DEF SendOrSkip
  <1>2. fired \in [Requests -> SUBSET ChannelSet] /\ now \in [Requests -> Nat]
    BY DEF TypeInv, TypeOK
  <1>3. CASE fired' = fired
    <2>1. RowsOnce' /\ \A q \in Requests : pc'[q] # "alert" => fired'[q] = {}
      BY <1>1, <1>3 DEF BurstInv, RowsOnce
    <2>2. \A i \in Incident, c \in ChannelSet, t \in Nat :
            /\ Stored(i, c, t)' = Stored(i, c, t)
            /\ Sending(i, c, t)' = Sending(i, c, t)
      BY <1>1, <1>3 DEF Stored, Sending, Pending, Window
    <2> QED
      BY <2>1, <2>2 DEF BurstInv, Together
  <1>4. ASSUME NEW d, fired' = [fired EXCEPT ![r] = @ \cup {d}],
               ~ExistsSince(incident[r], d, now[r] - AlertRateLimit)
        PROVE  BurstInv'
    <2>1. \A a \in alerts : a.incident = incident[r] /\ a.channel = d
                              => a.created_at \in Nat
                                   /\ ~(a.created_at >= now[r] - AlertRateLimit)
      BY <1>4 DEF ExistsSince, TypeInv, TypeOK
    <2>2. \A a \in alerts : a.created_at = now[a.request] /\ a.request \in Requests
      BY DEF BurstInv, RowsOnce, TypeInv, TypeOK
    <2>3. \A a \in alerts : ~(a.request = r /\ a.incident = incident[r] /\ a.channel = d)
      <3>1. now[r] >= now[r] - AlertRateLimit
        BY <1>2, WindowAssumption
      <3> QED
        BY <2>1, <2>2, <3>1
    <2>4. RowsOnce'
      BY <1>1, <1>2, <1>4, <2>3 DEF BurstInv, RowsOnce
    <2>5. \A q \in Requests : pc'[q] # "alert" => fired'[q] = {}
      BY <1>1, <1>2, <1>4 DEF BurstInv
    <2>6. ASSUME NEW i \in Incident, NEW c \in ChannelSet, NEW t \in Nat
          PROVE  Together(Stored(i, c, t) \cup Sending(i, c, t))'
      <3> DEFINE S == Stored(i, c, t) \cup Sending(i, c, t)
                 T == Stored(i, c, t)' \cup Sending(i, c, t)'
      <3>1. Stored(i, c, t)' = Stored(i, c, t)
        BY <1>1 DEF Stored, Window
      <3>2. CASE Sending(i, c, t)' \subseteq Sending(i, c, t)
        <4>1. T \subseteq S
          BY <3>1, <3>2
        <4>2. Together(S)
          BY DEF BurstInv
        <4> HIDE DEF S
        <4>3. Together(T)
          BY <4>1, <4>2, FewerTogether
        <4> QED
          BY <4>3 DEF Together
      <3>3. CASE ~(Sending(i, c, t)' \subseteq Sending(i, c, t))
        <4>1. i = incident[r] /\ c = d /\ now[r] \in Window(t)
          BY <1>1, <1>2, <1>4, <3>3 DEF Sending, Pending, Window
        <4>2. Stored(i, c, t) = {}
          <5> SUFFICES ASSUME NEW q \in Stored(i, c, t) PROVE FALSE
            OBVIOUS
          <5>1. PICK a \in alerts : a.request = q /\ a.incident = i /\ a.channel = c
            BY DEF Stored
          <5>2. q \in Requests /\ now[q] \in Window(t) /\ a.created_at = now[q]
            BY <5>1, <2>2 DEF Stored
          <5>3. ~(now[q] >= now[r] - AlertRateLimit)
            BY <5>1, <5>2, <4>1, <2>1
          <5> QED
            BY <5>2, <5>3, <4>1, WindowAssumption, <1>2 DEF Window
        <4>3. Sending(i, c, t)' \subseteq Busy'
          BY DEF Sending, Pending, Busy, Active
        <4>4. T \subseteq Busy'
          BY <3>1, <4>2, <4>3
        <4>5. Together(Busy')
          BY DEF PoolKept, Together
        <4>6. Together(T)
          BY <4>4, <4>5, FewerTogether
        <4> QED
          BY <4>6 DEF Together
      <3> QED
        BY <3>2, <3>3
    <2> QED
      BY <2>4, <2>5, <2>6 DEF BurstInv
  <1> QED
    BY <1>3, <1>4 DEF SendOrSkip

\* The rows a request stores are those of the messages it has sent.
LEMMA BurstCommit ==
  ASSUME TypeInv, BurstInv, PoolKept', NEW r \in Requests, CommitAlerts(r)
  PROVE  BurstInv'
  <1>1. /\ alerts' = alerts \cup PendingAlerts(r)
        /\ pc[r] = "alert" /\ now' = now
        /\ fired' = [fired EXCEPT ![r] = {}]
        /\ \A q \in Requests \ {r} : pc'[q] = pc[q] /\ incident'[q] = incident[q]
        /\ pc'[r] \in {"done", "detect"}
    BY DEF CommitAlerts, Goto, Forget, NextService, TypeInv, TypeOK
  <1>2. fired \in [Requests -> SUBSET ChannelSet]
    BY DEF TypeInv, TypeOK
  <1>3. \A a \in PendingAlerts(r) : /\ a.request = r /\ a.incident = incident[r]
                                    /\ a.created_at = now[r] /\ a.channel \in fired[r]
    BY DEF PendingAlerts, AlertRow
  <1>4. \A a, b \in PendingAlerts(r) : a.channel = b.channel => a = b
    BY DEF PendingAlerts, AlertRow
  <1>5. RowsOnce'
    <2>1. \A a \in alerts' : pc'[a.request] # "new" /\ a.created_at = now'[a.request]
      BY <1>1, <1>3 DEF BurstInv, RowsOnce, TypeInv, TypeOK
    <2>2. ASSUME NEW a \in alerts', NEW b \in alerts',
                 a.request = b.request, a.incident = b.incident, a.channel = b.channel
          PROVE  a = b
      BY <1>1, <1>3, <1>4, <2>2 DEF BurstInv, RowsOnce
    <2>3. \A q \in Requests, a \in alerts' :
            a.request = q /\ a.incident = incident'[q] => a.channel \notin fired'[q]
      BY <1>1, <1>2, <1>3 DEF BurstInv, RowsOnce
    <2> QED
      BY <2>1, <2>2, <2>3 DEF RowsOnce
  <1>6. \A q \in Requests : pc'[q] # "alert" => fired'[q] = {}
    BY <1>1, <1>2 DEF BurstInv
  <1>7. ASSUME NEW i \in Incident, NEW c \in ChannelSet, NEW t \in Nat
        PROVE  Together(Stored(i, c, t) \cup Sending(i, c, t))'
    <2> DEFINE S == Stored(i, c, t) \cup Sending(i, c, t)
               T == Stored(i, c, t)' \cup Sending(i, c, t)'
    <2>1. Stored(i, c, t)' \subseteq S
      <3> SUFFICES ASSUME NEW q \in Stored(i, c, t)' PROVE q \in S
        OBVIOUS
      <3>1. q \in Requests /\ now[q] \in Window(t)
        BY <1>1 DEF Stored, Window
      <3>2. PICK a \in alerts' : a.request = q /\ a.incident = i /\ a.channel = c
        BY DEF Stored
      <3>3. CASE a \in alerts
        BY <3>1, <3>2, <3>3 DEF Stored
      <3>4. CASE a \in PendingAlerts(r)
        BY <1>1, <1>3, <3>1, <3>2, <3>4 DEF Sending, Pending
      <3> QED
        BY <1>1, <3>3, <3>4
    <2>2. Sending(i, c, t)' \subseteq Sending(i, c, t)
      BY <1>1, <1>2 DEF Sending, Pending, Window
    <2>3. T \subseteq S
      BY <2>1, <2>2
    <2>4. Together(S)
      BY DEF BurstInv
    <2> HIDE DEF S
    <2>5. Together(T)
      BY <2>3, <2>4, FewerTogether
    <2> QED
      BY <2>5 DEF Together
  <1> QED
    BY <1>5, <1>6, <1>7 DEF BurstInv

LEMMA BurstNext ==
  ASSUME TypeInv, BurstInv, [Next]_vars
  PROVE  BurstInv'
  <1>1. PoolKept'
    BY PoolNext DEF BurstInv
  <1>2. ASSUME NEW r \in Requests,
               \/ \E s \in Services, K \in SUBSET Signals : Detect(r, s, K)
               \/ SaveAnomalies(r) \/ FindOpen(r) \/ OpenIncident(r)
               \/ AttachAnomalies(r) \/ TriageGate(r) \/ BuildPayload(r)
               \/ \E c \in Categories : SaveTriage(r, c)
        PROVE  BurstInv'
    <2>1. /\ alerts' = alerts /\ fired' = fired /\ now' = now
          /\ pc[r] \notin {"new", "alert"} /\ pc'[r] # "new"
          /\ \A q \in Requests \ {r} : pc'[q] = pc[q] /\ incident'[q] = incident[q]
      BY <1>2
         DEF Detect, SaveAnomalies, FindOpen, OpenIncident, AttachAnomalies, TriageGate,
             BuildPayload, SaveTriage, Goto, outbox, locals, TypeInv, TypeOK
    <2>2. fired'[r] = {}
      BY <2>1 DEF BurstInv
    <2>3. QED
      BY <1>1, <2>1, <2>2, BurstQuiet
  <1>3. ASSUME NEW r \in Requests, NEW S \in SUBSET Services, Begin(r, S) PROVE BurstInv'
    <2>1. /\ alerts' = alerts /\ fired' = fired /\ incident' = incident /\ pc[r] = "new"
          /\ \A q \in Requests \ {r} : pc'[q] = pc[q] /\ now'[q] = now[q]
      BY <1>3 DEF Begin, Goto, outbox, TypeInv, TypeOK
    <2>2. fired'[r] = {}
      BY <2>1 DEF BurstInv
    <2>3. QED
      BY <1>1, <2>1, <2>2, BurstQuiet
  <1>4. ASSUME NEW r \in Requests, Fail(r) PROVE BurstInv'
    <2>1. /\ alerts' = alerts /\ now' = now /\ fired'[r] = {} /\ pc'[r] # "new"
          /\ \A q \in Requests \ {r} : /\ pc'[q] = pc[q] /\ incident'[q] = incident[q]
                                       /\ fired'[q] = fired[q]
      BY <1>4 DEF Fail, Forget, Goto, outbox, TypeInv, TypeOK
    <2>2. QED
      BY <1>1, <2>1, BurstQuiet
  <1>5. CASE UNCHANGED <<alerts, pc, now, incident, fired>>
    <2>1. RowsOnce' /\ \A q \in Requests : pc'[q] # "alert" => fired'[q] = {}
      BY <1>5 DEF BurstInv, RowsOnce
    <2>2. \A i \in Incident, c \in ChannelSet, t \in Nat :
            /\ Stored(i, c, t)' = Stored(i, c, t)
            /\ Sending(i, c, t)' = Sending(i, c, t)
      BY <1>5 DEF Stored, Sending, Pending, Window
    <2> QED
      BY <1>1, <2>1, <2>2 DEF BurstInv, Together
  <1>6. ASSUME Tick \/ UNCHANGED vars \/ \E p \in Patches : Operator(p)
        PROVE  UNCHANGED <<alerts, pc, now, incident, fired>>
    BY <1>6 DEF Tick, Operator, PatchLoad, PatchCommit, vars, outbox, locals
  <1>7. QED
    BY <1>1, <1>2, <1>3, <1>4, <1>5, <1>6, BurstSend, BurstCommit DEF Next, Step, Quiescent

LEMMA BurstInit == Init => BurstInv
  <1> SUFFICES ASSUME Init PROVE BurstInv
    OBVIOUS
  <1>1. Busy = {} /\ \A i, c, t : Stored(i, c, t) = {} /\ Sending(i, c, t) = {}
    BY DEF Init, Busy, Active, IdlePatch, Stored, Sending, Pending
  <1>2. Together({})
    BY FS_EmptySet, PoolAssumption DEF Together
  <1>3. PoolKept
    BY <1>1, <1>2 DEF PoolKept, Together
  <1>4. RowsOnce /\ \A r \in Requests : fired[r] = {}
    BY DEF Init, RowsOnce
  <1>5. \A i, c, t : Stored(i, c, t) \cup Sending(i, c, t) = {}
    BY <1>1
  <1> QED
    BY <1>2, <1>3, <1>4, <1>5 DEF BurstInv

\* Rows of different requests: no more of them than of their requests.
LEMMA RowsOfRequests ==
  ASSUME NEW B, NEW S, Together(S),
         \A b \in B : b.request \in S,
         \A a, b \in B : a.request = b.request => a = b
  PROVE  Cardinality(B) <= PoolSize
  <1> DEFINE f == [b \in B |-> b.request]
  <1>1. f \in Injection(B, S)
    BY DEF Injection, IsInjective
  <1>2. IsFiniteSet(B) /\ Cardinality(B) <= Cardinality(S)
    BY <1>1, FS_Injection DEF Together
  <1>3. Cardinality(B) \in Nat /\ Cardinality(S) \in Nat
    BY <1>2, FS_CardinalityType DEF Together
  <1> QED
    BY <1>2, <1>3, PoolAssumption DEF Together

\* No incident is alerted on a channel more often in one rate-limit window than
\* requests overlap, whatever their interleaving.
THEOREM BurstsBounded == Spec => []AlertBurstBounded
  <1>1. TypeInv /\ BurstInv => AlertBurstBounded
    <2> SUFFICES ASSUME TypeInv, BurstInv, NEW a \in alerts
                 PROVE  Cardinality({b \in alerts : /\ b.incident = a.incident
                          /\ b.channel = a.channel
                          /\ b.created_at \in a.created_at..(a.created_at + AlertRateLimit)})
                          <= PoolSize
      BY DEF AlertBurstBounded
    <2> DEFINE B == {b \in alerts : /\ b.incident = a.incident
                          /\ b.channel = a.channel
                          /\ b.created_at \in a.created_at..(a.created_at + AlertRateLimit)}
               S == Stored(a.incident, a.channel, a.created_at)
               T == S \cup Sending(a.incident, a.channel, a.created_at)
    <2>1. a.incident \in Incident /\ a.channel \in ChannelSet /\ a.created_at \in Nat
      BY DEF TypeInv, TypeOK
    <2>2. Together(T)
      BY <2>1 DEF BurstInv
    <2>3. Together(S)
      <3> HIDE DEF S
      <3> QED
        BY <2>2, FewerTogether
    <2>4. \A b \in B : b.request \in S
      BY DEF Stored, Window, BurstInv, RowsOnce, TypeInv, TypeOK
    <2>5. \A b, d \in B : b.request = d.request => b = d
      BY DEF BurstInv, RowsOnce
    <2> HIDE DEF B, S
    <2>6. Cardinality(B) <= PoolSize
      BY <2>3, <2>4, <2>5, RowsOfRequests
    <2> QED
      BY <2>6 DEF B
  <1>2. QED
    BY <1>1, BurstInit, BurstNext, Typing, PTL DEF Spec

(***************************************************************************)
(* Pipeline implements IncidentLedger: the tables are the ledger, and what *)
(* the requests, the sessions and the operators do besides is stuttering.  *)
(***************************************************************************)
USE DEF Holding

\* The incidents some alert row is about: what the ledger calls announced.
Announced == {a.incident : a \in alerts}

\* The part of the tables the ledger shows.
shown == <<anomalies, incidents, link, severity, category, Announced>>

\* The ledger counts as the pipeline does.
LEMMA SameCardinality == \A S : Ledger!Cardinality(S) = Cardinality(S)
  BY DEF Ledger!Cardinality, Cardinality

LEMMA StutterShown ==
  ASSUME UNCHANGED shown
  PROVE  [Ledger!LedgerNext]_(Ledger!ledgerVars)
  BY DEF shown, Announced, Ledger!ledgerVars

\* Inserting the batch records anomalies the ledger has not seen.
LEMMA SaveRecords ==
  ASSUME TypeInv, BookInv, NEW r \in Requests, SaveAnomalies(r)
  PROVE  Ledger!LedgerNext
  <1>1. Found(r) \subseteq Anomaly /\ Found(r) # {}
    BY HeldBatch DEF SaveAnomalies
  <1>2. \A a \in Found(r) : a \notin anomalies
    BY DEF SaveAnomalies, Found, BookInv, OldRows
  <1>3. Found(r) \in SUBSET (Anomaly \ anomalies)
    BY <1>1, <1>2
  <1>4. Ledger!Record(Found(r))
    BY <1>1 DEF SaveAnomalies, Ledger!Record, incidentTable, outbox
  <1>5. QED
    BY <1>3, <1>4 DEF Ledger!LedgerNext

\* A batch a request holds is a batch the ledger may file under an incident of
\* the request's service.
LEMMA BatchCanBeFiled ==
  ASSUME TypeInv, BookInv, NEW r \in Requests, pc[r] \in Holding,
         NEW i \in Incident, i.service = service[r]
  PROVE  /\ Found(r) \in SUBSET {a \in anomalies : link[a] = None}
         /\ Ledger!OfService(Found(r), i)
  <1>1. Found(r) # {}
    BY HeldBatch
  <1>2. \A a \in Found(r) : a.service = i.service
    BY DEF Found
  <1>3. QED
    BY <1>1, <1>2 DEF BookInv, HeldUnlinked, Ledger!OfService, RowService

LEMMA OpenOpens ==
  ASSUME TypeInv, BookInv, NEW r \in Requests, OpenIncident(r)
  PROVE  Ledger!LedgerNext
  <1> DEFINE i == [opener |-> r, service |-> service[r]]
  <1>1. i \in Incident /\ i.service = service[r] /\ i \notin incidents
    BY DEF OpenIncident, TypeInv, TypeOK, Located, BookInv, OldIncidents, Incident
  <1>2. /\ Found(r) \in SUBSET {a \in anomalies : link[a] = None}
        /\ Ledger!OfService(Found(r), i)
    BY <1>1, BatchCanBeFiled DEF OpenIncident
  <1>3. Ledger!FileAll(Found(r), i)
    BY DEF OpenIncident, LinkAll, Ledger!FileAll
  <1>4. Ledger!Open(i, Found(r))
    BY <1>1, <1>2, <1>3, SameCardinality DEF OpenIncident, outbox, Ledger!Open
  <1>5. QED
    BY <1>1, <1>2, <1>4 DEF Ledger!LedgerNext

LEMMA AttachAbsorbs ==
  ASSUME TypeInv, BookInv, NEW r \in Requests, AttachAnomalies(r)
  PROVE  Ledger!LedgerNext
  <1> DEFINE i == incident[r]
  <1>1. i \in Incident /\ i.service = service[r] /\ i \in incidents
    BY DEF AttachAnomalies, TypeInv, TypeOK, Located, BookInv, Target
  <1>2. /\ Found(r) \in SUBSET {a \in anomalies : link[a] = None}
        /\ Ledger!OfService(Found(r), i)
    BY <1>1, BatchCanBeFiled DEF AttachAnomalies
  <1>3. Ledger!FileAll(Found(r), i)
    BY DEF AttachAnomalies, LinkAll, Ledger!FileAll
  <1>4. severity' = [severity EXCEPT ![i] = DeriveSeverity(CountAfterFlush(r, i))]
    <2>1. severity'[i] = DeriveSeverity(CountAfterFlush(r, i))
      BY AttachCounts
    <2>2. \E v : severity' = [severity EXCEPT ![i] = v]
      BY DEF AttachAnomalies
    <2>3. severity \in [Incident -> Severities]
      BY DEF TypeInv, TypeOK
    <2>4. QED
      BY <1>1, <2>1, <2>2, <2>3
  <1>5. Ledger!Cardinality(Ledger!FiledUnder(i) \cup Found(r)) = CountAfterFlush(r, i)
    BY SameCardinality DEF Ledger!FiledUnder, CountAfterFlush, Linked
  <1>6. Ledger!Absorb(i, Found(r))
    BY <1>1, <1>2, <1>3, <1>4, <1>5 DEF AttachAnomalies, outbox, Ledger!Absorb
  <1>7. QED
    BY <1>1, <1>2, <1>6 DEF Ledger!LedgerNext

LEMMA SaveTriages ==
  ASSUME TypeInv, BookInv, NEW r \in Requests, NEW c \in Categories, SaveTriage(r, c)
  PROVE  Ledger!LedgerNext
  <1>1. incident[r] \in Incident /\ incident[r] \in incidents
    BY DEF SaveTriage, TypeInv, TypeOK, Located, BookInv, Target
  <1>2. Ledger!Triage(incident[r], c)
    BY <1>1 DEF SaveTriage, anomalyTable, outbox, Ledger!Triage
  <1>3. QED
    BY <1>1, <1>2 DEF Ledger!LedgerNext

\* Committing alert rows announces the incident, unless every channel was inside
\* its rate-limit window and there is no row to commit.
LEMMA CommitAnnounces ==
  ASSUME TypeInv, BookInv, TriageInv, NEW r \in Requests, CommitAlerts(r)
  PROVE  [Ledger!LedgerNext]_(Ledger!ledgerVars)
  <1>1. /\ incident[r] \in Incident /\ incident[r] \in incidents
        /\ category[incident[r]] # None
    BY DEF CommitAlerts, TypeInv, TypeOK, Located, BookInv, Target, TriageInv, PastTriage
  <1>2. CASE fired[r] = {}
    <2>1. PendingAlerts(r) = {}
      BY <1>2 DEF PendingAlerts
    <2>2. UNCHANGED shown
      BY <2>1 DEF CommitAlerts, shown, Announced, anomalyTable, incidentTable
    <2>3. QED
      BY <2>2, StutterShown
  <1>3. CASE fired[r] # {}
    <2>1. {a.incident : a \in PendingAlerts(r)} = {incident[r]}
      <3>1. \A a \in PendingAlerts(r) : a.incident = incident[r]
        BY DEF PendingAlerts, AlertRow
      <3>2. PendingAlerts(r) # {}
        BY <1>3 DEF PendingAlerts
      <3>3. QED
        BY <3>1, <3>2
    <2>2. Announced' = Announced \cup {incident[r]}
      BY <2>1 DEF CommitAlerts, Announced
    <2>3. Ledger!Announce(incident[r])
      BY <1>1, <2>2
         DEF CommitAlerts, Announced, anomalyTable, incidentTable, Ledger!Announce
    <2>4. Ledger!LedgerNext
      BY <1>1, <2>3 DEF Ledger!LedgerNext, Ledger!Announce
    <2>5. QED
      BY <2>4
  <1>4. QED
    BY <1>2, <1>3

\* Every step of the pipeline is a step of the ledger or shows nothing.
LEMMA LedgerStep ==
  ASSUME TypeInv, BookInv, TriageInv, [Next]_vars
  PROVE  [Ledger!LedgerNext]_(Ledger!ledgerVars)
  <1>1. ASSUME NEW r \in Requests,
               \/ SaveAnomalies(r) \/ OpenIncident(r) \/ AttachAnomalies(r)
               \/ CommitAlerts(r) \/ \E c \in Categories : SaveTriage(r, c)
        PROVE  [Ledger!LedgerNext]_(Ledger!ledgerVars)
    BY <1>1, SaveRecords, OpenOpens, AttachAbsorbs, SaveTriages, CommitAnnounces
  <1>2. ASSUME NEW r \in Requests,
               \/ \E s \in Services, K \in SUBSET Signals : Detect(r, s, K)
               \/ FindOpen(r) \/ TriageGate(r) \/ BuildPayload(r) \/ SendOrSkip(r) \/ Fail(r)
        PROVE  UNCHANGED shown
    BY <1>2 DEF Detect, FindOpen, TriageGate, BuildPayload, SendOrSkip, Fail, shown,
                Announced, anomalyTable, incidentTable, outbox
  <1>3. ASSUME \/ Tick \/ UNCHANGED vars \/ \E p \in Patches : Operator(p)
               \/ \E r \in Requests, S \in SUBSET Services : Begin(r, S)
        PROVE  UNCHANGED shown
    BY <1>3 DEF Tick, Begin, Operator, PatchLoad, PatchCommit, shown, Announced, vars,
                anomalyTable, incidentTable, outbox
  <1>4. QED
    BY <1>1, <1>2, <1>3, StutterShown DEF Next, Step, Quiescent

LEMMA LedgerStart == Init => Ledger!LedgerInit
  BY DEF Init, DeriveSeverity, LOW, Ledger!LedgerInit

\* Whatever the interleaving, the tables are a ledger of incidents: anomalies are
\* filed once, under an incident of their service, the severity is in step with
\* the file at every moment, and only triaged incidents are announced.
THEOREM PipelineImplementsLedger == Spec => ImplementsLedger
  <1>1. Spec => []TriageInv
    <2>1. Init => TriageInv
      BY DEF Init, TriageInv, AlertsFollowTriage, PastTriage
    <2>2. QED
      BY <2>1, TriageNext, Typing, PTL DEF Spec
  <1>2. TypeInv /\ BookInv /\ TriageInv /\ [Next]_vars
          => [Ledger!LedgerNext]_(Ledger!ledgerVars)
    BY LedgerStep
  <1>3. QED
    BY <1>1, <1>2, LedgerStart, Typing, Book, PTL
       DEF Spec, ImplementsLedger, Ledger!LedgerSpec

(***************************************************************************)
(* What the documents promise of incidents and alerts, for any data, when  *)
(* the server works on one request at a time: no request then comes between *)
(* what another reads and what it writes.                                  *)
(***************************************************************************)
\* One request at most, an ingestion or a PATCH, is being worked on.
Exclusive ==
  /\ \A r, q \in Requests : Active(r) /\ Active(q) => r = q
  /\ \A r \in Requests, p \in Patches : Active(r) => patch[p].pc # "loaded"
  /\ \A p, q \in Patches : patch[p].pc = "loaded" /\ patch[q].pc = "loaded" => p = q

\* What a request has read is still true where it relies on it.
ReadIsCurrent(r) ==
  /\ pc[r] = "triage" => category[incident[r]] = None
  /\ pc[r] = "alert" => payload[r] = category[incident[r]]
  /\ pc[r] = "attach" => status[incident[r]] # "RESOLVED"
  /\ pc[r] # "alert" => fired[r] = {}
  /\ \A a \in alerts : a.incident = incident[r] /\ a.channel \in fired[r] =>
       a.created_at < now[r] - AlertRateLimit

SerialInv ==
  /\ Exclusive
  /\ \A r \in Requests : ReadIsCurrent(r)
  /\ AlertsAgreeWithIncident /\ AlertSpacing

\* A free thread means that nobody is being worked on.
LEMMA FreeMeansIdle ==
  ASSUME PoolSize = 1, Exclusive, FreeThread
  PROVE  /\ \A r \in Requests : ~Active(r)
         /\ \A p \in Patches : patch[p].pc # "loaded"
  <1> SUFFICES Busy = {}
    BY DEF Busy
  <1>1. SUFFICES ASSUME NEW x \in Busy PROVE FALSE
    OBVIOUS
  <1>2. \A y \in Busy : x \in Requests /\ Active(x) /\ y \in Requests /\ Active(y) => y = x
    BY DEF Exclusive
  <1>3. Busy = {x}
    <2>1. CASE x \in Requests /\ Active(x)
      BY <2>1 DEF Busy, Exclusive
    <2>2. CASE x \in Patches /\ patch[x].pc = "loaded"
      BY <2>2 DEF Busy, Exclusive
    <2> QED
      BY <2>1, <2>2 DEF Busy
  <1>4. Cardinality(Busy) = 1
    BY <1>3, FS_Singleton
  <1> QED
    BY <1>4 DEF FreeThread

\* An ingestion request's step moves that request only.
Moves(r) == Step(r) \/ Fail(r) \/ \E S \in SUBSET Services : Begin(r, S)

LEMMA OthersStay ==
  ASSUME TypeInv, NEW r \in Requests, Moves(r)
  PROVE  /\ patch' = patch
         /\ \A q \in Requests \ {r} : /\ pc'[q] = pc[q] /\ incident'[q] = incident[q]
                                      /\ payload'[q] = payload[q] /\ fired'[q] = fired[q]
                                      /\ now'[q] = now[q] /\ service'[q] = service[q]
                                      /\ hits'[q] = hits[q] /\ channel'[q] = channel[q]
                                      /\ todo'[q] = todo[q]
  <1> USE DEF TypeInv, TypeOK, Goto
  <1>1. CASE \E S \in SUBSET Services : Begin(r, S)
    BY <1>1 DEF Begin
  <1>2. CASE Fail(r)
    BY <1>2 DEF Fail, Forget
  <1>3. ASSUME NEW s \in Services, NEW K \in SUBSET Signals, Detect(r, s, K)
        PROVE  /\ patch' = patch
               /\ \A q \in Requests \ {r} : /\ pc'[q] = pc[q] /\ incident'[q] = incident[q]
                                            /\ payload'[q] = payload[q] /\ fired'[q] = fired[q]
                                            /\ now'[q] = now[q] /\ service'[q] = service[q]
                                            /\ hits'[q] = hits[q] /\ channel'[q] = channel[q]
                                            /\ todo'[q] = todo[q]
    BY <1>3 DEF Detect
  <1>4. CASE SaveAnomalies(r) \/ FindOpen(r) \/ OpenIncident(r) \/ AttachAnomalies(r)
    BY <1>4 DEF SaveAnomalies, FindOpen, OpenIncident, AttachAnomalies, locals
  <1>5. CASE TriageGate(r) \/ (\E c \in Categories : SaveTriage(r, c)) \/ BuildPayload(r)
    BY <1>5 DEF TriageGate, SaveTriage, BuildPayload, locals
  <1>6. CASE SendOrSkip(r) \/ CommitAlerts(r)
    BY <1>6 DEF SendOrSkip, CommitAlerts, Forget
  <1> QED
    BY <1>1, <1>2, <1>3, <1>4, <1>5, <1>6 DEF Moves, Step

LEMMA ExclusiveNext ==
  ASSUME PoolSize = 1, TypeInv, Exclusive, [Next]_vars
  PROVE  Exclusive'
  <1>1. ASSUME NEW r \in Requests, Moves(r) PROVE Exclusive'
    <2>1. \/ Active(r)
          \/ /\ \A q \in Requests : ~Active(q)
             /\ \A p \in Patches : patch[p].pc # "loaded"
      <3>1. CASE \E S \in SUBSET Services : Begin(r, S)
        BY <3>1, FreeMeansIdle DEF Begin
      <3>2. CASE Fail(r)
        BY <3>2 DEF Fail
      <3>3. CASE Step(r)
        BY <3>3 DEF Step, Active, Stages, Detect, SaveAnomalies, FindOpen, OpenIncident,
               AttachAnomalies, TriageGate, SaveTriage, BuildPayload, SendOrSkip, CommitAlerts
      <3> QED
        BY <1>1, <3>1, <3>2, <3>3 DEF Moves
    <2>2. patch' = patch /\ \A q \in Requests \ {r} : pc'[q] = pc[q]
      BY <1>1, OthersStay
    <2> QED
      BY <2>1, <2>2 DEF Exclusive, Active
  <1>2. ASSUME NEW p \in Patches, Operator(p) PROVE Exclusive'
    <2>1. ASSUME NEW i \in Incident, NEW want \in PatchTargets, PatchLoad(p, i, want)
          PROVE  Exclusive'
      <3>1. /\ \A q \in Requests : ~Active(q)
            /\ \A q \in Patches : patch[q].pc # "loaded"
        BY <2>1, FreeMeansIdle DEF PatchLoad
      <3>2. pc' = pc /\ \A q \in Patches \ {p} : patch'[q] = patch[q]
        BY <2>1 DEF PatchLoad, TypeInv, TypeOK
      <3> QED
        BY <3>1, <3>2 DEF Exclusive, Active
    <2>2. CASE PatchCommit(p)
      <3>1. /\ pc' = pc /\ \A q \in Patches \ {p} : patch'[q] = patch[q]
            /\ patch'[p].pc = "done"
        BY <2>2 DEF PatchCommit, IdlePatch, TypeInv, TypeOK
      <3> QED
        BY <3>1 DEF Exclusive, Active
    <2> QED
      BY <1>2, <2>1, <2>2 DEF Operator
  <1>3. CASE UNCHANGED <<pc, patch>>
    BY <1>3 DEF Exclusive, Active
  <1> QED
    BY <1>1, <1>2, <1>3 DEF Next, Moves, Tick, Quiescent, vars

(***************************************************************************)
(* What a request has read stays true: nobody else writes.                 *)
(***************************************************************************)
LEMMA OthersRead ==
  ASSUME TypeInv, SerialInv, NEW r \in Requests, Moves(r), Exclusive',
         NEW q \in Requests \ {r}, Active(r) \/ Active(r)'
  PROVE  ReadIsCurrent(q)'
  <1>1. ~Active(q)
    <2>1. Active(q)' <=> Active(q)
      BY OthersStay DEF Active
    <2> QED
      BY <2>1 DEF SerialInv, Exclusive
  <1>2. pc'[q] = pc[q] /\ fired'[q] = fired[q]
    BY OthersStay
  <1>3. fired[q] = {} /\ pc[q] \notin {"triage", "alert", "attach"}
    BY <1>1 DEF SerialInv, ReadIsCurrent, Active, Stages
  <1> QED
    BY <1>2, <1>3 DEF ReadIsCurrent

LEMMA MoverIsActive ==
  ASSUME TypeInv, NEW r \in Requests, Moves(r)
  PROVE  Active(r) \/ Active(r)'
  <1>1. CASE \E S \in SUBSET Services : Begin(r, S)
    BY <1>1 DEF Begin, Active, Stages, Goto, TypeInv, TypeOK
  <1>2. CASE Fail(r)
    BY <1>2 DEF Fail
  <1>3. CASE Step(r)
    BY <1>3 DEF Step, Active, Stages, Detect, SaveAnomalies, FindOpen, OpenIncident,
           AttachAnomalies, TriageGate, SaveTriage, BuildPayload, SendOrSkip, CommitAlerts
  <1> QED
    BY <1>1, <1>2, <1>3 DEF Moves

LEMMA MoverReads ==
  ASSUME TypeInv, SerialInv, NEW r \in Requests, Moves(r)
  PROVE  ReadIsCurrent(r)'
  <1> USE DEF TypeInv, TypeOK, Located, Goto, SerialInv, ReadIsCurrent
  <1>1. ASSUME NEW S \in SUBSET Services, Begin(r, S) PROVE ReadIsCurrent(r)'
    BY <1>1 DEF Begin, outbox
  <1>2. CASE Fail(r)
    BY <1>2 DEF Fail, Forget, outbox
  <1>3. ASSUME NEW s \in Services, NEW K \in SUBSET Signals, Detect(r, s, K)
        PROVE  ReadIsCurrent(r)'
    BY <1>3 DEF Detect, outbox
  <1>4. CASE SaveAnomalies(r)
    BY <1>4 DEF SaveAnomalies, locals, outbox
  <1>5. CASE FindOpen(r)
    <2>1. \A i \in FindOpenForService(service[r], now[r] - CorrelationWindow) :
            i \in Incident /\ status[i] # "RESOLVED"
      BY DEF FindOpenForService, Latest
    <2>2. UNCHANGED <<status, alerts, fired>> /\ pc'[r] \in {"open", "attach"} /\ fired[r] = {}
      BY <1>5 DEF FindOpen, incidentTable, outbox
    <2>3. pc'[r] = "attach" => status[incident'[r]] # "RESOLVED"
      BY <1>5, <2>1 DEF FindOpen
    <2> QED
      BY <2>2, <2>3
  <1>6. CASE OpenIncident(r)
    BY <1>6 DEF OpenIncident, outbox
  <1>7. CASE AttachAnomalies(r)
    BY <1>7 DEF AttachAnomalies, locals, outbox
  <1>8. CASE TriageGate(r)
    BY <1>8 DEF TriageGate, NeedsTriage, incidentTable, outbox
  <1>9. ASSUME NEW c \in Categories, SaveTriage(r, c) PROVE ReadIsCurrent(r)'
    BY <1>9 DEF SaveTriage, locals, outbox
  <1>10. CASE BuildPayload(r)
    BY <1>10 DEF BuildPayload, incidentTable, outbox
  <1>11. CASE SendOrSkip(r)
    <2>1. /\ pc[r] = "alert" /\ UNCHANGED <<pc, incident, payload, category, now, alerts>>
          /\ \/ fired' = fired
             \/ /\ ~ExistsSince(incident[r], Channels[channel[r]], now[r] - AlertRateLimit)
                /\ fired' = [fired EXCEPT ![r] = @ \cup {Channels[channel[r]]}]
      BY <1>11 DEF SendOrSkip, incidentTable
    <2>2. \A a \in alerts : a.created_at \in Nat
      OBVIOUS
    <2>3. ASSUME NEW a \in alerts, a.incident = incident[r], a.channel \in fired'[r]
          PROVE  a.created_at < now[r] - AlertRateLimit
      BY <2>1, <2>2, <2>3, WindowAssumption DEF ExistsSince
    <2> QED
      BY <2>1, <2>3
  <1>12. CASE CommitAlerts(r)
    <2>1. fired'[r] = {} /\ pc'[r] \in {"done", "detect"}
      BY <1>12 DEF CommitAlerts, Forget, NextService
    <2> QED
      BY <2>1
  <1> QED
    BY <1>1, <1>2, <1>3, <1>4, <1>5, <1>6, <1>7, <1>8, <1>9, <1>10, <1>11, <1>12
       DEF Moves, Step

(***************************************************************************)
(* Which steps can disturb the alerts, and how.                            *)
(***************************************************************************)
LEMMA AlertsAndCategories ==
  ASSUME TypeInv, [Next]_vars
  PROVE  \/ UNCHANGED <<alerts, category>>
         \/ \E r \in Requests, c \in Categories : SaveTriage(r, c)
         \/ \E r \in Requests : CommitAlerts(r)
  <1>1. ASSUME NEW r \in Requests, Step(r)
        PROVE  \/ UNCHANGED <<alerts, category>>
               \/ \E c \in Categories : SaveTriage(r, c)
               \/ CommitAlerts(r)
    BY <1>1 DEF Step, Detect, SaveAnomalies, FindOpen, OpenIncident, AttachAnomalies,
           TriageGate, BuildPayload, SendOrSkip, incidentTable, outbox
  <1>2. ASSUME NEW p \in Patches, Operator(p) PROVE UNCHANGED <<alerts, category>>
    BY <1>2 DEF Operator, PatchLoad, PatchCommit, incidentTable, outbox
  <1> QED
    BY <1>1, <1>2 DEF Next, Begin, Fail, Tick, Quiescent, vars, incidentTable, outbox

\* The rows a request commits: one per channel, of its incident, at its time.
LEMMA PendingRows ==
  ASSUME NEW r \in Requests, NEW a \in PendingAlerts(r)
  PROVE  /\ a.incident = incident[r] /\ a.category = payload[r] /\ a.created_at = now[r]
         /\ a.channel \in fired[r] /\ a = AlertRow(r, a.channel)
  BY DEF PendingAlerts, AlertRow

LEMMA AlertsAgreeNext ==
  ASSUME TypeInv, AlertsFollowTriage, SerialInv, [Next]_vars
  PROVE  AlertsAgreeWithIncident'
  <1>1. CASE UNCHANGED <<alerts, category>>
    BY <1>1 DEF SerialInv, AlertsAgreeWithIncident
  <1>2. ASSUME NEW r \in Requests, NEW c \in Categories, SaveTriage(r, c)
        PROVE  AlertsAgreeWithIncident'
    <2>1. category[incident[r]] = None
      BY <1>2 DEF SaveTriage, SerialInv, ReadIsCurrent
    <2>2. \A a \in alerts : a.incident # incident[r]
      BY <2>1 DEF AlertsFollowTriage
    <2>3. alerts' = alerts /\ category' = [category EXCEPT ![incident[r]] = c]
      BY <1>2 DEF SaveTriage, outbox
    <2> QED
      BY <2>2, <2>3 DEF SerialInv, AlertsAgreeWithIncident, TypeInv, TypeOK
  <1>3. ASSUME NEW r \in Requests, CommitAlerts(r) PROVE AlertsAgreeWithIncident'
    <2>1. payload[r] = category[incident[r]]
      BY <1>3 DEF CommitAlerts, SerialInv, ReadIsCurrent
    <2>2. alerts' = alerts \cup PendingAlerts(r) /\ category' = category
      BY <1>3 DEF CommitAlerts, incidentTable
    <2>3. \A a \in PendingAlerts(r) : a.category = category[a.incident]
      BY <2>1, PendingRows
    <2> QED
      BY <2>2, <2>3 DEF SerialInv, AlertsAgreeWithIncident
  <1> QED
    BY <1>1, <1>2, <1>3, AlertsAndCategories

LEMMA SpacingNext ==
  ASSUME TypeInv, SerialInv, [Next]_vars
  PROVE  AlertSpacing'
  <1>1. CASE alerts' = alerts
    BY <1>1 DEF SerialInv, AlertSpacing
  <1>2. ASSUME NEW r \in Requests, CommitAlerts(r) PROVE AlertSpacing'
    <2>1. alerts' = alerts \cup PendingAlerts(r)
      BY <1>2 DEF CommitAlerts
    <2>2. now[r] \in Nat /\ \A a \in alerts : a.created_at \in Nat
      BY DEF TypeInv, TypeOK
    <2>3. \A a \in alerts, b \in PendingAlerts(r) :
            a.incident = b.incident /\ a.channel = b.channel
              => b.created_at > a.created_at + AlertRateLimit
      <3> SUFFICES ASSUME NEW a \in alerts, NEW b \in PendingAlerts(r),
                          a.incident = b.incident, a.channel = b.channel
                   PROVE  b.created_at > a.created_at + AlertRateLimit
        OBVIOUS
      <3>1. b.incident = incident[r] /\ b.created_at = now[r] /\ b.channel \in fired[r]
        BY PendingRows
      <3>2. a.created_at < now[r] - AlertRateLimit
        BY <3>1 DEF SerialInv, ReadIsCurrent
      <3> QED
        BY <2>2, <3>1, <3>2, WindowAssumption
    <2>4. \A a, b \in PendingAlerts(r) : a.channel = b.channel => a = b
      <3> SUFFICES ASSUME NEW a \in PendingAlerts(r), NEW b \in PendingAlerts(r),
                          a.channel = b.channel
                   PROVE  a = b
        OBVIOUS
      <3>1. a = AlertRow(r, a.channel)
        BY PendingRows
      <3>2. b = AlertRow(r, b.channel)
        BY PendingRows
      <3> QED
        BY <3>1, <3>2
    <2> QED
      BY <2>1, <2>3, <2>4 DEF SerialInv, AlertSpacing
  <1> QED
    BY <1>1, <1>2, AlertsAndCategories DEF SaveTriage, outbox

LEMMA SerialNext ==
  ASSUME PoolSize = 1, TypeInv, AlertsFollowTriage, SerialInv, [Next]_vars
  PROVE  SerialInv'
  <1>0. Exclusive' /\ AlertsAgreeWithIncident' /\ AlertSpacing'
    BY ExclusiveNext, AlertsAgreeNext, SpacingNext DEF SerialInv
  <1>1. ASSUME NEW r \in Requests, Moves(r) PROVE \A q \in Requests : ReadIsCurrent(q)'
    BY <1>0, <1>1, OthersRead, MoverIsActive, MoverReads
  <1>2. ASSUME NEW p \in Patches, Operator(p) PROVE \A q \in Requests : ReadIsCurrent(q)'
    <2>1. \A q \in Requests : ~Active(q)
      <3>1. ASSUME NEW i \in Incident, NEW want \in PatchTargets, PatchLoad(p, i, want)
            PROVE  \A q \in Requests : ~Active(q)
        BY <3>1, FreeMeansIdle DEF PatchLoad, SerialInv
      <3>2. CASE PatchCommit(p)
        BY <3>2 DEF PatchCommit, SerialInv, Exclusive
      <3> QED
        BY <1>2, <3>1, <3>2 DEF Operator
    <2>2. UNCHANGED <<pc, fired>>
      BY <1>2 DEF Operator, PatchLoad, PatchCommit, locals
    <2>3. \A q \in Requests : fired[q] = {} /\ pc[q] \notin {"triage", "alert", "attach"}
      BY <2>1 DEF SerialInv, ReadIsCurrent, Active, Stages
    <2> QED
      BY <2>2, <2>3 DEF ReadIsCurrent
  <1>3. CASE UNCHANGED <<pc, locals, incidentTable, outbox>>
    BY <1>0, <1>3 DEF SerialInv, ReadIsCurrent, locals, incidentTable, outbox
  <1> QED
    BY <1>0, <1>1, <1>2, <1>3
       DEF SerialInv, Next, Moves, Tick, Quiescent, vars, incidentTable, outbox, locals

LEMMA SerialInit == Init => SerialInv
  BY DEF Init, SerialInv, Exclusive, ReadIsCurrent, AlertsAgreeWithIncident, AlertSpacing,
         Active, Stages, IdlePatch

(***************************************************************************)
(* When no candidate comes first, there is none: the update times of the   *)
(* candidates are bounded by the clock, so one of them is the latest.      *)
(***************************************************************************)
\* No time that was read is ahead of the clock.
Times ==
  /\ \A r \in Requests : now[r] <= clock
  /\ \A p \in Patches : patch[p].now <= clock
  /\ \A i \in Incident : updated[i] <= clock

LEMMA TimesNext == TypeInv /\ Times /\ [Next]_vars => Times'
  <1> SUFFICES ASSUME TypeInv, Times, [Next]_vars PROVE Times'
    OBVIOUS
  <1> USE DEF TypeInv, TypeOK, Times
  <1>1. CASE Tick
    BY <1>1 DEF Tick, locals, incidentTable
  <1>2. ASSUME NEW r \in Requests, NEW S \in SUBSET Services, Begin(r, S) PROVE Times'
    BY <1>2 DEF Begin, incidentTable
  <1>3. ASSUME NEW r \in Requests, OpenIncident(r) \/ AttachAnomalies(r) PROVE Times'
    <2>1. /\ UNCHANGED <<clock, now, patch>>
          /\ \A i \in Incident : updated'[i] \in {updated[i], now[r]}
      <3>1. CASE OpenIncident(r)
        BY <3>1 DEF OpenIncident, locals
      <3>2. CASE AttachAnomalies(r)
        BY <3>2 DEF AttachAnomalies, locals
      <3> QED
        BY <1>3, <3>1, <3>2
    <2> QED
      BY <2>1
  <1>4. ASSUME NEW p \in Patches, NEW i \in Incident, NEW w \in PatchTargets,
               PatchLoad(p, i, w) PROVE Times'
    BY <1>4 DEF PatchLoad, locals, incidentTable
  <1>5. ASSUME NEW p \in Patches, PatchCommit(p) PROVE Times'
    BY <1>5 DEF PatchCommit, IdlePatch, locals
  <1>6. CASE UNCHANGED <<clock, now, patch, updated>>
    BY <1>6
  <1>7. ASSUME NEW r \in Requests, Step(r) \/ Fail(r)
        PROVE  \/ OpenIncident(r) \/ AttachAnomalies(r)
               \/ UNCHANGED <<clock, now, patch, updated>>
    BY <1>7 DEF Step, Fail, Detect, SaveAnomalies, FindOpen, TriageGate, SaveTriage,
           BuildPayload, SendOrSkip, CommitAlerts, incidentTable, locals
  <1> QED
    BY <1>1, <1>2, <1>3, <1>4, <1>5, <1>6, <1>7
       DEF Next, Operator, Quiescent, vars, locals, incidentTable

LEMMA NoLatestIsNone ==
  ASSUME TypeInv, Times, NEW rows \in SUBSET Incident, Latest(rows) = {}
  PROVE  rows = {}
  <1> SUFFICES ASSUME rows # {} PROVE FALSE
    OBVIOUS
  <1> DEFINE Ages == {clock - updated[i] : i \in rows}
  <1>1. clock \in Nat /\ \A i \in rows : updated[i] \in Nat /\ updated[i] <= clock
    BY DEF TypeInv, TypeOK, Times
  <1>2. Ages \in SUBSET Nat /\ Ages # {}
    BY <1>1
  <1>3. PICK age \in Ages : \A other \in Ages : age <= other
    BY <1>2, Minimum
  <1>4. PICK i \in rows : age = clock - updated[i]
    OBVIOUS
  <1>5. \A j \in rows : clock - updated[i] <= clock - updated[j]
    BY <1>3, <1>4
  <1>6. \A j \in rows : updated[j] <= updated[i]
    BY <1>1, <1>5
  <1> QED
    BY <1>6 DEF Latest

\* A request that is about to open an incident has no incident to use instead.
NothingToJoin(r) ==
  pc[r] = "open" =>
    \A j \in incidents : j.service = service[r] /\ status[j] # "RESOLVED" =>
      updated[j] < now[r] - CorrelationWindow

Alone == \A r \in Requests : NothingToJoin(r)

LEMMA AloneNext ==
  ASSUME PoolSize = 1, TypeInv, Times, Exclusive, Alone, [Next]_vars
  PROVE  Alone'
  <1>1. ASSUME NEW r \in Requests, Moves(r) PROVE Alone'
    <2>1. ASSUME NEW q \in Requests \ {r} PROVE pc'[q] # "open"
      BY <1>1, MoverIsActive, OthersStay, ExclusiveNext DEF Exclusive, Active, Stages
    <2>2. CASE ~FindOpen(r)
      <3>1. pc'[r] # "open"
        BY <1>1, <2>2 DEF Moves, Step, Begin, Fail, Detect, SaveAnomalies, OpenIncident,
               AttachAnomalies, TriageGate, SaveTriage, BuildPayload, SendOrSkip, CommitAlerts,
               NextService, Goto, locals, TypeInv, TypeOK
      <3> QED
        BY <2>1, <3>1 DEF Alone, NothingToJoin
    <2>3. CASE FindOpen(r)
      <3> DEFINE since == now[r] - CorrelationWindow
                 open == {i \in incidents : /\ i.service = service[r]
                                            /\ status[i] # "RESOLVED"
                                            /\ updated[i] >= since}
      <3>1. UNCHANGED <<incidents, status, updated, service, now>>
        BY <2>3 DEF FindOpen, incidentTable
      <3>2. pc'[r] = "open" => FindOpenForService(service[r], since) = {}
        BY <2>3 DEF FindOpen, Goto, TypeInv, TypeOK
      <3>3. FindOpenForService(service[r], since) = Latest(open)
        BY DEF FindOpenForService
      <3>4. open \in SUBSET Incident
        BY DEF TypeInv, TypeOK
      <3> HIDE DEF open
      <3>5. pc'[r] = "open" => open = {}
        BY <3>2, <3>3, <3>4, NoLatestIsNone
      <3>6. NothingToJoin(r)'
        BY <3>1, <3>5, WindowAssumption DEF open, NothingToJoin, TypeInv, TypeOK
      <3> QED
        BY <2>1, <3>6 DEF Alone, NothingToJoin
    <2> QED
      BY <2>2, <2>3
  <1>2. ASSUME NEW p \in Patches, Operator(p) PROVE Alone'
    <2>1. \A q \in Requests : ~Active(q)
      <3>1. ASSUME NEW i \in Incident, NEW want \in PatchTargets, PatchLoad(p, i, want)
            PROVE  \A q \in Requests : ~Active(q)
        BY <3>1, FreeMeansIdle DEF PatchLoad
      <3>2. CASE PatchCommit(p)
        BY <3>2 DEF PatchCommit, Exclusive
      <3> QED
        BY <1>2, <3>1, <3>2 DEF Operator
    <2>2. pc' = pc
      BY <1>2 DEF Operator, PatchLoad, PatchCommit
    <2> QED
      BY <2>1, <2>2 DEF Alone, NothingToJoin, Active, Stages
  <1>3. CASE UNCHANGED <<pc, locals, incidentTable>>
    BY <1>3 DEF Alone, NothingToJoin, locals, incidentTable
  <1> QED
    BY <1>1, <1>2, <1>3 DEF Next, Moves, Tick, Quiescent, vars, incidentTable, locals

(***************************************************************************)
(* The theorems.                                                           *)
(***************************************************************************)
\* What a request relies on is current, when one request is served at a time.
THEOREM Serial ==
  ASSUME PoolSize = 1
  PROVE  Spec => []SerialInv
  BY SerialInit, SerialNext, Typing, TriageBeforeAlerts, PTL DEF Spec

\* A request triages an incident only while the incident has no category.
THEOREM TriagedOnce ==
  ASSUME PoolSize = 1
  PROVE  Spec => []TriagedOnlyWhileUntriaged
  <1>1. SerialInv => TriagedOnlyWhileUntriaged
    BY DEF SerialInv, ReadIsCurrent, TriagedOnlyWhileUntriaged
  <1> QED
    BY <1>1, Serial, PTL

\* The category an alert announced stays the category of its incident.
THEOREM AlertsAgree ==
  ASSUME PoolSize = 1
  PROVE  Spec => []AlertsAgreeWithIncident
  BY Serial, PTL DEF SerialInv

\* The alerts of an incident on a channel are more than the rate limit apart.
THEOREM AlertsSpaced ==
  ASSUME PoolSize = 1
  PROVE  Spec => []AlertSpacing
  BY Serial, PTL DEF SerialInv

\* Anomalies are linked to incidents that are not resolved at that moment: a
\* PATCH cannot come between the SELECT of the incident and the attachment.
THEOREM Absorption ==
  ASSUME PoolSize = 1
  PROVE  Spec => AbsorbedWhileUnresolved
  <1> DEFINE Absorbed == \A a \in Anomaly :
               link[a] = None /\ link'[a] # None => status'[link'[a]] # "RESOLVED"
  <1>1. TypeInv /\ SerialInv /\ [Next]_vars => [Absorbed]_vars
    <2> SUFFICES ASSUME TypeInv, SerialInv, Next PROVE Absorbed \/ UNCHANGED vars
      OBVIOUS
    <2>1. ASSUME NEW r \in Requests, OpenIncident(r) PROVE Absorbed
      <3> DEFINE i == [opener |-> r, service |-> service[r]]
      <3>1. i \in Incident
        BY <2>1 DEF OpenIncident, Incident, TypeInv, Located, WithService, Stages
      <3>2. status'[i] = "OPEN" /\ \A a \in Anomaly : link'[a] \in {i, link[a]}
        BY <2>1, <3>1 DEF OpenIncident, LinkAll, TypeInv, TypeOK
      <3> QED
        BY <3>2
    <2>2. ASSUME NEW r \in Requests, AttachAnomalies(r) PROVE Absorbed
      <3>1. status[incident[r]] # "RESOLVED" /\ status' = status
        BY <2>2 DEF AttachAnomalies, SerialInv, ReadIsCurrent
      <3>2. \A a \in Anomaly : link'[a] \in {incident[r], link[a]}
        BY <2>2 DEF AttachAnomalies, LinkAll
      <3> QED
        BY <3>1, <3>2
    <2>3. CASE link' = link
      BY <2>3
    <2>4. ASSUME NEW r \in Requests, Step(r)
          PROVE  OpenIncident(r) \/ AttachAnomalies(r) \/ link' = link
      BY <2>4 DEF Step, Detect, SaveAnomalies, FindOpen, TriageGate, SaveTriage, BuildPayload,
             SendOrSkip, CommitAlerts, anomalyTable
    <2>5. ASSUME NEW p \in Patches, Operator(p) PROVE link' = link
      BY <2>5 DEF Operator, PatchLoad, PatchCommit, anomalyTable
    <2> HIDE DEF Absorbed
    <2> QED
      BY <2>1, <2>2, <2>3, <2>4, <2>5 DEF Next, Begin, Fail, Tick, Quiescent, anomalyTable
  <1> QED
    BY <1>1, Serial, Typing, PTL DEF Spec, AbsorbedWhileUnresolved

\* An open incident absorbs the new anomalies of its service: none is opened
\* while an unresolved one was updated within the correlation window.
THEOREM NoDuplicates ==
  ASSUME PoolSize = 1
  PROVE  Spec => NoDuplicateIncidents
  <1> DEFINE Single == \A i \in incidents' \ incidents, j \in incidents :
               j.service = i.service /\ status[j] # "RESOLVED"
                 => updated[j] < now[i.opener] - CorrelationWindow
  <1>1. Init => Times /\ Alone
    BY WindowAssumption DEF Init, Times, Alone, NothingToJoin, IdlePatch
  <1>2. SerialInv => Exclusive
    BY DEF SerialInv
  <1>3. Alone /\ [Next]_vars => [Single]_vars
    <2> SUFFICES ASSUME Alone, Next PROVE Single \/ UNCHANGED vars
      OBVIOUS
    <2>1. ASSUME NEW r \in Requests, OpenIncident(r) PROVE Single
      <3>1. pc[r] = "open" /\ incidents' = incidents \cup {[opener |-> r, service |-> service[r]]}
        BY <2>1 DEF OpenIncident
      <3>2. \A i \in incidents' \ incidents : i.opener = r /\ i.service = service[r]
        BY <3>1
      <3> QED
        BY <3>1, <3>2 DEF Alone, NothingToJoin
    <2>2. CASE incidents' = incidents
      BY <2>2
    <2>3. ASSUME NEW r \in Requests, Step(r)
          PROVE  OpenIncident(r) \/ incidents' = incidents
      BY <2>3 DEF Step, Detect, SaveAnomalies, FindOpen, AttachAnomalies, TriageGate,
             SaveTriage, BuildPayload, SendOrSkip, CommitAlerts, incidentTable
    <2>4. ASSUME NEW p \in Patches, Operator(p) PROVE incidents' = incidents
      BY <2>4 DEF Operator, PatchLoad, PatchCommit, incidentTable
    <2> HIDE DEF Single
    <2> QED
      BY <2>1, <2>2, <2>3, <2>4 DEF Next, Begin, Fail, Tick, Quiescent, incidentTable
  <1>4. ASSUME Alone, Times, TypeInv, Exclusive, [Next]_vars PROVE Alone'
    BY <1>4, AloneNext
  <1>5. Spec => [](Times /\ TypeInv)
    BY <1>1, TimesNext, Typing, PTL DEF Spec
  <1> QED
    BY <1>1, <1>2, <1>3, <1>4, <1>5, Serial, PTL DEF Spec, NoDuplicateIncidents

(***************************************************************************)
(* No anomaly is forgotten: what a request has stored is announced, or     *)
(* still in its hands, or the request failed.  The safety half of          *)
(* AnomalyIsAnnounced.                                                     *)
(***************************************************************************)
Recent(i, c, t) == \E b \in alerts : b.incident = i /\ b.channel = c /\ b.created_at >= t

\* What AnomalyIsAnnounced asks for: an incident, and a recent alert on every channel.
Heard(a) ==
  /\ link[a] # None
  /\ \A c \in ChannelSet : Recent(link[a], c, now[a.request] - AlertRateLimit)

\* A request that has stored the anomaly is working on it.
InHand(a) == pc[a.request] \in WithService \ {"save"} /\ a \in Found(a.request)

NoneForgotten == \A a \in anomalies : pc[a.request] = "failed" \/ Heard(a) \/ InHand(a)

\* From the gate on a request's anomalies are filed under its incident.
Filed == {"gate", "triage", "payload", "alert"}

\* The channels a request has passed were sent to, or had a recent alert.
Passed(r) ==
  /\ pc[r] # "alert" => channel[r] = 1
  /\ pc[r] \in Filed => \A a \in Found(r) : link[a] = incident[r]
  /\ \A n \in DOMAIN Channels : n < channel[r] =>
       \/ Channels[n] \in fired[r]
       \/ Recent(incident[r], Channels[n], now[r] - AlertRateLimit)

FollowInv == NoneForgotten /\ \A r \in Requests : Passed(r)

\* Rows and links stay: what was announced remains so, and the other requests keep
\* what they have.
LEMMA AnnouncementsStay ==
  ASSUME TypeInv, BookInv, FollowInv,
         \A a \in Anomaly : link[a] # None => link'[a] = link[a],
         alerts \subseteq alerts',
         NEW q \in Requests,
         pc'[q] = pc[q], incident'[q] = incident[q], fired'[q] = fired[q], now'[q] = now[q],
         service'[q] = service[q], hits'[q] = hits[q], channel'[q] = channel[q]
  PROVE  /\ Passed(q)'
         /\ \A a \in anomalies : a.request = q =>
              pc'[q] = "failed" \/ Heard(a)' \/ InHand(a)'
  <1>1. \A i, c, t : Recent(i, c, t) => \E b \in alerts' : b.incident = i /\ b.channel = c /\ b.created_at >= t
    BY DEF Recent
  <1>2. Found(q)' = Found(q)
    BY DEF Found
  <1>3. pc[q] \in Filed => \A a \in Found(q) : link[a] = incident[q] /\ link'[a] = incident[q]
    <2> SUFFICES ASSUME pc[q] \in Filed, NEW a \in Found(q)
                 PROVE  link[a] = incident[q] /\ link'[a] = incident[q]
      OBVIOUS
    <2>1. a \in Anomaly /\ incident[q] \in Incident
      BY HeldBatch DEF Filed, TypeInv, Located
    <2>2. link[a] = incident[q]
      BY DEF FollowInv, Passed
    <2> QED
      BY <2>1, <2>2, NoneAssumption
  <1>4. Passed(q)'
    BY <1>1, <1>2, <1>3 DEF FollowInv, Passed, Recent
  <1>5. ASSUME NEW a \in anomalies, a.request = q, pc[q] # "failed", ~InHand(a)
        PROVE  Heard(a)'
    <2>1. Heard(a) /\ a \in Anomaly
      BY <1>5 DEF FollowInv, NoneForgotten, TypeInv, TypeOK
    <2>2. link'[a] = link[a] /\ link[a] # None
      BY <2>1 DEF Heard
    <2>3. \A c \in ChannelSet : Recent(link[a], c, now[q] - AlertRateLimit)'
      BY <1>1, <1>5, <2>1 DEF Heard, Recent
    <2> QED
      BY <1>5, <2>2, <2>3 DEF Heard, Recent
  <1>6. \A a \in anomalies : a.request = q /\ InHand(a) => InHand(a)'
    BY <1>2 DEF InHand
  <1> QED
    BY <1>4, <1>5, <1>6

\* The anomalies a request has stored are those it is processing, or heard of already.
LEMMA MoverFollows ==
  ASSUME TypeInv, BookInv, FollowInv, NEW r \in Requests, Moves(r)
  PROVE  /\ Passed(r)'
         /\ \A a \in anomalies' : a.request = r => pc'[r] = "failed" \/ Heard(a)' \/ InHand(a)'
         /\ \A a \in anomalies' \ anomalies : a.request = r
         /\ alerts \subseteq alerts'
  <1> DEFINE Kept == \A a \in anomalies' : a.request = r =>
                       pc'[r] = "failed" \/ Heard(a)' \/ InHand(a)'
             Goal == /\ Passed(r)' /\ Kept /\ (\A a \in anomalies' \ anomalies : a.request = r)
                     /\ alerts \subseteq alerts'
  <1> SUFFICES Goal
    OBVIOUS
  <1>0. /\ pc \in [Requests -> Stages \cup {"new", "done", "failed"}]
        /\ now \in [Requests -> Nat] /\ channel \in [Requests -> Nat \ {0}]
        /\ service \in [Requests -> Services \cup {None}] /\ hits \in [Requests -> SUBSET Signals]
        /\ incident \in [Requests -> Incident \cup {None}]
        /\ fired \in [Requests -> SUBSET ChannelSet] /\ link \in [Anomaly -> Incident \cup {None}]
        /\ anomalies \subseteq Anomaly
    BY DEF TypeInv, TypeOK
  <1>1. /\ pc[r] # "alert" => channel[r] = 1
        /\ pc[r] \in Filed => \A a \in Found(r) : link[a] = incident[r]
        /\ \A n \in DOMAIN Channels : n < channel[r] =>
             \/ Channels[n] \in fired[r]
             \/ Recent(incident[r], Channels[n], now[r] - AlertRateLimit)
        /\ \A a \in anomalies : a.request = r => pc[r] = "failed" \/ Heard(a) \/ InHand(a)
    BY DEF FollowInv, Passed, NoneForgotten
  <1>2. DOMAIN Channels \subseteq Nat \ {0}
    BY FiniteAssumption
  \* Leaves the row's incident, alerts and time alone.
  <1>3. ASSUME UNCHANGED <<link, alerts, now>> PROVE \A a : Heard(a)' = Heard(a)
    BY <1>3 DEF Heard, Recent
  <1>4. ASSUME NEW S \in SUBSET Services, Begin(r, S) PROVE Goal
    <2>1. /\ pc[r] = "new" /\ pc'[r] = "detect" /\ channel' = channel
          /\ anomalies' = anomalies /\ alerts' = alerts
      BY <1>0, <1>4 DEF Begin, Goto, anomalyTable, outbox
    <2>2. \A a \in anomalies : a.request # r
      BY <2>1 DEF BookInv, OldRows
    <2> QED
      BY <1>0, <1>1, <1>2, <2>1, <2>2 DEF Passed, Filed
  <1>5. CASE Fail(r)
    <2>1. /\ pc'[r] = "failed" /\ channel'[r] = 1 /\ anomalies' = anomalies /\ alerts' = alerts
      BY <1>0, <1>5 DEF Fail, Forget, Goto, anomalyTable, outbox
    <2> QED
      BY <1>2, <2>1 DEF Passed, Filed
  <1>6. ASSUME NEW s \in Services, NEW K \in SUBSET Signals, Detect(r, s, K) PROVE Goal
    <2>1. /\ pc[r] = "detect" /\ pc'[r] \in {"detect", "done", "save"} /\ channel' = channel
          /\ anomalies' = anomalies /\ alerts' = alerts /\ UNCHANGED <<link, now>>
      BY <1>0, <1>6 DEF Detect, Goto, anomalyTable, outbox
    <2>2. \A a \in anomalies : a.request = r => Heard(a)'
      BY <1>1, <1>3, <2>1 DEF InHand
    <2> QED
      BY <1>0, <1>1, <1>2, <2>1, <2>2 DEF Passed, Filed
  <1>7. CASE SaveAnomalies(r)
    <2>1. /\ pc[r] = "save" /\ pc'[r] = "correlate" /\ channel' = channel
          /\ anomalies' = anomalies \cup Found(r) /\ UNCHANGED <<link, now, alerts, service, hits>>
      BY <1>0, <1>7 DEF SaveAnomalies, Goto, outbox, locals
    <2>2. \A a \in Found(r) : a.request = r /\ InHand(a)'
      BY <2>1 DEF Found, InHand
    <2>3. \A a \in anomalies : a.request = r => Heard(a)'
      BY <1>1, <1>3, <2>1 DEF InHand
    <2> QED
      BY <1>0, <1>1, <1>2, <2>1, <2>2, <2>3 DEF Passed, Filed
  \* Between two steps of a stage that keeps the batch.
  <1>8. ASSUME /\ pc[r] \in WithService \ {"save", "alert"}
               /\ pc'[r] \in WithService \ {"save"}
               /\ UNCHANGED <<anomalies, alerts, now, service, hits, channel>>
               /\ \A a \in Anomaly : link[a] # None => link'[a] = link[a]
               /\ pc'[r] \in Filed => \A a \in Found(r) : link'[a] = incident'[r]
        PROVE  Goal
    <2>1. Found(r)' = Found(r)
      BY <1>8 DEF Found
    <2>2. \A a : a.request = r /\ InHand(a) => InHand(a)'
      BY <1>8, <2>1 DEF InHand
    <2>3. \A a \in anomalies : Heard(a) => Heard(a)'
      BY <1>0, <1>8 DEF Heard, Recent
    <2>4. Kept
      BY <1>1, <1>8, <2>2, <2>3
    <2> QED
      BY <1>0, <1>1, <1>2, <1>8, <2>1, <2>4 DEF Passed
  <1>9. CASE FindOpen(r)
    BY <1>0, <1>8, <1>9 DEF FindOpen, Goto, Filed, anomalyTable, outbox
  <1>10. CASE OpenIncident(r) \/ AttachAnomalies(r)
    <2>1. /\ pc[r] \in Holding /\ pc'[r] = "gate" /\ incident'[r] \in Incident
          /\ UNCHANGED <<anomalies, alerts, now, service, hits, channel>>
          /\ link' = LinkAll(Found(r), incident'[r])
      BY <1>0, <1>10 DEF OpenIncident, AttachAnomalies, Goto, outbox, locals, TypeInv, Located,
                         Incident
    <2>2. \A a \in Found(r) : a \in Anomaly /\ link[a] = None
      BY <2>1, <1>0 DEF BookInv, HeldUnlinked
    <2> QED
      BY <1>8, <2>1, <2>2 DEF LinkAll
  <1>11. CASE TriageGate(r) \/ BuildPayload(r) \/ \E c \in Categories : SaveTriage(r, c)
    <2>1. /\ pc[r] \in Filed \ {"alert"} /\ pc'[r] \in Filed
          /\ UNCHANGED <<anomalies, alerts, link, now, service, hits, channel, incident>>
      BY <1>0, <1>11 DEF TriageGate, BuildPayload, SaveTriage, Goto, Filed, outbox, locals,
                         anomalyTable
    <2> QED
      BY <1>1, <1>8, <2>1 DEF Filed
  <1>12. CASE SendOrSkip(r)
    <2>1. /\ pc[r] = "alert" /\ channel[r] \in DOMAIN Channels /\ channel'[r] = channel[r] + 1
          /\ UNCHANGED <<anomalies, alerts, link, now, service, hits, incident, pc>>
          /\ fired[r] \subseteq fired'[r]
          /\ \/ Channels[channel[r]] \in fired'[r]
             \/ Recent(incident[r], Channels[channel[r]], now[r] - AlertRateLimit)
      BY <1>0, <1>12 DEF SendOrSkip, ExistsSince, Recent, anomalyTable, ChannelSet
    <2>2. Found(r)' = Found(r) /\ \A i, c, t : Recent(i, c, t)' = Recent(i, c, t)
      BY <2>1 DEF Found, Recent
    <2>3. ASSUME NEW n \in DOMAIN Channels, n < channel'[r]
          PROVE  \/ Channels[n] \in fired'[r]
                 \/ Recent(incident[r], Channels[n], now[r] - AlertRateLimit)
      <3>1. n < channel[r] \/ n = channel[r]
        BY <1>0, <1>2, <2>1, <2>3
      <3> QED
        BY <1>1, <2>1, <2>3, <3>1
    <2>4. Passed(r)'
      BY <1>1, <2>1, <2>2, <2>3 DEF Passed
    <2>5. Kept
      BY <1>1, <1>3, <2>1, <2>2 DEF InHand
    <2> QED
      BY <2>1, <2>4, <2>5
  <1>13. CASE CommitAlerts(r)
    <2>1. /\ pc[r] = "alert" /\ channel[r] \notin DOMAIN Channels /\ channel'[r] = 1
          /\ pc'[r] \in {"done", "detect"} /\ alerts' = alerts \cup PendingAlerts(r)
          /\ UNCHANGED <<anomalies, link, now>>
      BY <1>0, <1>13 DEF CommitAlerts, Forget, Goto, NextService, anomalyTable
    <2>2. ASSUME NEW c \in ChannelSet
          PROVE  \E b \in alerts' : /\ b.incident = incident[r] /\ b.channel = c
                                    /\ b.created_at >= now[r] - AlertRateLimit
      <3>1. PICK n \in DOMAIN Channels : Channels[n] = c
        BY DEF ChannelSet
      <3>2. n < channel[r]
        BY <1>0, <2>1, FiniteAssumption
      <3>3. CASE c \in fired[r]
        <4>1. /\ AlertRow(r, c) \in alerts' /\ AlertRow(r, c).incident = incident[r]
              /\ AlertRow(r, c).channel = c /\ AlertRow(r, c).created_at = now[r]
          BY <2>1, <3>3 DEF PendingAlerts, AlertRow
        <4>2. now[r] >= now[r] - AlertRateLimit
          BY <1>0, WindowAssumption
        <4> QED
          BY <4>1, <4>2
      <3>4. CASE Recent(incident[r], c, now[r] - AlertRateLimit)
        BY <2>1, <3>4 DEF Recent
      <3> QED
        BY <1>1, <3>1, <3>2, <3>3, <3>4
    <2>3. ASSUME NEW a \in anomalies, a.request = r PROVE Heard(a)'
      <3>1. CASE Heard(a)
        BY <2>1, <2>3, <3>1 DEF Heard, Recent
      <3>2. CASE a \in Found(r)
        <4>1. link[a] = incident[r] /\ incident[r] # None
          BY <1>1, <2>1, <3>2, NoneAssumption DEF Filed, TypeInv, Located
        <4> QED
          BY <2>1, <2>2, <2>3, <4>1 DEF Heard, Recent
      <3> QED
        BY <1>1, <2>1, <2>3, <3>1, <3>2 DEF InHand
    <2> QED
      BY <1>2, <2>1, <2>3 DEF Passed, Filed
  <1> QED
    BY <1>4, <1>5, <1>6, <1>7, <1>9, <1>10, <1>11, <1>12, <1>13 DEF Moves, Step

\* An anomaly that is stored is announced on every channel, under its incident, before its
\* request goes on to another service or ends, unless the request fails.
THEOREM NoAnomalyForgotten == Spec => []NoneForgotten
  <1>1. Init => FollowInv
    BY FiniteAssumption DEF Init, FollowInv, NoneForgotten, Passed, Filed
  <1>2. ASSUME TypeInv, BookInv, FollowInv, [Next]_vars,
               \A a \in Anomaly : link[a] # None => link'[a] = link[a]
        PROVE  FollowInv'
    <2>0. anomalies \subseteq Anomaly /\ \A a \in Anomaly : a.request \in Requests
      BY <1>2 DEF TypeInv, TypeOK, Anomaly
    <2>1. ASSUME NEW r \in Requests, Moves(r) PROVE FollowInv'
      <3>1. /\ Passed(r)'
            /\ \A a \in anomalies' : a.request = r => pc'[r] = "failed" \/ Heard(a)' \/ InHand(a)'
            /\ \A a \in anomalies' \ anomalies : a.request = r
            /\ alerts \subseteq alerts'
        BY <1>2, <2>1, MoverFollows
      <3>2. ASSUME NEW q \in Requests \ {r}
            PROVE  /\ Passed(q)'
                   /\ \A a \in anomalies : a.request = q =>
                        pc'[q] = "failed" \/ Heard(a)' \/ InHand(a)'
        BY <1>2, <2>1, <3>1, OthersStay, AnnouncementsStay
      <3> QED
        BY <2>0, <3>1, <3>2 DEF FollowInv, NoneForgotten
    <2>2. ASSUME UNCHANGED <<anomalies, link, alerts, pc, locals>> PROVE FollowInv'
      BY <1>2, <2>2 DEF FollowInv, NoneForgotten, Passed, Heard, InHand, Recent, Found, locals
    <2>3. \/ UNCHANGED <<anomalies, link, alerts, pc, locals>>
          \/ \E r \in Requests : Moves(r)
      BY <1>2 DEF Next, Moves, Tick, Operator, PatchLoad, PatchCommit, Quiescent, vars,
                  anomalyTable, outbox
    <2> QED
      BY <2>1, <2>2, <2>3
  <1>3. FollowInv => NoneForgotten
    BY DEF FollowInv
  <1>4. Spec => [][\A a \in Anomaly : link[a] # None => link'[a] = link[a]]_vars
    BY LinksStable DEF LinksNeverMove
  <1>5. TypeInv /\ BookInv /\ FollowInv /\ UNCHANGED vars => FollowInv'
    <2> SUFFICES ASSUME FollowInv, UNCHANGED vars PROVE FollowInv'
      OBVIOUS
    <2> QED
      BY DEF vars, anomalyTable, outbox, locals, FollowInv, NoneForgotten, Passed, Heard,
             InHand, Recent, Found
  <1>6. TypeInv /\ BookInv /\ FollowInv /\ [Next]_vars
          /\ [\A a \in Anomaly : link[a] # None => link'[a] = link[a]]_vars => FollowInv'
    BY <1>2, <1>5
  <1> QED
    BY <1>1, <1>3, <1>4, <1>6, Typing, Book, PTL DEF Spec

(***************************************************************************)
(* A request takes a bounded number of steps: what is left is a natural    *)
(* number that each of its steps lowers and no other request changes.  A   *)
(* batch names finitely many services.                                     *)
(***************************************************************************)
\* A service costs its detection, seven steps at most to its alerts, and a step a channel.
StepsPerService == Len(Channels) + 8

StepsOfStage(r) ==
  IF pc[r] = "save" THEN StepsPerService - 1
  ELSE IF pc[r] = "correlate" THEN StepsPerService - 2
  ELSE IF pc[r] \in {"open", "attach"} THEN StepsPerService - 3
  ELSE IF pc[r] = "gate" THEN StepsPerService - 4
  ELSE IF pc[r] = "triage" THEN StepsPerService - 5
  ELSE IF pc[r] = "payload" THEN StepsPerService - 6
  ELSE IF pc[r] = "alert" THEN StepsPerService - 6 - channel[r]
  ELSE 0

StepsLeft(r) ==
  IF Active(r) THEN StepsPerService * Cardinality(todo[r]) + StepsOfStage(r) ELSE 0

\* Nothing is left exactly when the request has ended or has not begun.
StepsCounted ==
  \A r \in Requests : StepsLeft(r) \in Nat /\ (StepsLeft(r) = 0 <=> ~Active(r))

\* Each step of a request lowers what it has left, whatever it raises from; only that and
\* its beginning change it, and it begins with its services to do.
StepsRunOut ==
  [][\A r \in Requests :
       /\ Step(r) \/ Fail(r) => StepsLeft(r)' < StepsLeft(r)
       /\ \A S \in SUBSET Services : Begin(r, S) =>
            StepsLeft(r)' = StepsPerService * Cardinality(S)
       /\ StepsLeft(r)' # StepsLeft(r) =>
            Step(r) \/ Fail(r) \/ \E S \in SUBSET Services : Begin(r, S)]_vars

\* A request in the loop over its services has one to do, and no more channels than there are.
Bounded ==
  \A r \in Requests : /\ pc[r] = "detect" => todo[r] # {}
                      /\ pc[r] # "alert" => channel[r] = 1
                      /\ channel[r] <= Len(Channels) + 1

LEMMA BoundedNext == TypeInv /\ Bounded /\ [Next]_vars => Bounded'
  <1> SUFFICES ASSUME TypeInv, Bounded, [Next]_vars PROVE Bounded'
    OBVIOUS
  <1>0. /\ pc \in [Requests -> Stages \cup {"new", "done", "failed"}]
        /\ channel \in [Requests -> Nat \ {0}] /\ todo \in [Requests -> SUBSET Services]
        /\ Len(Channels) \in Nat /\ DOMAIN Channels = 1..Len(Channels)
    BY FiniteAssumption DEF TypeInv, TypeOK
  <1>1. ASSUME NEW r \in Requests, Moves(r)
        PROVE  /\ pc'[r] = "detect" => todo'[r] # {}
               /\ pc'[r] # "alert" => channel'[r] = 1
               /\ channel'[r] <= Len(Channels) + 1
    <2> USE <1>0 DEF Bounded, Goto
    <2>1. CASE (\E S \in SUBSET Services : Begin(r, S)) \/ Fail(r)
      BY <2>1 DEF Begin, Fail, Forget, Active
    <2>2. ASSUME NEW s \in Services, NEW K \in SUBSET Signals, Detect(r, s, K)
          PROVE  /\ pc'[r] = "detect" => todo'[r] # {}
                 /\ pc'[r] # "alert" => channel'[r] = 1
                 /\ channel'[r] <= Len(Channels) + 1
      BY <2>2 DEF Detect
    <2>3. CASE \/ SaveAnomalies(r) \/ FindOpen(r) \/ OpenIncident(r) \/ AttachAnomalies(r)
               \/ TriageGate(r) \/ BuildPayload(r) \/ \E c \in Categories : SaveTriage(r, c)
      BY <2>3 DEF SaveAnomalies, FindOpen, OpenIncident, AttachAnomalies, TriageGate,
                  BuildPayload, SaveTriage, locals
    <2>4. CASE SendOrSkip(r)
      BY <2>4 DEF SendOrSkip
    <2>5. CASE CommitAlerts(r)
      BY <2>5 DEF CommitAlerts, Forget, NextService
    <2> QED
      BY <1>1, <2>1, <2>2, <2>3, <2>4, <2>5 DEF Moves, Step
  <1>2. ASSUME NEW r \in Requests, Moves(r) PROVE Bounded'
    BY <1>1, <1>2, OthersStay DEF Bounded
  <1>3. UNCHANGED <<pc, todo, channel>> => Bounded'
    BY DEF Bounded
  <1> QED
    BY <1>2, <1>3 DEF Next, Moves, Tick, Operator, PatchLoad, PatchCommit, Quiescent, vars, locals

LEMMA Sizes ==
  ASSUME IsFiniteSet(Services), NEW S \in SUBSET Services
  PROVE  /\ IsFiniteSet(S) /\ Cardinality(S) \in Nat
         /\ StepsPerService \in Nat /\ StepsPerService >= 8
         /\ StepsPerService * Cardinality(S) \in Nat
         /\ S # {} => StepsPerService * Cardinality(S) >= StepsPerService
         /\ \A s \in S : StepsPerService * Cardinality(S \ {s})
                           = StepsPerService * Cardinality(S) - StepsPerService
  <1>1. /\ IsFiniteSet(S) /\ Cardinality(S) \in Nat /\ (S # {} => Cardinality(S) # 0)
        /\ \A s \in S : Cardinality(S \ {s}) = Cardinality(S) - 1
    BY FS_Subset, FS_CardinalityType, FS_EmptySet, FS_RemoveElement
  <1>2. StepsPerService \in Nat /\ StepsPerService >= 8
    BY FiniteAssumption DEF StepsPerService
  <1>3. \A k \in Nat, n \in Nat : /\ k * n \in Nat /\ k * (n - 1) = k * n - k
    OBVIOUS
  <1>4. S # {} => StepsPerService * Cardinality(S) >= StepsPerService
    <2> SUFFICES ASSUME S # {} PROVE StepsPerService * Cardinality(S) >= StepsPerService
      OBVIOUS
    <2>1. Cardinality(S) - 1 \in Nat
      BY <1>1
    <2>2. StepsPerService * (Cardinality(S) - 1) \in Nat
      BY <1>2, <1>3, <2>1
    <2>3. StepsPerService * (Cardinality(S) - 1)
            = StepsPerService * Cardinality(S) - StepsPerService
      BY <1>1, <1>2, <1>3
    <2>4. StepsPerService * Cardinality(S) \in Nat
      BY <1>1, <1>2, <1>3
    <2> QED
      BY <1>2, <2>2, <2>3, <2>4
  <1> QED
    BY <1>1, <1>2, <1>3, <1>4

LEMMA StepsAreCounted ==
  ASSUME IsFiniteSet(Services), TypeInv, Bounded
  PROVE  StepsCounted
  <1> SUFFICES ASSUME NEW r \in Requests
               PROVE  StepsLeft(r) \in Nat /\ (StepsLeft(r) = 0 <=> ~Active(r))
    BY DEF StepsCounted
  <1>1. /\ todo[r] \in SUBSET Services /\ channel[r] \in Nat
        /\ pc[r] = "detect" => todo[r] # {}
        /\ channel[r] <= Len(Channels) + 1 /\ Len(Channels) \in Nat
    BY FiniteAssumption DEF TypeInv, TypeOK, Bounded
  <1>2. /\ StepsPerService \in Nat /\ StepsPerService >= 8
        /\ StepsPerService * Cardinality(todo[r]) \in Nat
        /\ todo[r] # {} => StepsPerService * Cardinality(todo[r]) >= StepsPerService
    BY <1>1, Sizes
  <1>3. StepsOfStage(r) \in Nat /\ (Active(r) /\ pc[r] # "detect" => StepsOfStage(r) > 0)
    BY <1>1, <1>2 DEF StepsOfStage, StepsPerService, Active
  <1> QED
    BY <1>1, <1>2, <1>3 DEF StepsLeft

LEMMA StepShortens ==
  ASSUME IsFiniteSet(Services), TypeInv, Bounded, NEW r \in Requests, Step(r) \/ Fail(r)
  PROVE  StepsLeft(r)' < StepsLeft(r)
  <1>0. /\ pc \in [Requests -> Stages \cup {"new", "done", "failed"}]
        /\ channel \in [Requests -> Nat \ {0}] /\ todo \in [Requests -> SUBSET Services]
        /\ Len(Channels) \in Nat /\ DOMAIN Channels = 1..Len(Channels)
        /\ pc[r] # "alert" => channel[r] = 1
        /\ channel[r] <= Len(Channels) + 1
    BY FiniteAssumption DEF TypeInv, TypeOK, Bounded
  <1> DEFINE ahead == StepsPerService * Cardinality(todo[r])
  <1>1. /\ StepsPerService \in Nat /\ StepsPerService >= 8 /\ ahead \in Nat
        /\ \A s \in todo[r] : StepsPerService * Cardinality(todo[r] \ {s}) = ahead - StepsPerService
        /\ \A s \in todo[r] : StepsPerService * Cardinality(todo[r] \ {s}) \in Nat
    <2>1. todo[r] \in SUBSET Services /\ \A s : todo[r] \ {s} \in SUBSET Services
      BY <1>0
    <2> QED
      BY <2>1, Sizes
  <1>2. StepsPerService = Len(Channels) + 8
    BY DEF StepsPerService
  <1>3. StepsLeft(r) \in Nat /\ (Active(r) => StepsLeft(r) > 0)
    BY StepsAreCounted DEF StepsCounted
  <1> HIDE DEF ahead
  <1>4. ASSUME pc'[r] \in {"done", "failed"} PROVE StepsLeft(r)' < StepsLeft(r)
    <2>1. Active(r)
      BY DEF Step, Fail, Active, Detect, SaveAnomalies, FindOpen, OpenIncident, AttachAnomalies,
             TriageGate, BuildPayload, SaveTriage, SendOrSkip, CommitAlerts
    <2>2. StepsLeft(r)' = 0
      BY <1>4 DEF StepsLeft, Active
    <2> QED
      BY <1>3, <2>1, <2>2
  <1>5. ASSUME NEW s \in Services, NEW K \in SUBSET Signals, Detect(r, s, K),
               pc'[r] \notin {"done", "failed"}
        PROVE  StepsLeft(r)' < StepsLeft(r)
    <2>1. /\ pc[r] = "detect" /\ s \in todo[r] /\ todo'[r] = todo[r] \ {s}
          /\ pc'[r] \in {"detect", "save"}
      BY <1>0, <1>5 DEF Detect, Goto
    <2>2. StepsLeft(r) = ahead
      BY <1>1, <2>1 DEF StepsLeft, StepsOfStage, Active, ahead
    <2>3. StepsLeft(r)' = (ahead - StepsPerService) + StepsOfStage(r)'
      BY <1>1, <2>1 DEF StepsLeft, Active
    <2>4. StepsOfStage(r)' \in {0, StepsPerService - 1}
      BY <2>1 DEF StepsOfStage
    <2> QED
      BY <1>1, <2>2, <2>3, <2>4
  <1>6. ASSUME UNCHANGED todo, pc[r] \in WithService, pc'[r] \in WithService,
               StepsOfStage(r) \in Nat, StepsOfStage(r)' \in Nat,
               StepsOfStage(r)' < StepsOfStage(r)
        PROVE  StepsLeft(r)' < StepsLeft(r)
    BY <1>1, <1>6 DEF StepsLeft, Active, ahead
  <1>7. CASE \/ SaveAnomalies(r) \/ FindOpen(r) \/ OpenIncident(r) \/ AttachAnomalies(r)
             \/ TriageGate(r) \/ BuildPayload(r) \/ \E c \in Categories : SaveTriage(r, c)
    <2>1. /\ UNCHANGED <<todo, channel>> /\ channel[r] = 1
          /\ \/ pc[r] = "save" /\ pc'[r] = "correlate"
             \/ pc[r] = "correlate" /\ pc'[r] \in {"open", "attach"}
             \/ pc[r] \in {"open", "attach"} /\ pc'[r] = "gate"
             \/ pc[r] = "gate" /\ pc'[r] \in {"triage", "alert"}
             \/ pc[r] = "triage" /\ pc'[r] = "payload"
             \/ pc[r] = "payload" /\ pc'[r] = "alert"
      BY <1>0, <1>7 DEF SaveAnomalies, FindOpen, OpenIncident, AttachAnomalies, TriageGate,
                        BuildPayload, SaveTriage, Goto, locals
    <2>2. /\ StepsOfStage(r) \in Nat /\ StepsOfStage(r)' \in Nat
          /\ StepsOfStage(r)' < StepsOfStage(r)
      BY <1>1, <2>1 DEF StepsOfStage
    <2> QED
      BY <1>6, <2>1, <2>2
  <1>8. CASE SendOrSkip(r)
    <2>1. /\ pc[r] = "alert" /\ pc' = pc /\ todo' = todo
          /\ channel'[r] = channel[r] + 1 /\ channel[r] <= Len(Channels)
      BY <1>0, <1>8 DEF SendOrSkip
    <2>2. /\ StepsOfStage(r) = StepsPerService - 6 - channel[r]
          /\ StepsOfStage(r)' = StepsPerService - 6 - (channel[r] + 1)
      BY <2>1 DEF StepsOfStage
    <2>3. /\ StepsOfStage(r) \in Nat /\ StepsOfStage(r)' \in Nat
          /\ StepsOfStage(r)' < StepsOfStage(r)
      BY <1>0, <1>2, <2>1, <2>2
    <2> QED
      BY <1>6, <2>1, <2>3
  <1>9. ASSUME CommitAlerts(r), pc'[r] \notin {"done", "failed"}
        PROVE  StepsLeft(r)' < StepsLeft(r)
    <2>1. pc[r] = "alert" /\ pc'[r] = "detect" /\ todo' = todo
      BY <1>0, <1>9 DEF CommitAlerts, Goto, NextService
    <2>2. StepsLeft(r)' = ahead
      BY <1>1, <2>1 DEF StepsLeft, StepsOfStage, Active, ahead
    <2>3. StepsOfStage(r) \in Nat /\ StepsOfStage(r) > 0
      BY <1>0, <1>2, <2>1 DEF StepsOfStage
    <2>4. StepsLeft(r) = ahead + StepsOfStage(r)
      BY <2>1 DEF StepsLeft, Active, ahead
    <2> QED
      BY <1>1, <2>2, <2>3, <2>4
  <1>10. CASE Fail(r)
    BY <1>0, <1>4, <1>10 DEF Fail, Goto
  <1> QED
    BY <1>4, <1>5, <1>7, <1>8, <1>9, <1>10 DEF Step

\* A request is through after at most Len(Channels) + 8 steps a service, whatever is
\* detected and whatever the other requests and the operators do.
THEOREM RequestsAreBounded ==
  ASSUME IsFiniteSet(Services)
  PROVE  Spec => []StepsCounted /\ StepsRunOut
  <1>1. Init => Bounded
    BY FiniteAssumption DEF Init, Bounded
  <1>2. ASSUME TypeInv, Bounded, Next, NEW r \in Requests
        PROVE  /\ Step(r) \/ Fail(r) => StepsLeft(r)' < StepsLeft(r)
               /\ \A S \in SUBSET Services : Begin(r, S) =>
                    StepsLeft(r)' = StepsPerService * Cardinality(S)
               /\ StepsLeft(r)' # StepsLeft(r) =>
                    Step(r) \/ Fail(r) \/ \E S \in SUBSET Services : Begin(r, S)
    <2>1. Step(r) \/ Fail(r) => StepsLeft(r)' < StepsLeft(r)
      BY <1>2, StepShortens
    <2>2. ASSUME NEW S \in SUBSET Services, Begin(r, S)
          PROVE  StepsLeft(r)' = StepsPerService * Cardinality(S)
      <3>1. pc'[r] = "detect" /\ todo'[r] = S
        BY <1>2, <2>2 DEF Begin, Goto, TypeInv, TypeOK
      <3>2. StepsLeft(r)' = StepsPerService * Cardinality(S) + 0
        BY <3>1 DEF StepsLeft, StepsOfStage, Active
      <3>3. StepsPerService * Cardinality(S) \in Nat
        BY Sizes
      <3> QED
        BY <3>2, <3>3
    <2>3. UNCHANGED <<pc, todo, channel>> => StepsLeft(r)' = StepsLeft(r)
      BY DEF StepsLeft, StepsOfStage, Active
    <2>4. ASSUME NEW q \in Requests \ {r}, Moves(q) PROVE StepsLeft(r)' = StepsLeft(r)
      <3>1. pc'[r] = pc[r] /\ todo'[r] = todo[r] /\ channel'[r] = channel[r]
        BY <1>2, <2>4, OthersStay
      <3> QED
        BY <3>1 DEF StepsLeft, StepsOfStage, Active
    <2>5. Moves(r) \/ StepsLeft(r)' = StepsLeft(r)
      BY <1>2, <2>3, <2>4 DEF Next, Moves, Tick, Operator, PatchLoad, PatchCommit, Quiescent,
                              vars, locals
    <2> QED
      BY <2>1, <2>2, <2>5 DEF Moves
  <1>3. TypeInv /\ Bounded /\ [Next]_vars =>
          [\A r \in Requests :
             /\ Step(r) \/ Fail(r) => StepsLeft(r)' < StepsLeft(r)
             /\ \A S \in SUBSET Services : Begin(r, S) =>
                  StepsLeft(r)' = StepsPerService * Cardinality(S)
             /\ StepsLeft(r)' # StepsLeft(r) =>
                  Step(r) \/ Fail(r) \/ \E S \in SUBSET Services : Begin(r, S)]_vars
    BY <1>2
  <1>4. TypeInv /\ Bounded => StepsCounted
    BY StepsAreCounted
  <1> QED
    BY <1>1, <1>3, <1>4, BoundedNext, Typing, PTL DEF Spec, StepsRunOut
=============================================================================
