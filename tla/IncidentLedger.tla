---------------------------- MODULE IncidentLedger ----------------------------
(***************************************************************************)
(* What the platform promises about incidents, with no request, thread or  *)
(* database in sight.  Anomalies are recorded, each is filed under at most *)
(* one incident of its own service and never moved again; the severity of  *)
(* an incident is at every moment the one the heuristic gives for the      *)
(* number of anomalies filed under it; an incident is announced only after *)
(* it was triaged.  Pipeline.tla implements this specification whatever    *)
(* the interleaving of its requests.                                       *)
(***************************************************************************)
EXTENDS Integers, FiniteSets

CONSTANTS Anomalies,        \* anomalies that can ever be recorded
          Incidents,        \* incidents that can ever be opened
          Categories,       \* triage verdicts
          ServiceOf(_),     \* the service of an anomaly or of an incident
          SeverityFor(_),   \* the heuristic: number of anomalies -> severity
          NoIncident,       \* the file of an anomaly not filed yet
          NoCategory        \* the verdict on an incident not triaged yet

VARIABLES recorded,   \* anomalies recorded so far
          opened,     \* incidents opened so far
          file,       \* file[a]: the incident a is filed under
          grade,      \* grade[i]: the severity of incident i
          verdict,    \* verdict[i]: the category of incident i
          announced   \* incidents some channel was told about

ledgerVars == <<recorded, opened, file, grade, verdict, announced>>

FiledUnder(i) == {a \in recorded : file[a] = i}

OfService(A, i) == A # {} /\ \A a \in A : ServiceOf(a) = ServiceOf(i)

FileAll(A, i) == file' = [a \in Anomalies |-> IF a \in A THEN i ELSE file[a]]

LedgerInit ==
  /\ recorded = {} /\ opened = {} /\ announced = {}
  /\ file = [a \in Anomalies |-> NoIncident]
  /\ grade \in [Incidents -> {SeverityFor(1)}]
  /\ verdict = [i \in Incidents |-> NoCategory]

Record(A) ==
  /\ A # {}
  /\ recorded' = recorded \cup A
  /\ UNCHANGED <<opened, file, grade, verdict, announced>>

Open(i, A) ==
  /\ i \notin opened
  /\ OfService(A, i)
  /\ opened' = opened \cup {i}
  /\ FileAll(A, i)
  /\ grade' = [grade EXCEPT ![i] = SeverityFor(Cardinality(A))]
  /\ UNCHANGED <<recorded, verdict, announced>>

Absorb(i, A) ==
  /\ i \in opened
  /\ OfService(A, i)
  /\ FileAll(A, i)
  /\ grade' = [grade EXCEPT ![i] = SeverityFor(Cardinality(FiledUnder(i) \cup A))]
  /\ UNCHANGED <<recorded, opened, verdict, announced>>

Triage(i, c) ==
  /\ i \in opened
  /\ verdict' = [verdict EXCEPT ![i] = c]
  /\ UNCHANGED <<recorded, opened, file, grade, announced>>

Announce(i) ==
  /\ i \in opened
  /\ verdict[i] # NoCategory
  /\ announced' = announced \cup {i}
  /\ UNCHANGED <<recorded, opened, file, grade, verdict>>

LedgerNext ==
  \/ \E A \in SUBSET (Anomalies \ recorded) : Record(A)
  \/ \E i \in Incidents, A \in SUBSET {a \in recorded : file[a] = NoIncident} :
       Open(i, A) \/ Absorb(i, A)
  \/ \E i \in Incidents, c \in Categories : Triage(i, c)
  \/ \E i \in Incidents : Announce(i)

LedgerSpec == LedgerInit /\ [][LedgerNext]_ledgerVars
=============================================================================
