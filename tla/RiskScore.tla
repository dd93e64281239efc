------------------------------- MODULE RiskScore -------------------------------
(***************************************************************************)
(* GET /api/v1/risk-score: the service counts the events of the last       *)
(* minutes, those of them that are errors, the incidents that alerted and  *)
(* the unresolved incidents in four SELECTs, while ingestion, triage and   *)
(* operators go on changing the tables between them.  The SDK client asks  *)
(* again when an exchange is lost; a request nobody waits for any more     *)
(* only reads, and is not followed.                                        *)
(*                                                                         *)
(* Penalties are in points of the score; the error penalty is a fraction,  *)
(* kept as its numerator over the number of events.                        *)
(***************************************************************************)
EXTENDS Integers, FiniteSets, Functions

CONSTANTS Incidents,
          Volumes,     \* how many events, and errors among them, may arrive at once
          RiskWindow,  \* risk_error_rate_window_seconds
          MaxRetries,  \* max_retries of the SDK client
          MaxEvents,   \* bound on the events stored
          MaxClock,    \* bound on the clock
          None

ASSUME RiskAssumption ==
  /\ Volumes \subseteq Nat \X Nat
  /\ \A v \in Volumes : v[2] <= v[1]
  /\ RiskWindow \in Nat /\ MaxRetries \in Nat /\ MaxClock \in Nat
  /\ IsFiniteSet(Incidents)

Instants == 0..MaxClock
Severities == {"CRITICAL", "HIGH", "MEDIUM", "LOW"}

VARIABLES
  clock,
  total, errors,     \* events stored, and errors among them, by timestamp
  severity, status,  \* of the incidents
  alerted,           \* incidents some alert row is about
  caller,            \* the SDK caller: "idle", "asking", "told" or "timeout"
  attempt,           \* the exchange it is in, from 1 on
  request            \* the server's side of that exchange

tables == <<total, errors, severity, status, alerted>>
vars == <<clock, tables, caller, attempt, request>>

(***************************************************************************)
(* The score.                                                              *)
(***************************************************************************)
Weight(s) ==
  CASE s = "CRITICAL" -> 20 [] s = "HIGH" -> 12 [] s = "MEDIUM" -> 6 [] s = "LOW" -> 2

AtMost(cap, x) == IF x > cap THEN cap ELSE x

Unresolved == {i \in Incidents : status[i] = "UNRESOLVED"}

InWindow(counts, from) == SumFunctionOnSet(counts, {t \in Instants : t >= from})

\* min(40, 0.8 * 100 * e / n), times the number of events.
ErrorShare(n, e) == AtMost(40 * n, 80 * e)

AlertPenalty(n) == AtMost(30, 5 * n)

IncidentPenalty(I) ==
  AtMost(50, SumFunctionOnSet([i \in Incidents |-> Weight(severity[i])], I))

\* An empty window has no error rate.
Denominator(n) == IF n = 0 THEN 1 ELSE n

Band(score, d) ==
  IF score >= 90 * d THEN "Healthy" ELSE IF score >= 70 * d THEN "Warning" ELSE "Critical"

\* max(0, min(100, 100 - penalties)) and its band; score and share over the denominator.
Answer(n, e, alarms, I) ==
  LET d == Denominator(n)
      share == IF n = 0 THEN 0 ELSE ErrorShare(n, e)
      raw == 100 * d - share - (AlertPenalty(alarms) + IncidentPenalty(I)) * d
      score == IF raw < 0 THEN 0 ELSE raw
  IN [score |-> score, share |-> share, alerts |-> AlertPenalty(alarms),
      incidents |-> IncidentPenalty(I), status |-> Band(score, d)]

(***************************************************************************)
(* The rest of the platform.                                               *)
(***************************************************************************)
\* rate is a ghost: the errors stored when the events were counted.
NoRequest ==
  [pc |-> "none", since |-> 0, counted |-> 0, erroneous |-> 0, alarms |-> 0,
   answer |-> None, rate |-> 0]

Init ==
  /\ clock = 0
  /\ total = [t \in Instants |-> 0] /\ errors = [t \in Instants |-> 0]
  /\ severity = [i \in Incidents |-> "LOW"]
  /\ status = [i \in Incidents |-> "UNKNOWN"]
  /\ alerted = {}
  /\ caller = "idle" /\ attempt = 0
  /\ request = NoRequest

Tick ==
  /\ clock < MaxClock
  /\ clock' = clock + 1
  /\ UNCHANGED <<tables, caller, attempt, request>>

\* A batch is committed, with any timestamp.
Ingest(t, volume) ==
  /\ SumFunction(total) + volume[1] <= MaxEvents
  /\ total' = [total EXCEPT ![t] = @ + volume[1]]
  /\ errors' = [errors EXCEPT ![t] = @ + volume[2]]
  /\ UNCHANGED <<clock, severity, status, alerted, caller, attempt, request>>

\* An incident opens, or absorbs anomalies and becomes more severe.
Worsen(i, s) ==
  /\ \/ status[i] = "UNKNOWN"
     \/ status[i] = "UNRESOLVED" /\ Weight(s) > Weight(severity[i])
  /\ severity' = [severity EXCEPT ![i] = s]
  /\ status' = [status EXCEPT ![i] = "UNRESOLVED"]
  /\ UNCHANGED <<clock, total, errors, alerted, caller, attempt, request>>

Alert(i) ==
  /\ status[i] # "UNKNOWN"
  /\ alerted' = alerted \cup {i}
  /\ UNCHANGED <<clock, total, errors, severity, status, caller, attempt, request>>

\* PATCH: resolve, or reopen.
Patch(i, wanted) ==
  /\ status[i] \in {"UNRESOLVED", "RESOLVED"} \ {wanted}
  /\ status' = [status EXCEPT ![i] = wanted]
  /\ UNCHANGED <<clock, total, errors, severity, alerted, caller, attempt, request>>

(***************************************************************************)
(* WatchdogClient._get.                                                    *)
(***************************************************************************)
Ask ==
  /\ caller = "idle"
  /\ caller' = "asking"
  /\ attempt' = 1
  /\ UNCHANGED <<clock, tables, request>>

\* Mutant: the attempts are not counted.
RetryForever ==
  /\ caller = "asking"
  /\ UNCHANGED vars

\* No answer in time, or no connection.
Retry ==
  /\ caller = "asking"
  /\ IF attempt = MaxRetries + 1
     THEN caller' = "timeout" /\ UNCHANGED attempt
     ELSE attempt' = attempt + 1 /\ UNCHANGED caller
  /\ request' = NoRequest
  /\ UNCHANGED <<clock, tables>>

Deliver ==
  /\ caller = "asking"
  /\ request.pc = "served"
  /\ caller' = "told"
  /\ UNCHANGED <<clock, tables, attempt, request>>

(***************************************************************************)
(* RiskScoreService.calculate.                                             *)
(***************************************************************************)
OnlyRequest == UNCHANGED <<clock, tables, caller, attempt>>

CountEvents ==
  LET from == clock - RiskWindow
  IN /\ caller = "asking" /\ request.pc = "none"
     /\ request' = [request EXCEPT !.pc = "errors", !.since = from,
                      !.counted = InWindow(total, from), !.rate = InWindow(errors, from)]
     /\ OnlyRequest

\* Mutant: each SELECT has a window of its own.
CountErrorsNow ==
  /\ request.pc = "errors"
  /\ request' = [request EXCEPT !.pc = "alerts",
                   !.erroneous = InWindow(errors, clock - RiskWindow)]
  /\ OnlyRequest

CountErrors ==
  /\ request.pc = "errors"
  /\ request' = [request EXCEPT !.pc = "alerts",
                   !.erroneous = InWindow(errors, request.since)]
  /\ OnlyRequest

CountAlerts ==
  /\ request.pc = "alerts"
  /\ request' = [request EXCEPT !.pc = "incidents", !.alarms = Cardinality(alerted)]
  /\ OnlyRequest

ListUnresolved ==
  /\ request.pc = "incidents"
  /\ request' = [request EXCEPT !.pc = "served",
                   !.answer = Answer(request.counted, request.erroneous, request.alarms,
                                     Unresolved)]
  /\ OnlyRequest

Next ==
  \/ Tick
  \/ \E t \in Instants, volume \in Volumes : Ingest(t, volume)
  \/ \E i \in Incidents : \/ \E s \in Severities : Worsen(i, s)
                         \/ Alert(i)
                         \/ \E wanted \in {"UNRESOLVED", "RESOLVED"} : Patch(i, wanted)
  \/ Ask \/ Retry \/ Deliver
  \/ CountEvents \/ CountErrors \/ CountAlerts \/ ListUnresolved

\* The SDK's exchanges have a timeout, so each of them ends.
Fairness == WF_vars(Retry \/ Deliver)

Spec == Init /\ [][Next]_vars
FairSpec == Spec /\ Fairness

(***************************************************************************)
(* Properties.                                                             *)
(***************************************************************************)
\* A score never understates the errors: whatever is ingested while it is computed,
\* the error penalty is at least what the table called for when the events were
\* counted, unless there were none.
ErrorsNotUnderstated ==
  request.pc = "served" /\ request.counted > 0
    => request.answer.share >= AtMost(40 * request.counted, 80 * request.rate)

\* A caller that asks for the score is told it or learns that it cannot be had.
AskingEnds == caller = "asking" ~> caller \in {"told", "timeout"}
=============================================================================
