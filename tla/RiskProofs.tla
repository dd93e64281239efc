------------------------------ MODULE RiskProofs -------------------------------
(* Theorems about RiskScore, for any volumes, windows and numbers of retries. *)
EXTENDS RiskScore, Counting

(***************************************************************************)
(* The score.                                                              *)
(***************************************************************************)
Counts == [Instants -> Nat]

Answers ==
  [score : Nat, share : Nat, alerts : Nat, incidents : Nat,
   status : {"Healthy", "Warning", "Critical"}]

Asked ==
  [pc : {"none", "errors", "alerts", "incidents", "served"}, since : Int, counted : Nat,
   erroneous : Nat, alarms : Nat, answer : Answers \cup {None}, rate : Nat]

\* Rows are only added, so what was counted cannot exceed what is there.
Behind(r, stored) == r.pc = "errors" => r.rate <= InWindow(stored, r.since)

CountedAll(r) == r.pc \in {"alerts", "incidents", "served"} => r.rate <= r.erroneous

Penalised(r) ==
  r.pc = "served" /\ r.counted > 0 => r.answer.share = ErrorShare(r.counted, r.erroneous)

Tables ==
  /\ clock \in Nat /\ total \in Counts /\ errors \in Counts
  /\ severity \in [Incidents -> Severities] /\ alerted \subseteq Incidents

RiskInv ==
  /\ Tables
  /\ request \in Asked
  /\ Behind(request, errors) /\ CountedAll(request) /\ Penalised(request)

\* Primes go through.
LEMMA InvAfter ==
  ASSUME Tables', request' \in Asked, Behind(request', errors'), CountedAll(request'),
         Penalised(request')
  PROVE  RiskInv'
  <1>1. InWindow(errors, request.since)' = InWindow(errors', request'.since)
    BY DEF InWindow
  <1>2. Behind(request, errors)'
    BY <1>1 DEF Behind
  <1>3. CountedAll(request)'
    BY DEF CountedAll
  <1>4. Penalised(request)'
    BY DEF Penalised, ErrorShare, AtMost
  <1> QED
    BY <1>2, <1>3, <1>4 DEF RiskInv

LEMMA WindowsGrow ==
  ASSUME NEW before \in Counts, NEW after \in Counts, NEW from \in Int,
         \A t \in Instants : before[t] <= after[t]
  PROVE  /\ InWindow(before, from) \in Nat /\ InWindow(after, from) \in Nat
         /\ InWindow(before, from) <= InWindow(after, from)
  <1> DEFINE S == {t \in Instants : t >= from}
  <1>1. IsFiniteSet(Instants)
    BY RiskAssumption, FS_Interval DEF Instants
  <1>2. IsFiniteSet(S)
    BY <1>1, FS_Subset
  <1>3. \A t \in S : before[t] \in Nat /\ after[t] \in Nat /\ before[t] <= after[t]
    BY DEF Counts
  <1> HIDE DEF S
  <1>4. /\ SumFunctionOnSet(before, S) \in Nat /\ SumFunctionOnSet(after, S) \in Nat
        /\ SumFunctionOnSet(before, S) <= SumFunctionOnSet(after, S)
    BY <1>2, <1>3, SumsGrow
  <1> QED
    BY <1>4 DEF InWindow, S

LEMMA WeightType == \A s \in Severities : Weight(s) \in Nat
  <1>1. /\ Weight("CRITICAL") = 20 /\ Weight("HIGH") = 12
        /\ Weight("MEDIUM") = 6 /\ Weight("LOW") = 2
    BY DEF Weight
  <1> QED
    BY <1>1 DEF Severities

LEMMA AnswerType ==
  ASSUME Tables, NEW n \in Nat, NEW e \in Nat, NEW alarms \in Nat, NEW I \in SUBSET Incidents
  PROVE  Answer(n, e, alarms, I) \in Answers
  <1> DEFINE weights == [i \in Incidents |-> Weight(severity[i])]
             sum == SumFunctionOnSet(weights, I)
  <1>1. sum \in Nat
    <2>1. IsFiniteSet(I)
      BY RiskAssumption, FS_Subset
    <2>2. \A i \in I : weights[i] \in Nat /\ weights[i] <= weights[i]
      BY WeightType DEF Tables
    <2> HIDE DEF weights
    <2> QED
      BY <2>1, <2>2, SumsGrow
  <1>2. IncidentPenalty(I) \in Nat
    <2>1. IncidentPenalty(I) = AtMost(50, sum)
      BY DEF IncidentPenalty
    <2> HIDE DEF sum
    <2> QED
      BY <1>1, <2>1 DEF AtMost
  <1>3. AlertPenalty(alarms) \in Nat /\ ErrorShare(n, e) \in Nat /\ Denominator(n) \in Nat
    BY DEF AlertPenalty, ErrorShare, AtMost, Denominator
  <1>4. \A d \in Nat, score \in Nat : Band(score, d) \in {"Healthy", "Warning", "Critical"}
    BY DEF Band
  <1> DEFINE d == Denominator(n)
             share == IF n = 0 THEN 0 ELSE ErrorShare(n, e)
             penalty == AlertPenalty(alarms) + IncidentPenalty(I)
             raw == 100 * d - share - penalty * d
             score == IF raw < 0 THEN 0 ELSE raw
  <1>5. Answer(n, e, alarms, I)
          = [score |-> score, share |-> share, alerts |-> AlertPenalty(alarms),
             incidents |-> IncidentPenalty(I), status |-> Band(score, d)]
    BY DEF Answer
  <1>6. share \in Nat /\ penalty \in Nat
    BY <1>2, <1>3
  <1>7. penalty * d \in Nat
    BY <1>3, <1>6
  <1>8. score \in Nat
    <2> HIDE DEF penalty, share, d
    <2>1. raw \in Int
      BY <1>3, <1>6, <1>7 DEF d
    <2> HIDE DEF raw
    <2> QED
      BY <2>1
  <1> HIDE DEF score, share, d
  <1> QED
    BY <1>2, <1>3, <1>4, <1>5, <1>6, <1>8 DEF Answers, d

LEMMA NothingAsked ==
  ASSUME NEW stored
  PROVE  /\ NoRequest \in Asked
         /\ Behind(NoRequest, stored) /\ CountedAll(NoRequest) /\ Penalised(NoRequest)
  BY DEF NoRequest, Asked, Behind, CountedAll, Penalised

LEMMA RiskInit == Init => RiskInv
  <1> SUFFICES ASSUME Init PROVE RiskInv
    OBVIOUS
  <1>1. Tables
    BY RiskAssumption DEF Init, Tables, Counts, Instants, Severities
  <1>2. request = NoRequest
    BY DEF Init
  <1> QED
    BY <1>1, <1>2, NothingAsked DEF RiskInv

\* What the steps of a request do to its record.
LEMMA ErrorsAreCounted ==
  ASSUME NEW r \in Asked, NEW q, NEW e \in Nat,
         q = [r EXCEPT !.pc = "alerts", !.erroneous = e]
  PROVE  q \in Asked /\ q.pc = "alerts" /\ q.erroneous = e /\ q.rate = r.rate
  BY DEF Asked

LEMMA AlertsAreCounted ==
  ASSUME NEW r \in Asked, NEW q, NEW n \in Nat,
         q = [r EXCEPT !.pc = "incidents", !.alarms = n]
  PROVE  q \in Asked /\ q.pc = "incidents" /\ q.erroneous = r.erroneous /\ q.rate = r.rate
  BY DEF Asked

LEMMA Answered ==
  ASSUME NEW r \in Asked, NEW q, NEW answer \in Answers,
         q = [r EXCEPT !.pc = "served", !.answer = answer]
  PROVE  /\ q \in Asked /\ q.pc = "served" /\ q.answer = answer
         /\ q.counted = r.counted /\ q.erroneous = r.erroneous /\ q.rate = r.rate
  BY DEF Asked

LEMMA RiskNext == RiskInv /\ [Next]_vars => RiskInv'
  <1> SUFFICES ASSUME RiskInv, [Next]_vars PROVE RiskInv'
    OBVIOUS
  <1>1. ASSUME Tables', UNCHANGED errors, request' \in {request, NoRequest}
        PROVE  RiskInv'
    BY <1>1, NothingAsked, InvAfter DEF RiskInv
  <1>2. ASSUME NEW t \in Instants, NEW volume \in Volumes, Ingest(t, volume) PROVE RiskInv'
    <2>1. volume[1] \in Nat /\ volume[2] \in Nat
      BY RiskAssumption
    <2>2. Tables' /\ errors' \in Counts /\ \A u \in Instants : errors[u] <= errors'[u]
      BY <1>2, <2>1 DEF Ingest, RiskInv, Tables, Counts
    <2>3. errors \in Counts /\ request.since \in Int /\ request.rate \in Nat
      BY DEF RiskInv, Asked, Tables
    <2>4. InWindow(errors, request.since) <= InWindow(errors', request.since)
          /\ InWindow(errors, request.since) \in Nat /\ InWindow(errors', request.since) \in Nat
      BY <2>2, <2>3, WindowsGrow
    <2>5. request' = request
      BY <1>2 DEF Ingest
    <2>6. Behind(request, errors')
      BY <2>3, <2>4 DEF RiskInv, Behind
    <2> QED
      BY <2>2, <2>5, <2>6, InvAfter DEF RiskInv
  <1>3. ASSUME OnlyRequest PROVE Tables' /\ errors' = errors
    BY <1>3 DEF OnlyRequest, tables, RiskInv, Tables
  <1>4. ASSUME NEW from \in Int PROVE InWindow(total, from) \in Nat /\ InWindow(errors, from) \in Nat
    <2>1. /\ total \in Counts /\ errors \in Counts
          /\ \A t \in Instants : total[t] <= total[t] /\ errors[t] <= errors[t]
      BY DEF RiskInv, Tables, Counts
    <2> QED
      BY <2>1, WindowsGrow
  <1>5. CASE CountEvents
    <2> DEFINE from == clock - RiskWindow
               n == InWindow(total, from)
               e == InWindow(errors, from)
    <2>1. from \in Int
      BY RiskAssumption DEF RiskInv, Tables
    <2>2. n \in Nat /\ e \in Nat
      BY <2>1, <1>4
    <2>3. request \in Asked /\ OnlyRequest
      BY <1>5 DEF CountEvents, RiskInv
    <2>4. request' = [request EXCEPT !.pc = "errors", !.since = from, !.counted = n, !.rate = e]
      BY <1>5 DEF CountEvents
    <2> HIDE DEF from, n, e
    <2>5. request' \in Asked /\ request'.pc = "errors" /\ request'.since = from
          /\ request'.rate = e
      BY <2>1, <2>2, <2>3, <2>4, ZenonT(60) DEF Asked
    <2>6. InWindow(errors, request'.since) = e
      BY <2>5 DEF e
    <2>7. Behind(request', errors) /\ CountedAll(request') /\ Penalised(request')
      BY <2>2, <2>5, <2>6 DEF Behind, CountedAll, Penalised
    <2> QED
      BY <1>3, <2>3, <2>5, <2>7, InvAfter
  <1>6. CASE CountErrors
    <2> DEFINE e == InWindow(errors, request.since)
    <2>1. e \in Nat
      <3>1. request.since \in Int
        BY DEF RiskInv, Asked
      <3> QED
        BY <3>1, <1>4
    <2>2. OnlyRequest /\ request' = [request EXCEPT !.pc = "alerts", !.erroneous = e]
      BY <1>6 DEF CountErrors
    <2>3. request.rate <= e
      BY <1>6 DEF CountErrors, RiskInv, Behind
    <2> HIDE DEF e
    <2>4. request' \in Asked /\ request'.pc = "alerts" /\ request'.erroneous = e
          /\ request'.rate = request.rate
      BY <2>1, <2>2, ErrorsAreCounted DEF RiskInv
    <2>5. Behind(request', errors) /\ CountedAll(request') /\ Penalised(request')
      BY <2>3, <2>4 DEF Behind, CountedAll, Penalised
    <2> QED
      BY <1>3, <2>2, <2>4, <2>5, InvAfter
  <1>7. CASE CountAlerts
    <2> DEFINE n == Cardinality(alerted)
    <2>1. n \in Nat
      BY RiskAssumption, FS_Subset, FS_CardinalityType DEF RiskInv, Tables
    <2>2. OnlyRequest /\ request' = [request EXCEPT !.pc = "incidents", !.alarms = n]
      BY <1>7 DEF CountAlerts
    <2>3. request.rate <= request.erroneous
      BY <1>7 DEF CountAlerts, RiskInv, CountedAll
    <2> HIDE DEF n
    <2>4. request' \in Asked /\ request'.pc = "incidents"
          /\ request'.erroneous = request.erroneous /\ request'.rate = request.rate
      BY <2>1, <2>2, AlertsAreCounted DEF RiskInv
    <2>5. Behind(request', errors) /\ CountedAll(request') /\ Penalised(request')
      BY <2>3, <2>4 DEF Behind, CountedAll, Penalised
    <2> QED
      BY <1>3, <2>2, <2>4, <2>5, InvAfter
  <1>8. CASE ListUnresolved
    <2> DEFINE answer == Answer(request.counted, request.erroneous, request.alarms, Unresolved)
    <2>1. answer \in Answers
      <3>1. Unresolved \in SUBSET Incidents /\ Tables
        BY DEF Unresolved, RiskInv
      <3>2. request.counted \in Nat /\ request.erroneous \in Nat /\ request.alarms \in Nat
        BY DEF RiskInv, Asked
      <3> QED
        BY <3>1, <3>2, AnswerType
    <2>2. request.counted > 0 => answer.share = ErrorShare(request.counted, request.erroneous)
      BY DEF Answer, RiskInv, Asked
    <2>3. OnlyRequest /\ request' = [request EXCEPT !.pc = "served", !.answer = answer]
      BY <1>8 DEF ListUnresolved
    <2>4. request.rate <= request.erroneous
      BY <1>8 DEF ListUnresolved, RiskInv, CountedAll
    <2> HIDE DEF answer
    <2>5. /\ request' \in Asked /\ request'.pc = "served" /\ request'.answer = answer
          /\ request'.counted = request.counted /\ request'.erroneous = request.erroneous
          /\ request'.rate = request.rate
      BY <2>1, <2>3, Answered DEF RiskInv
    <2>6. Behind(request', errors) /\ CountedAll(request') /\ Penalised(request')
      BY <2>2, <2>4, <2>5 DEF Behind, CountedAll, Penalised
    <2> QED
      BY <1>3, <2>3, <2>5, <2>6, InvAfter
  <1>9. CASE Tick \/ Ask \/ Retry \/ Deliver \/ UNCHANGED vars
    <2>1. UNCHANGED <<total, errors, severity, alerted>> /\ request' \in {request, NoRequest}
          /\ clock' \in {clock, clock + 1}
      BY <1>9 DEF Tick, Ask, Retry, Deliver, vars, tables
    <2> QED
      BY <1>1, <2>1 DEF RiskInv, Tables
  <1>10. ASSUME NEW i \in Incidents,
                \/ \E s \in Severities : Worsen(i, s)
                \/ Alert(i)
                \/ \E wanted \in {"UNRESOLVED", "RESOLVED"} : Patch(i, wanted)
         PROVE  RiskInv'
    <2>1. /\ UNCHANGED <<clock, total, errors, request>>
          /\ alerted' \subseteq alerted \cup {i}
          /\ severity' = severity \/ \E s \in Severities : severity' = [severity EXCEPT ![i] = s]
      BY <1>10 DEF Worsen, Alert, Patch
    <2> QED
      BY <1>1, <2>1 DEF RiskInv, Tables
  <1> QED
    BY <1>2, <1>5, <1>6, <1>7, <1>8, <1>9, <1>10 DEF Next

\* A request keeps its types, and what it has counted so far is no less than what the
\* table called for when it began.
THEOREM Penalties == Spec => []RiskInv
  BY RiskInit, RiskNext, PTL DEF Spec

\* A score never understates the errors that were there when the events were counted,
\* whatever is ingested between the SELECTs.
THEOREM ErrorsCounted == Spec => []ErrorsNotUnderstated
  <1>1. RiskInv => ErrorsNotUnderstated
    <2> SUFFICES ASSUME RiskInv, request.pc = "served", request.counted > 0
                 PROVE  request.answer.share >= AtMost(40 * request.counted, 80 * request.rate)
      BY DEF ErrorsNotUnderstated
    <2>1. request \in Asked
      BY DEF RiskInv
    <2>2. request.answer.share = ErrorShare(request.counted, request.erroneous)
      BY DEF RiskInv, Penalised
    <2>3. request.rate <= request.erroneous /\ request.rate \in Nat
          /\ request.erroneous \in Nat /\ request.counted \in Nat
      BY <2>1 DEF RiskInv, CountedAll, Asked
    <2> QED
      BY <2>2, <2>3 DEF ErrorShare, AtMost
  <1> QED
    BY <1>1, Penalties, PTL

(***************************************************************************)
(* What the score says: more trouble never raises it.                      *)
(***************************************************************************)
LEMMA OneMoreIncident ==
  ASSUME Tables, NEW I \in SUBSET Incidents, NEW i \in I
  PROVE  /\ IncidentPenalty(I) \in Nat /\ IncidentPenalty(I \ {i}) \in Nat
         /\ IncidentPenalty(I \ {i}) <= IncidentPenalty(I)
  <1> DEFINE weights == [j \in Incidents |-> Weight(severity[j])]
             sum(J) == SumFunctionOnSet(weights, J)
  <1>1. \A j \in Incidents : weights[j] \in Nat
    BY WeightType DEF Tables
  <1> HIDE DEF weights
  <1>2. IsFiniteSet(I) /\ IsFiniteSet(I \ {i})
    BY RiskAssumption, FS_Subset
  <1>3. sum(I) = weights[i] + sum(I \ {i})
    BY <1>1, <1>2, SumSplits
  <1>4. sum(I \ {i}) \in Nat
    <2>1. \A j \in I \ {i} : weights[j] \in Nat /\ weights[j] <= weights[j]
      BY <1>1
    <2> QED
      BY <1>2, <2>1, SumsGrow
  <1>5. IncidentPenalty(I) = AtMost(50, sum(I)) /\ IncidentPenalty(I \ {i}) = AtMost(50, sum(I \ {i}))
    BY DEF IncidentPenalty, weights
  <1>6. weights[i] \in Nat
    BY <1>1
  <1> HIDE DEF sum
  <1> QED
    BY <1>3, <1>4, <1>5, <1>6 DEF AtMost

\* Two scores over the same number of events: with no fewer errors and alerted incidents
\* and one more unresolved incident, the score is no higher, and it is from 0 to 100.
THEOREM TroubleNeverRaisesScore ==
  ASSUME Tables, NEW n \in Nat, NEW I \in SUBSET Incidents, NEW i \in I,
         NEW few \in Nat, NEW many \in Nat, few <= many,
         NEW quiet \in Nat, NEW loud \in Nat, quiet <= loud
  PROVE  /\ Answer(n, many, loud, I).score <= Answer(n, few, quiet, I \ {i}).score
         /\ Answer(n, many, loud, I).score \in 0..(100 * Denominator(n))
  <1> DEFINE d == Denominator(n)
             share(e) == IF n = 0 THEN 0 ELSE ErrorShare(n, e)
             penalty(a, J) == AlertPenalty(a) + IncidentPenalty(J)
             raw(e, a, J) == 100 * d - share(e) - penalty(a, J) * d
             score(x) == IF x < 0 THEN 0 ELSE x
  <1>1. d \in Nat
    BY DEF Denominator
  <1>2. share(few) \in Nat /\ share(many) \in Nat /\ share(few) <= share(many)
    BY DEF ErrorShare, AtMost
  <1>3. /\ penalty(quiet, I \ {i}) \in Nat /\ penalty(loud, I) \in Nat
        /\ penalty(quiet, I \ {i}) <= penalty(loud, I)
    BY OneMoreIncident DEF AlertPenalty, AtMost
  <1>4. /\ Answer(n, many, loud, I).score = score(raw(many, loud, I))
        /\ Answer(n, few, quiet, I \ {i}).score = score(raw(few, quiet, I \ {i}))
    BY DEF Answer
  <1> HIDE DEF d, share, penalty
  <1>5. /\ penalty(loud, I) * d \in Nat /\ penalty(quiet, I \ {i}) * d \in Nat
        /\ penalty(quiet, I \ {i}) * d <= penalty(loud, I) * d
    <2>1. \A p, q \in Nat : p <= q => p * d \in Nat /\ q * d \in Nat /\ (q - p) * d \in Nat
      BY <1>1
    <2>2. \A p, q \in Nat : p <= q => (q - p) * d = q * d - p * d
      BY <1>1
    <2>3. \A p, q \in Nat : p <= q => p * d <= q * d
      <3> SUFFICES ASSUME NEW p \in Nat, NEW q \in Nat, p <= q PROVE p * d <= q * d
        OBVIOUS
      <3>1. p * d \in Nat /\ q * d \in Nat /\ q * d - p * d \in Nat
        BY <2>1, <2>2
      <3> QED
        BY <3>1
    <2> QED
      BY <1>1, <1>3, <2>1, <2>3
  <1>6. raw(many, loud, I) <= raw(few, quiet, I \ {i}) /\ raw(many, loud, I) <= 100 * d
    BY <1>1, <1>2, <1>5
  <1>7. raw(many, loud, I) \in Int /\ raw(few, quiet, I \ {i}) \in Int /\ 100 * d \in Nat
    BY <1>1, <1>2, <1>5
  <1> HIDE DEF raw
  <1>8. /\ score(raw(many, loud, I)) <= score(raw(few, quiet, I \ {i}))
        /\ score(raw(many, loud, I)) \in 0..(100 * d)
    BY <1>6, <1>7
  <1> QED
    BY <1>4, <1>8 DEF d

(***************************************************************************)
(* The SDK's attempts run out: each exchange that ends lowers what is left *)
(* of them, and nothing but the caller's next question raises it.          *)
(***************************************************************************)
TriesLeft == IF caller = "asking" THEN MaxRetries + 2 - attempt ELSE 0

Trying ==
  /\ caller \in {"idle", "asking", "told", "timeout"} /\ attempt \in Nat
  /\ caller = "asking" => attempt \in 1..(MaxRetries + 1)

\* An attempt is left exactly while the caller is asking, and never more than retries and one.
TriesCounted ==
  TriesLeft \in 0..(MaxRetries + 1) /\ (TriesLeft = 0 <=> caller # "asking")

\* Retry and Deliver bring the end of the call nearer, and only they and Ask touch it.
TriesRunOut ==
  [][/\ Retry \/ Deliver => TriesLeft' < TriesLeft
     /\ TriesLeft' # TriesLeft => Ask \/ Retry \/ Deliver]_vars

\* A caller makes at most MaxRetries + 1 exchanges, whatever is lost and whatever the
\* server does meanwhile.
THEOREM TriesAreBounded == Spec => []TriesCounted /\ TriesRunOut
  <1> USE RiskAssumption
  <1>1. Init => Trying
    BY DEF Init, Trying
  <1>2. Trying /\ [Next]_vars => Trying'
    BY DEF Trying, Next, vars, Tick, Ingest, Worsen, Alert, Patch, Ask, Retry, Deliver,
           CountEvents, CountErrors, CountAlerts, ListUnresolved, OnlyRequest
  <1>3. Trying => TriesCounted
    BY DEF Trying, TriesCounted, TriesLeft
  <1>4. Trying /\ [Next]_vars =>
          [/\ Retry \/ Deliver => TriesLeft' < TriesLeft
           /\ TriesLeft' # TriesLeft => Ask \/ Retry \/ Deliver]_vars
    <2>1. Trying /\ (Retry \/ Deliver) => TriesLeft' < TriesLeft
      BY DEF Trying, TriesLeft, Retry, Deliver
    <2>2. Next /\ ~(Ask \/ Retry \/ Deliver) => TriesLeft' = TriesLeft
      BY DEF Next, TriesLeft, Tick, Ingest, Worsen, Alert, Patch,
             CountEvents, CountErrors, CountAlerts, ListUnresolved, OnlyRequest
    <2> QED
      BY <2>1, <2>2
  <1> QED
    BY <1>1, <1>2, <1>3, <1>4, PTL DEF Spec, TriesRunOut
=============================================================================
