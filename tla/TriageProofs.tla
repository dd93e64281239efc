----------------------------- MODULE TriageProofs -----------------------------
(* Theorems about Triage, for any number of triages, agents and retries. *)
EXTENDS Triage, TLAPS

(***************************************************************************)
(* The inductive invariant.                                                *)
(***************************************************************************)
\* Audited(i, a, t, source): triage t accounts for what agent a said of i.
Audited(i, a, t, source) ==
  \E e \in rows \cap blocks :
    e.incident = i /\ e.agent = a /\ e.triage = t /\ Source(e.status) = source

\* Where a triage is: it has its incident, and an agent to run until it saves.
Place ==
  \A t \in Triages :
    /\ pc[t] = "new" => agent[t] = 1 /\ attempt[t] = 0
    /\ Running(t) => incident[t] \in Incidents
    /\ pc[t] \in {"call", "record", "append"} => agent[t] \in Agents
    /\ pc[t] = "save" => agent[t] = AgentCount + 1
    /\ pc[t] \in {"record", "append"} => outcome[t] # None
    /\ pc[t] = "append" => Row(t) \in rows

\* What the agents that have run said is on record.
Findings ==
  \A t \in Triages : Running(t) =>
    \A a \in Agents : a < agent[t] =>
      found[t][a] # None /\ Audited(incident[t], a, t, found[t][a])

\* A triage has rows for the agents that have run, and for the one whose block
\* it is appending or failed to append.
RowsBehind ==
  \A e \in rows :
    \/ e.agent < agent[e.triage]
    \/ e.agent = agent[e.triage] /\ pc[e.triage] \in {"append", "raised"}

Attempts ==
  \A t \in Triages :
    /\ pc[t] = "call" => attempt[t] <= MaxRetries
    /\ pc[t] = "record" =>
         /\ attempt[t] <= MaxRetries + 1
         /\ outcome[t] \notin {"ok", "LLMAuthError"} => attempt[t] = MaxRetries + 1

TriageInv ==
  /\ TypeOK /\ Place /\ Findings /\ RowsBehind /\ Attempts
  /\ VerdictIsAudited /\ VerdictFromOneTriage /\ AuditTrail /\ FallbackOnlyWhenExhausted

USE DEF Agents

LEMMA TranslateType == \A answer : Translate(answer) \in Failures \ {"LLMAuthError"}
  BY DEF Translate, Failures

LEMMA SourceType == \A status : Source(status) \in {"llm", "fallback"}
  BY DEF Source

\* A triage has no row yet for the agent it is running.
LEMMA NoRowYet ==
  ASSUME TypeOK, RowsBehind, NEW t \in Triages, pc[t] \notin {"append", "raised"}
  PROVE  \A e \in rows : e.triage = t => e.agent \in Agents /\ e.agent < agent[t]
  <1> SUFFICES ASSUME NEW e \in rows, e.triage = t
               PROVE  e.agent \in Agents /\ e.agent < agent[t]
    OBVIOUS
  <1>1. e.agent \in Agents
    BY DEF TypeOK, Evaluation
  <1> QED
    BY <1>1 DEF RowsBehind

LEMMA InvInit == Init => TriageInv
  BY CountAssumption, NoneAssumption
     DEF Init, TriageInv, TypeOK, Place, Findings, RowsBehind, Attempts, Running,
         VerdictIsAudited, VerdictFromOneTriage, AuditTrail, FallbackOnlyWhenExhausted

\* A step that leaves the verdicts and the audit alone keeps what they say.
LEMMA RecordsKept ==
  ASSUME TriageInv, UNCHANGED <<verdict, rows, blocks>>
  PROVE  /\ VerdictIsAudited' /\ VerdictFromOneTriage' /\ FallbackOnlyWhenExhausted'
         /\ \A i, a, t, source : Audited(i, a, t, source) => Audited(i, a, t, source)'
  BY DEF TriageInv, VerdictIsAudited, VerdictFromOneTriage, FallbackOnlyWhenExhausted, Audited

(***************************************************************************)
(* Every action keeps the invariant.                                       *)
(***************************************************************************)
LEMMA InvBegin ==
  ASSUME TriageInv, NEW t \in Triages, NEW i \in Incidents, Begin(t, i)
  PROVE  TriageInv'
  <1>0. \A e \in rows : e.triage = t => e.agent \in Agents /\ e.agent < agent[t]
    BY NoRowYet DEF TriageInv, Begin
  <1> USE DEF TriageInv, TypeOK, Begin
  <1>1. TypeOK'
    OBVIOUS
  <1>2. agent[t] = 1 /\ attempt[t] = 0 /\ 1 \in Agents
    BY CountAssumption DEF Place
  <1>3. \A e \in rows : e.triage # t
    <2> SUFFICES ASSUME NEW e \in rows, e.triage = t PROVE FALSE
      OBVIOUS
    <2>1. e.agent \in 1..AgentCount /\ e.agent < 1
      BY <1>0, <1>2
    <2> QED
      BY <2>1, CountAssumption
  <1>4. Place'
    BY <1>2 DEF Place, Running, Row
  <1>5. Findings'
    BY <1>2, RecordsKept, CountAssumption DEF Findings, Running
  <1>6. RowsBehind' /\ Attempts' /\ AuditTrail'
    BY <1>2, <1>3, CountAssumption DEF RowsBehind, Attempts, AuditTrail, Evaluation
  <1> QED
    BY <1>1, <1>4, <1>5, <1>6, RecordsKept

LEMMA InvFinalAnswer ==
  ASSUME TriageInv, NEW t \in Triages, NEW status \in {"ok", "LLMAuthError"},
         FinalAnswer(t, status)
  PROVE  TriageInv'
  <1> USE DEF TriageInv, TypeOK, FinalAnswer
  <1>1. TypeOK'
    BY DEF Failures
  <1>2. Place'
    <2>1. \A q \in Triages \ {t} : Row(q)' = Row(q)
      BY DEF Row
    <2> QED
      BY <2>1, NoneAssumption DEF Place, Running, Failures
  <1>3. Findings'
    BY RecordsKept DEF Findings, Running
  <1>4. Attempts'
    BY CountAssumption DEF Attempts
  <1>5. RowsBehind' /\ AuditTrail'
    BY DEF RowsBehind, AuditTrail, Evaluation
  <1> QED
    BY <1>1, <1>2, <1>3, <1>4, <1>5, RecordsKept

LEMMA InvFailedAttempt ==
  ASSUME TriageInv, NEW t \in Triages, NEW answer, FailedAttempt(t, answer)
  PROVE  TriageInv'
  <1> USE DEF TriageInv, TypeOK, FailedAttempt
  <1>1. TypeOK'
    BY TranslateType
  <1>2. Place'
    <2>1. \A q \in Triages \ {t} : Row(q)' = Row(q)
      BY DEF Row
    <2> QED
      BY <2>1, TranslateType, NoneAssumption DEF Place, Running
  <1>3. Findings'
    BY RecordsKept DEF Findings, Running
  <1>4. Attempts'
    BY CountAssumption DEF Attempts, Exhausted
  <1>5. RowsBehind' /\ AuditTrail'
    BY DEF RowsBehind, AuditTrail, Evaluation
  <1> QED
    BY <1>1, <1>2, <1>3, <1>4, <1>5, RecordsKept

LEMMA InvRecord ==
  ASSUME TriageInv, NEW t \in Triages, Record(t)
  PROVE  TriageInv'
  <1>0. \A e \in rows : e.triage = t => e.agent \in Agents /\ e.agent < agent[t]
    BY NoRowYet DEF TriageInv, Record
  <1> USE DEF TriageInv, TypeOK, Record
  <1>1. Row(t) \in Evaluation
    BY DEF Place, Running, Row, Evaluation
  <1>2. /\ Row(t).triage = t /\ Row(t).agent = agent[t] /\ Row(t).status = outcome[t]
        /\ Row(t).attempts = attempt[t]
    BY DEF Row
  <1>3. TypeOK'
    BY <1>1
  <1>4. \A q \in Triages : Row(q)' = Row(q)
    BY DEF Row
  <1>5. Place'
    BY <1>4 DEF Place, Running
  <1>6. \A i, a, q, source : Audited(i, a, q, source) => Audited(i, a, q, source)'
    BY DEF Audited
  <1>7. Findings'
    BY <1>6 DEF Findings, Running
  <1>8. RowsBehind'
    BY <1>2 DEF RowsBehind, Evaluation
  <1>9. AuditTrail'
    <2>1. \A e \in rows : ~(e.triage = t /\ e.agent = agent[t])
      BY <1>0, CountAssumption
    <2> QED
      BY <1>2, <2>1 DEF AuditTrail, Evaluation
  <1>10. Attempts' /\ FallbackOnlyWhenExhausted'
    BY <1>2 DEF Attempts, FallbackOnlyWhenExhausted
  <1>11. VerdictIsAudited' /\ VerdictFromOneTriage'
    BY DEF VerdictIsAudited, VerdictFromOneTriage
  <1> QED
    BY <1>3, <1>5, <1>7, <1>8, <1>9, <1>10, <1>11

LEMMA InvAppendMarkdown ==
  ASSUME TriageInv, NEW t \in Triages, AppendMarkdown(t)
  PROVE  TriageInv'
  <1> USE DEF TriageInv, TypeOK, AppendMarkdown, NextAgent
  <1>1. /\ Row(t).triage = t /\ Row(t).agent = agent[t] /\ Row(t).status = outcome[t]
        /\ Row(t).incident = incident[t]
    BY DEF Row
  <1>2. Row(t) \in rows /\ agent[t] \in Agents
    BY DEF Place
  <1>3. TypeOK'
    <2>1. found' \in [Triages -> [Agents -> {"llm", "fallback", None}]]
      BY <1>2, SourceType
    <2>2. agent' \in [Triages -> 1..(AgentCount + 1)]
      BY <1>2, CountAssumption
    <2> QED
      BY <1>2, <2>1, <2>2
  <1>4. \A q \in Triages \ {t} : Row(q)' = Row(q)
    BY DEF Row
  <1>5. Place'
    <2>1. agent[t] # AgentCount => agent'[t] \in Agents
      BY <1>2, CountAssumption
    <2> QED
      BY <1>2, <1>4, <2>1 DEF Place, Running
  <1>6. \A i, a, q, source : Audited(i, a, q, source) => Audited(i, a, q, source)'
    BY DEF Audited
  <1>7. \A i, a, source : i = incident[t] /\ a = agent[t] /\ source = Source(outcome[t])
                            => Audited(i, a, t, source)'
    BY <1>1, <1>2 DEF Audited
  <1>8. Findings'
    <2> SUFFICES ASSUME NEW q \in Triages, Running(q)', NEW a \in Agents, a < agent'[q]
                 PROVE  found'[q][a] # None /\ Audited(incident[q], a, q, found[q][a])'
      BY DEF Findings
    <2>1. Running(q)
      BY DEF Running
    <2>2. CASE q = t /\ a = agent[t]
      BY <1>2, <1>7, <2>2, SourceType, NoneAssumption
    <2>3. CASE ~(q = t /\ a = agent[t])
      <3>1. a < agent[q] /\ found'[q][a] = found[q][a]
        BY <1>2, <2>3
      <3> QED
        BY <1>6, <2>1, <3>1 DEF Findings
    <2> QED
      BY <2>2, <2>3
  <1>9. RowsBehind'
    BY <1>2 DEF RowsBehind, Evaluation
  <1>10. AuditTrail'
    BY <1>1, <1>2 DEF AuditTrail, Evaluation
  <1>11. Attempts' /\ FallbackOnlyWhenExhausted'
    BY CountAssumption DEF Attempts, FallbackOnlyWhenExhausted
  <1>12. VerdictIsAudited' /\ VerdictFromOneTriage'
    BY DEF VerdictIsAudited, VerdictFromOneTriage
  <1> QED
    BY <1>3, <1>5, <1>8, <1>9, <1>10, <1>11, <1>12

LEMMA InvSave ==
  ASSUME TriageInv, NEW t \in Triages, Save(t)
  PROVE  TriageInv'
  <1> USE DEF TriageInv, TypeOK, Save
  <1>1. incident[t] \in Incidents /\ Running(t) /\ agent[t] = AgentCount + 1
    BY DEF Place, Running
  <1>2. \A a \in Agents :
          found[t][a] \in {"llm", "fallback"} /\ Audited(incident[t], a, t, found[t][a])
    BY <1>1, CountAssumption DEF Findings
  <1>3. TypeOK'
    <2>1. [a \in Agents |-> [by |-> t, source |-> found[t][a]]] \in [Agents -> Decision \cup {None}]
      BY <1>2 DEF Decision
    <2> QED
      BY <1>1, <2>1
  <1>4. Place'
    BY DEF Place, Running, Row
  <1>5. \A i, a, q, source : Audited(i, a, q, source) => Audited(i, a, q, source)'
    BY DEF Audited
  <1>6. Findings'
    BY <1>5 DEF Findings, Running
  <1>7. RowsBehind' /\ Attempts' /\ FallbackOnlyWhenExhausted'
    BY DEF RowsBehind, Attempts, FallbackOnlyWhenExhausted, Evaluation
  <1>8. AuditTrail'
    BY DEF AuditTrail, Evaluation
  <1>9. \A i \in Incidents, a \in Agents :
          verdict'[i][a] = IF i = incident[t] THEN [by |-> t, source |-> found[t][a]]
                           ELSE verdict[i][a]
    BY <1>1
  <1>10. VerdictIsAudited'
    <2> SUFFICES ASSUME NEW i \in Incidents, NEW a \in Agents, verdict'[i][a] # None
                 PROVE  Audited(i, a, verdict[i][a].by, verdict[i][a].source)'
      BY DEF VerdictIsAudited, Audited
    <2>1. CASE i = incident[t]
      BY <1>2, <1>5, <1>9, <2>1
    <2>2. CASE i # incident[t]
      BY <1>5, <1>9, <2>2 DEF VerdictIsAudited, Audited
    <2> QED
      BY <2>1, <2>2
  <1>11. VerdictFromOneTriage'
    <2> SUFFICES ASSUME NEW i \in Incidents, NEW a \in Agents, NEW b \in Agents
                 PROVE  /\ verdict'[i][a] = None <=> verdict'[i][b] = None
                        /\ verdict'[i][a] # None => verdict'[i][a].by = verdict'[i][b].by
      BY DEF VerdictFromOneTriage
    <2>1. CASE i = incident[t]
      <3>1. verdict'[i][a] # None /\ verdict'[i][b] # None
        BY <1>2, <1>9, <2>1, NoneAssumption DEF Decision
      <3> QED
        BY <1>9, <2>1, <3>1
    <2>2. CASE i # incident[t]
      BY <1>9, <2>2 DEF VerdictFromOneTriage
    <2> QED
      BY <2>1, <2>2
  <1> QED
    BY <1>3, <1>4, <1>6, <1>7, <1>8, <1>10, <1>11

LEMMA InvRaise ==
  ASSUME TriageInv, NEW t \in Triages, Running(t), Raise(t)
  PROVE  TriageInv'
  <1> USE DEF TriageInv, TypeOK, Raise, Running
  <1>1. TypeOK'
    OBVIOUS
  <1>2. Place'
    BY DEF Place, Row
  <1>3. Findings'
    BY RecordsKept DEF Findings
  <1>4. RowsBehind' /\ AuditTrail'
    BY DEF RowsBehind, AuditTrail, Evaluation
  <1>5. Attempts'
    BY DEF Attempts
  <1> QED
    BY <1>1, <1>2, <1>3, <1>4, <1>5, RecordsKept

LEMMA InvStutter == TriageInv /\ UNCHANGED vars => TriageInv'
  BY DEF TriageInv, vars, locals, TypeOK, Place, Findings, RowsBehind, Attempts, Running, Row,
         Audited, VerdictIsAudited, VerdictFromOneTriage, AuditTrail, FallbackOnlyWhenExhausted

LEMMA InvNext == TriageInv /\ [Next]_vars => TriageInv'
  <1> SUFFICES ASSUME TriageInv, [Next]_vars PROVE TriageInv'
    OBVIOUS
  <1>1. ASSUME NEW t \in Triages, Step(t) PROVE TriageInv'
    BY <1>1, InvFinalAnswer, InvFailedAttempt, InvRecord, InvAppendMarkdown, InvSave, InvRaise
       DEF Step, TransportError, DatabaseError, LogUnwritable, Running
  <1>2. CASE UNCHANGED vars
    BY <1>2, InvStutter
  <1> QED
    BY <1>1, <1>2, InvBegin DEF Next, Quiescent

\* Every variable keeps its type, and what each triage has found is on record.
THEOREM TriageInvariant == Spec => []TriageInv
  BY InvInit, InvNext, PTL DEF Spec

\* Every variable keeps its type.
THEOREM TypeCorrect == Spec => []TypeOK
  BY TriageInvariant, PTL DEF TriageInv

\* Every part of a verdict has the row and the block of the agent that decided it.
THEOREM VerdictsAudited == Spec => []VerdictIsAudited
  BY TriageInvariant, PTL DEF TriageInv

\* The columns of a verdict come from one triage, however many overlap.
THEOREM VerdictsWhole == Spec => []VerdictFromOneTriage
  BY TriageInvariant, PTL DEF TriageInv

\* Rows and blocks agree, but for a block that is, or could not be, written.
THEOREM AuditTrailKept == Spec => []AuditTrail
  BY TriageInvariant, PTL DEF TriageInv

\* The client uses up its attempts before an agent falls back, and no more.
THEOREM AttemptsUsedUp == Spec => []FallbackOnlyWhenExhausted
  BY TriageInvariant, PTL DEF TriageInv

(***************************************************************************)
(* A triage takes a bounded number of steps: what is left is a natural     *)
(* number that each of its steps lowers and no other triage changes.       *)
(***************************************************************************)
\* An agent costs every attempt of its call, its row and its block; Save is the last step.
StepsPerAgent == MaxRetries + 3

StepsOfCall(t) == IF pc[t] = "call" THEN StepsPerAgent - attempt[t]
                  ELSE IF pc[t] = "record" THEN 2
                  ELSE 1

StepsLeft(t) ==
  IF ~Running(t) THEN 0
  ELSE IF pc[t] = "save" THEN 1
  ELSE StepsPerAgent * (AgentCount - agent[t]) + StepsOfCall(t) + 1

\* Nothing is left exactly when the triage has ended or has not begun.
StepsCounted ==
  \A t \in Triages : StepsLeft(t) \in Nat /\ (StepsLeft(t) = 0 <=> ~Running(t))

\* Each step of a triage lowers what it has left, and only that and its beginning change it.
StepsRunOut ==
  [][\A t \in Triages :
       /\ Step(t) => StepsLeft(t)' < StepsLeft(t)
       /\ \A i \in Incidents : Begin(t, i) =>
            StepsLeft(t)' = StepsPerAgent * AgentCount + 1
       /\ StepsLeft(t)' # StepsLeft(t) => Step(t) \/ \E i \in Incidents : Begin(t, i)]_vars

LEMMA AgentsAhead ==
  ASSUME NEW k \in Nat, NEW a \in Agents
  PROVE  /\ k * (AgentCount - a) \in Nat
         /\ a # AgentCount =>
              /\ a + 1 \in Agents
              /\ k * (AgentCount - (a + 1)) = k * (AgentCount - a) - k
  <1>1. AgentCount \in Nat /\ AgentCount - a \in Nat
    BY CountAssumption
  <1>2. \A n \in Nat : k * n \in Nat
    OBVIOUS
  <1>3. ASSUME a # AgentCount
        PROVE  a + 1 \in Agents /\ AgentCount - (a + 1) = (AgentCount - a) - 1
    BY <1>3, CountAssumption
  <1>4. \A n \in Nat : k * (n - 1) = k * n - k
    OBVIOUS
  <1> QED
    BY <1>1, <1>2, <1>3, <1>4

LEMMA CallIsCounted ==
  ASSUME TriageInv, NEW t \in Triages, pc[t] \in {"call", "record", "append"}
  PROVE  /\ agent[t] \in Agents /\ attempt[t] \in Nat /\ StepsPerAgent \in Nat
         /\ StepsPerAgent * (AgentCount - agent[t]) \in Nat
         /\ StepsOfCall(t) \in Nat /\ StepsOfCall(t) > 0
         /\ pc[t] = "call" => attempt[t] <= MaxRetries /\ StepsOfCall(t) > 2
         /\ StepsLeft(t) = StepsPerAgent * (AgentCount - agent[t]) + StepsOfCall(t) + 1
  <1>1. agent[t] \in Agents /\ attempt[t] \in Nat
    BY DEF TriageInv, TypeOK, Place
  <1>2. StepsPerAgent \in Nat
    BY CountAssumption DEF StepsPerAgent
  <1>3. StepsPerAgent * (AgentCount - agent[t]) \in Nat
    BY <1>1, <1>2, AgentsAhead
  <1>4. pc[t] = "call" => attempt[t] <= MaxRetries
    BY DEF TriageInv, Attempts
  <1>5. /\ StepsOfCall(t) \in Nat /\ StepsOfCall(t) > 0
        /\ pc[t] = "call" => StepsOfCall(t) > 2
    BY <1>1, <1>4, CountAssumption DEF StepsOfCall, StepsPerAgent
  <1> QED
    BY <1>1, <1>2, <1>3, <1>4, <1>5 DEF StepsLeft, Running

LEMMA StepsAreCounted ==
  ASSUME TriageInv, NEW t \in Triages
  PROVE  StepsLeft(t) \in Nat /\ (Running(t) => StepsLeft(t) > 0)
  <1>1. CASE pc[t] \in {"call", "record", "append"}
    BY <1>1, CallIsCounted
  <1>2. CASE pc[t] \notin {"call", "record", "append"}
    BY <1>2 DEF StepsLeft, Running
  <1> QED
    BY <1>1, <1>2

LEMMA StepShortens ==
  ASSUME TriageInv, TriageInv', NEW t \in Triages, Step(t)
  PROVE  StepsLeft(t)' < StepsLeft(t)
  <1>0. /\ pc \in [Triages -> {"new", "call", "record", "append", "save", "done", "raised"}]
        /\ agent \in [Triages -> 1..(AgentCount + 1)] /\ attempt \in [Triages -> Nat]
        /\ MaxRetries \in Nat /\ AgentCount \in Nat
    BY CountAssumption DEF TriageInv, TypeOK
  <1>1. ASSUME NEW status \in {"ok", "LLMAuthError"}, FinalAnswer(t, status)
        PROVE  StepsLeft(t)' < StepsLeft(t)
    <2>1. pc[t] = "call" /\ pc'[t] = "record" /\ agent' = agent
      BY <1>0, <1>1 DEF FinalAnswer
    <2>2. StepsLeft(t)' = StepsPerAgent * (AgentCount - agent[t]) + 2 + 1
      BY <2>1 DEF StepsLeft, StepsOfCall, Running
    <2> QED
      BY <2>1, <2>2, CallIsCounted
  <1>2. ASSUME NEW answer, FailedAttempt(t, answer)
        PROVE  StepsLeft(t)' < StepsLeft(t)
    <2>1. pc[t] = "call" /\ agent' = agent /\ attempt'[t] = attempt[t] + 1
      BY <1>0, <1>2 DEF FailedAttempt
    <2>2. StepsOfCall(t) = StepsPerAgent - attempt[t]
      BY <2>1 DEF StepsOfCall
    <2>3. CASE pc'[t] = "record"
      <3>1. StepsLeft(t)' = StepsPerAgent * (AgentCount - agent[t]) + 2 + 1
        BY <2>1, <2>3 DEF StepsLeft, StepsOfCall, Running
      <3> QED
        BY <2>1, <3>1, CallIsCounted
    <2>4. CASE pc'[t] = "call"
      <3>1. StepsLeft(t)' = StepsPerAgent * (AgentCount - agent[t])
                              + (StepsPerAgent - (attempt[t] + 1)) + 1
        BY <2>1, <2>4 DEF StepsLeft, StepsOfCall, Running
      <3> QED
        BY <2>1, <2>2, <3>1, CallIsCounted
    <2> QED
      BY <1>0, <1>2, <2>3, <2>4 DEF FailedAttempt
  <1>3. CASE Record(t)
    <2>1. pc[t] = "record" /\ pc'[t] = "append" /\ agent' = agent
      BY <1>0, <1>3 DEF Record
    <2>2. /\ StepsLeft(t)' = StepsPerAgent * (AgentCount - agent[t]) + 1 + 1
          /\ StepsOfCall(t) = 2
      BY <2>1 DEF StepsLeft, StepsOfCall, Running
    <2> QED
      BY <2>1, <2>2, CallIsCounted
  <1>4. CASE AppendMarkdown(t)
    <2>1. /\ pc[t] = "append" /\ agent'[t] = agent[t] + 1 /\ attempt'[t] = 0
          /\ pc'[t] = IF agent[t] = AgentCount THEN "save" ELSE "call"
      BY <1>0, <1>4 DEF AppendMarkdown, NextAgent
    <2>2. StepsOfCall(t) = 1
      BY <2>1 DEF StepsOfCall
    <2>3. CASE agent[t] = AgentCount
      <3>1. StepsLeft(t)' = 1
        BY <2>1, <2>3 DEF StepsLeft, Running
      <3> QED
        BY <2>1, <2>2, <3>1, CallIsCounted
    <2>4. CASE agent[t] # AgentCount
      <3>1. StepsLeft(t)' = StepsPerAgent * (AgentCount - (agent[t] + 1)) + (StepsPerAgent - 0) + 1
        BY <2>1, <2>4 DEF StepsLeft, StepsOfCall, Running
      <3>2. StepsPerAgent * (AgentCount - (agent[t] + 1))
              = StepsPerAgent * (AgentCount - agent[t]) - StepsPerAgent
        BY <2>1, <2>4, CallIsCounted, AgentsAhead
      <3> QED
        BY <2>1, <2>2, <3>1, <3>2, CallIsCounted
    <2> QED
      BY <2>3, <2>4
  <1>5. CASE Save(t) \/ TransportError(t) \/ DatabaseError(t) \/ LogUnwritable(t)
    <2>1. Running(t) /\ pc'[t] \in {"done", "raised"}
      BY <1>0, <1>5 DEF Save, TransportError, DatabaseError, LogUnwritable, Raise, Running
    <2>2. StepsLeft(t)' = 0
      BY <2>1 DEF StepsLeft, Running
    <2> QED
      BY <2>1, <2>2, StepsAreCounted
  <1> QED
    BY <1>1, <1>2, <1>3, <1>4, <1>5 DEF Step

\* No step of another triage touches where a triage is.
LEMMA OthersDoNotMatter ==
  ASSUME TriageInv, NEW t \in Triages, NEW q \in Triages, q # t,
         Step(q) \/ \E i \in Incidents : Begin(q, i)
  PROVE  StepsLeft(t)' = StepsLeft(t)
  <1>1. pc'[t] = pc[t] /\ agent'[t] = agent[t] /\ attempt'[t] = attempt[t]
    BY DEF TriageInv, TypeOK, Step, Begin, FinalAnswer, FailedAttempt, Record, AppendMarkdown,
           NextAgent, Save, TransportError, DatabaseError, LogUnwritable, Raise
  <1> QED
    BY <1>1 DEF StepsLeft, StepsOfCall, Running

\* A triage that begins is through after at most MaxRetries + 3 steps an agent and one
\* more, whatever the provider answers and however many others run.
THEOREM TriagesAreBounded == Spec => []StepsCounted /\ StepsRunOut
  <1>1. ASSUME TriageInv, TriageInv', Next, NEW t \in Triages
        PROVE  /\ Step(t) => StepsLeft(t)' < StepsLeft(t)
               /\ \A i \in Incidents : Begin(t, i) =>
                    StepsLeft(t)' = StepsPerAgent * AgentCount + 1
               /\ StepsLeft(t)' # StepsLeft(t) => Step(t) \/ \E i \in Incidents : Begin(t, i)
    <2>1. ASSUME NEW i \in Incidents, Begin(t, i)
          PROVE  StepsLeft(t)' = StepsPerAgent * AgentCount + 1
      <3>1. pc'[t] = "call" /\ agent'[t] = 1 /\ attempt'[t] = 0
        BY <1>1, <2>1 DEF TriageInv, TypeOK, Place, Begin
      <3>2. StepsPerAgent \in Nat /\ AgentCount \in Nat
        BY CountAssumption DEF StepsPerAgent
      <3>3. StepsPerAgent * (AgentCount - 1) = StepsPerAgent * AgentCount - StepsPerAgent
        BY <3>2
      <3>4. StepsPerAgent * AgentCount \in Nat
        BY <3>2
      <3>5. StepsLeft(t)' = StepsPerAgent * (AgentCount - 1) + (StepsPerAgent - 0) + 1
        BY <3>1 DEF StepsLeft, StepsOfCall, Running
      <3> QED
        BY <3>2, <3>3, <3>4, <3>5
    <2>2. UNCHANGED vars => StepsLeft(t)' = StepsLeft(t)
      BY DEF StepsLeft, StepsOfCall, Running, vars, locals
    <2>3. Step(t) => StepsLeft(t)' < StepsLeft(t)
      BY <1>1, StepShortens
    <2>4. \/ Step(t) \/ \E i \in Incidents : Begin(t, i)
          \/ StepsLeft(t)' = StepsLeft(t)
      BY <1>1, <2>2, OthersDoNotMatter DEF Next, Quiescent
    <2> QED
      BY <2>1, <2>3, <2>4
  <1>2. ASSUME TriageInv, TriageInv', [Next]_vars
        PROVE  [\A t \in Triages :
                  /\ Step(t) => StepsLeft(t)' < StepsLeft(t)
                  /\ \A i \in Incidents : Begin(t, i) =>
                       StepsLeft(t)' = StepsPerAgent * AgentCount + 1
                  /\ StepsLeft(t)' # StepsLeft(t) =>
                       Step(t) \/ \E i \in Incidents : Begin(t, i)]_vars
    BY <1>1, <1>2
  <1>3. TriageInv => StepsCounted
    <2> SUFFICES ASSUME TriageInv, NEW t \in Triages
                 PROVE  StepsLeft(t) \in Nat /\ (StepsLeft(t) = 0 <=> ~Running(t))
      BY DEF StepsCounted
    <2>1. ~Running(t) => StepsLeft(t) = 0
      BY DEF StepsLeft
    <2> QED
      BY <2>1, StepsAreCounted
  <1> QED
    BY <1>2, <1>3, TriageInvariant, PTL DEF Spec, StepsRunOut
=============================================================================
