-------------------------------- MODULE Triage --------------------------------
(***************************************************************************)
(* Triage of an incident: the agents run in order, each asks the LLM       *)
(* through the client that retries, falls back to a canned answer when the *)
(* client gives up, and records the call as an audit row and a block of    *)
(* docs/llm_prompts.md; then the verdict is saved on the incident.         *)
(* Triages of several requests overlap, also those of one incident.        *)
(*                                                                         *)
(* An answer is abstracted to its source: the LLM or the fallback.  Of the *)
(* incident's columns each agent decides one group, category that of the   *)
(* first agent.  Retrieval of runbooks in between only reads.              *)
(***************************************************************************)
EXTENDS Integers

CONSTANTS Triages,     \* calls of TriageService.triage
          Incidents,
          AgentCount,  \* classification, root_cause, remediation, executive_summary
          MaxRetries,  \* GeminiLLMClient's max_retries
          None

Agents == 1..AgentCount

ASSUME CountAssumption == AgentCount \in Nat \ {0} /\ MaxRetries \in Nat
\* The domain exceptions of the client.
Failures == {"LLMTimeout", "LLMResponseInvalid", "LLMRateLimited", "LLMAuthError"}

\* Who decided the columns of an agent.
Decision == [by : Triages, source : {"llm", "fallback"}]

ASSUME NoneAssumption ==
  None \notin Incidents \cup Decision \cup Failures \cup {"ok", "llm", "fallback"}

VARIABLES
  verdict,   \* verdict[i][a]: who decided the columns of agent a, None if NULL
  rows,      \* the llm_evaluations table
  blocks,    \* the blocks of docs/llm_prompts.md
  pc, incident, agent, attempt, outcome, found  \* of each triage

locals == <<pc, incident, agent, attempt, outcome, found>>
vars == <<verdict, rows, blocks, locals>>

\* What the provider may do that the client retries.
RetryableAnswers ==
  {"timeout", "malformed", "too_many_requests", "server_error", "other_error"}

Translate(answer) ==
  IF answer \in {"timeout", "server_error"} THEN "LLMTimeout"
  ELSE IF answer = "too_many_requests" THEN "LLMRateLimited"
  ELSE "LLMResponseInvalid"

ExhaustedEarly(n) == n >= MaxRetries  \* Mutant: range(max_retries)
Exhausted(n) == n > MaxRetries

Running(t) == pc[t] \in {"call", "record", "append", "save"}

\* The row of the current call.  (attempts is no column: the answers asked for.)
Row(t) == [triage |-> t, incident |-> incident[t], agent |-> agent[t],
           status |-> outcome[t], attempts |-> attempt[t]]

Source(status) == IF status = "ok" THEN "llm" ELSE "fallback"

Init ==
  /\ verdict = [i \in Incidents |-> [a \in Agents |-> None]]
  /\ rows = {} /\ blocks = {}
  /\ pc = [t \in Triages |-> "new"]
  /\ incident = [t \in Triages |-> None]
  /\ agent = [t \in Triages |-> 1]
  /\ attempt = [t \in Triages |-> 0]
  /\ outcome = [t \in Triages |-> None]
  /\ found = [t \in Triages |-> [a \in Agents |-> None]]

\* The gate of the pipeline: the incident has no category.
Begin(t, i) ==
  /\ pc[t] = "new"
  /\ verdict[i][1] = None
  /\ pc' = [pc EXCEPT ![t] = "call"]
  /\ incident' = [incident EXCEPT ![t] = i]
  /\ UNCHANGED <<verdict, rows, blocks, agent, attempt, outcome, found>>

(***************************************************************************)
(* GeminiLLMClient.complete_structured, one attempt a step.                *)
(***************************************************************************)
\* A valid answer, or an authentication failure, which is not retried.
FinalAnswer(t, status) ==
  /\ pc[t] = "call"
  /\ status \in {"ok", "LLMAuthError"}
  /\ attempt' = [attempt EXCEPT ![t] = @ + 1]
  /\ outcome' = [outcome EXCEPT ![t] = status]
  /\ pc' = [pc EXCEPT ![t] = "record"]
  /\ UNCHANGED <<verdict, rows, blocks, incident, agent, found>>

\* Mutant: the client retries until it gets a final answer.
RetryForever(t, answer) ==
  /\ pc[t] = "call"
  /\ outcome' = [outcome EXCEPT ![t] = Translate(answer)]
  /\ UNCHANGED <<verdict, rows, blocks, pc, incident, agent, attempt, found>>

FailedAttempt(t, answer) ==
  /\ pc[t] = "call"
  /\ attempt' = [attempt EXCEPT ![t] = @ + 1]
  /\ outcome' = [outcome EXCEPT ![t] = Translate(answer)]
  /\ pc' = [pc EXCEPT ![t] = IF Exhausted(attempt'[t]) THEN "record" ELSE "call"]
  /\ UNCHANGED <<verdict, rows, blocks, incident, agent, found>>

(***************************************************************************)
(* PromptLog.record: a committed row, then a block of the markdown file.   *)
(***************************************************************************)
\* Mutant: only successes are recorded.
RecordSuccess(t) ==
  /\ pc[t] = "record"
  /\ rows' = IF outcome[t] = "ok" THEN rows \cup {Row(t)} ELSE rows
  /\ pc' = [pc EXCEPT ![t] = "append"]
  /\ UNCHANGED <<verdict, blocks, incident, agent, attempt, outcome, found>>

Record(t) ==
  /\ pc[t] = "record"
  /\ rows' = rows \cup {Row(t)}
  /\ pc' = [pc EXCEPT ![t] = "append"]
  /\ UNCHANGED <<verdict, blocks, incident, agent, attempt, outcome, found>>

\* The agent returns its answer or its fallback, and the next one starts.
NextAgent(t) ==
  /\ found' = [found EXCEPT ![t][agent[t]] = Source(outcome[t])]
  /\ agent' = [agent EXCEPT ![t] = @ + 1]
  /\ attempt' = [attempt EXCEPT ![t] = 0]
  /\ outcome' = [outcome EXCEPT ![t] = None]
  /\ pc' = [pc EXCEPT ![t] = IF agent[t] = AgentCount THEN "save" ELSE "call"]

AppendMarkdown(t) ==
  /\ pc[t] = "append"
  /\ blocks' = blocks \cup {Row(t)}
  /\ NextAgent(t)
  /\ UNCHANGED <<verdict, rows, incident>>

(***************************************************************************)
(* TriageService.triage writes all columns in one transaction: the commits *)
(* of the prompt log have expired the incident, so the session has no old  *)
(* values to compare the new ones with.                                    *)
(***************************************************************************)
\* Mutant: a fallback does not replace what is there.
SaveAnswersOnly(t) ==
  /\ pc[t] = "save"
  /\ verdict' = [verdict EXCEPT ![incident[t]] =
       [a \in Agents |-> IF found[t][a] = "fallback" /\ @[a] # None
                         THEN @[a] ELSE [by |-> t, source |-> found[t][a]]]]
  /\ pc' = [pc EXCEPT ![t] = "done"]
  /\ UNCHANGED <<rows, blocks, incident, agent, attempt, outcome, found>>

Save(t) ==
  /\ pc[t] = "save"
  /\ verdict' = [verdict EXCEPT ![incident[t]] =
                   [a \in Agents |-> [by |-> t, source |-> found[t][a]]]]
  /\ pc' = [pc EXCEPT ![t] = "done"]
  /\ UNCHANGED <<rows, blocks, incident, agent, attempt, outcome, found>>

(***************************************************************************)
(* Exceptions that nothing between the client and process_services         *)
(* catches; the death of the process has the same effect.                  *)
(***************************************************************************)
Raise(t) ==
  /\ pc' = [pc EXCEPT ![t] = "raised"]
  /\ UNCHANGED <<verdict, rows, blocks, incident, agent, attempt, outcome, found>>

\* The client raises what no agent catches: the connection breaks in a way it does not
\* translate, or offline it has no actions for the category (module Agents).
TransportError(t) == pc[t] = "call" /\ Raise(t)

\* The database is locked, or cannot commit.
DatabaseError(t) == pc[t] \in {"record", "save"} /\ Raise(t)

\* Mutant: the error is swallowed.
IgnoreLog(t) ==
  /\ pc[t] = "append"
  /\ NextAgent(t)
  /\ UNCHANGED <<verdict, rows, blocks, incident>>

\* The markdown file cannot be written.
LogUnwritable(t) == pc[t] = "append" /\ Raise(t)

Step(t) ==
  \/ \E status \in {"ok", "LLMAuthError"} : FinalAnswer(t, status)
  \/ \E answer \in RetryableAnswers : FailedAttempt(t, answer)
  \/ Record(t)
  \/ AppendMarkdown(t)
  \/ Save(t)
  \/ TransportError(t)
  \/ DatabaseError(t)
  \/ LogUnwritable(t)

\* No triage runs, and no further one need start.
Quiescent ==
  /\ \A t \in Triages : ~Running(t)
  /\ UNCHANGED vars

Next ==
  \/ \E t \in Triages, i \in Incidents : Begin(t, i)
  \/ \E t \in Triages : Step(t)
  \/ Quiescent

\* Every call of the provider is answered or fails, and threads are scheduled.
Fairness == \A t \in Triages : WF_vars(Step(t))

Spec == Init /\ [][Next]_vars
FairSpec == Spec /\ Fairness

(***************************************************************************)
(* Properties.                                                             *)
(***************************************************************************)
Evaluation == [triage : Triages, incident : Incidents, agent : Agents,
               status : Failures \cup {"ok"}, attempts : Nat]

\* Every variable has its type; in particular the status of an audit row is "ok"
\* or the name of a domain exception.
TypeOK ==
  /\ verdict \in [Incidents -> [Agents -> Decision \cup {None}]]
  /\ rows \subseteq Evaluation /\ blocks \subseteq Evaluation
  /\ pc \in [Triages -> {"new", "call", "record", "append", "save", "done", "raised"}]
  /\ incident \in [Triages -> Incidents \cup {None}]
  /\ agent \in [Triages -> 1..(AgentCount + 1)]
  /\ attempt \in [Triages -> Nat]
  /\ outcome \in [Triages -> Failures \cup {"ok", None}]
  /\ found \in [Triages -> [Agents -> {"llm", "fallback", None}]]

\* Every part of a verdict can be traced: the triage that decided it left a row
\* and a block for the agent, and the row tells the LLM's answers from fallbacks.
VerdictIsAudited ==
  \A i \in Incidents, a \in Agents :
    verdict[i][a] # None =>
      \E e \in rows \cap blocks :
        /\ e.incident = i /\ e.agent = a /\ e.triage = verdict[i][a].by
        /\ Source(e.status) = verdict[i][a].source

\* The columns of a verdict are all NULL or all from one triage, although
\* triages of one incident overlap and may fail half-way.
VerdictFromOneTriage ==
  \A i \in Incidents, a, b \in Agents :
    /\ verdict[i][a] = None <=> verdict[i][b] = None
    /\ verdict[i][a] # None => verdict[i][a].by = verdict[i][b].by

\* A triage records a call at most once.  A block has a row; a row without a block
\* is being appended, or its triage failed there.
AuditTrail ==
  /\ blocks \subseteq rows
  /\ \A e, f \in rows : e.triage = f.triage /\ e.agent = f.agent => e = f
  /\ \A e \in rows \ blocks :
       pc[e.triage] \in {"append", "raised"} /\ e.agent = agent[e.triage]

\* The client gives up on a transient failure only when its attempts are used up,
\* and never asks more often than that.
FallbackOnlyWhenExhausted ==
  \A e \in rows :
    /\ e.attempts <= MaxRetries + 1
    /\ e.status \notin {"ok", "LLMAuthError"} => e.attempts = MaxRetries + 1

\* Every triage ends, with a verdict or an exception.
TriagesEnd == \A t \in Triages : Running(t) ~> pc[t] \in {"done", "raised"}
=============================================================================
