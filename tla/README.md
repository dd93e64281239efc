# Formal models of the observability platform

TLA+ specifications of the backend and of the SDK client of this repository, the
TLC runs that check them on small instances, and TLAPS proofs of what matters most
for instances of any size. Everything is translated from the code; where the code
and the documents disagree, a run shows it (see *Findings*).

    tlc -config PipelineConcurrent.cfg MCPipeline     # one run
    tlapm PipelineProofs.tla                          # one module's proofs

`PROJECT.json` lists the runs, the lines every definition stands for, the
hazards each property is aimed at, and for every property a plausible bug
(an operator marked "Mutant", which nothing else refers to) that breaks it.

## 1. The system

A FastAPI backend over one SQLite database. Handlers are synchronous, so each
request runs in a thread of a limited number, with a session of its own that takes
connections from the engine's pool.

| component | state | operations | talks to |
|---|---|---|---|
| ingestion (`ingestion/`, `api/routes/events.py`) | `events` table | store one event or a batch, then run the pipeline in the same request | database, pipeline |
| pipeline (`pipeline/`) | the loop over the services of a batch | detect, correlate, triage, alert, service by service; any exception ends the loop and is swallowed | the four below |
| detection (`detection/`) | `anomalies` table | bucket the stored events of a service, run three detectors, store what is not a duplicate | events, anomalies |
| correlation, incidents (`correlation/`, `incidents/`) | `incidents` table, `anomalies.incident_id` | find an open incident of the service; open or absorb; PATCH of the status | incidents |
| triage (`triage/`) | four groups of incident columns, `llm_evaluations`, `docs/llm_prompts.md` | four agents, each one LLM call with retries, a fallback and an audit record; save the verdict | LLM, runbooks |
| alerts (`alerts/`) | `alerts` table, what channels were sent | per channel: check the rate limit, send; one commit at the end | channels |
| risk score (`risk/`) | none | four SELECTs and a formula | all tables |
| topology (`topology/`) | `service_topology` table | seed from a file at each start; blast radius of unresolved incidents | incidents |
| SDK client (`sdk/`) | none | POST once, GET with retries | the API |
| runbook retrieval (`rag/`) | read-only index | rank runbooks by similarity to a triage's query | files |
| server (`main.py`, `api/`, `db/`) | threads, the engine's pool of connections | resolve dependencies, run a handler, translate exceptions, close the session | all of the above |
| synthetic load (`scripts/synth/`) | none | generate a scenario, send it batch by batch | the SDK client |
| frontend | none | views of the API | the API |

What is hard about it:

* *Interleaving.* Requests for one service overlap, and every rule of the
  pipeline is a SELECT in one place and a write in another: the open incident, the
  category, the rate limit, the duplicate check. Triage puts seconds of LLM
  calls between a check and its write.
* *Stale copies.* SQLAlchemy writes only the columns that differ from the
  session's copy; a copy may be stale when it is compared.
* *Partial failure.* One request commits many times: events, anomalies, links,
  one audit row per agent, the verdict, the alerts. An exception in between
  leaves the earlier commits, and nothing retries.
* *Time.* Windows are measured from the time a request began, not from the
  time it reaches the step.
* *The network.* A POST that times out may have been stored; an answer may come
  after its caller gave up.
* *Limits.* Requests hold a connection during LLM calls and wait for another
  after each commit; they also need threads, some while they hold a connection.

## 2. The modules

| module | models | checked by | proved in |
|---|---|---|---|
| `IncidentLedger` | the abstract promise: anomalies are recorded, filed once under an incident of their service, severity in step, triage before announcement | (the specification `Pipeline` implements) | `PipelineProofs` |
| `Pipeline` | requests from detection to alerting, and PATCH, in concurrent threads | `MCPipeline` | `PipelineProofs` |
| `Triage` | agents, LLM client, audit log, verdict | itself | `TriageProofs` |
| `Agents` | what the prompts say, the hints in them, the offline client, runbook retrieval | `MCAgents` | `AgentsProofs` |
| `Topology` | seeding, the endpoint's walk, `root_service` | `MCTopology` | `TopologyProofs` |
| `Cascade` | the `dependency_failure` scenario; extends `Topology` | `MCTopology` | `TopologyProofs` |
| `Detection` | selection, buckets and detectors, as operators | through `Ingestion` | `SynthProofs` |
| `Ingestion` | SDK POST, routes, storing, analysing; extends `Detection` | `MCIngestion` | `SynthProofs` |
| `Synth` | the loop that sends a scenario; extends `Ingestion` | `MCIngestion` | `SynthProofs` |
| `Server` | threads, connections, sessions, exception handlers | `MCServer` | `ServerProofs` |
| `RiskScore` | SDK GET with retries, the score among concurrent writers | `MCRiskScore` | `RiskProofs` |
| `Counting` | nothing of the code: facts about sequences, sums and finite orders | - | itself |

The modules meet at these seams: `Pipeline.Detect` lets any set of
signals fire that are not duplicates, which `Ingestion.Analyse` computes;
`Pipeline.SaveTriage` writes any category, which `Triage.Save` decides, and
`Pipeline.Fail` stands for what `Triage.Raise` and `Ingestion.PipelineFails`
raise; `Triage` reduces an answer to its source, `Agents` says what answers are
about and leaves out how they are obtained; `Server` follows the same requests but
only knows who holds what and what is answered; its `Threads` is `Pipeline.PoolSize`,
as a handler that waits for a connection overlaps with the others all the same. These
seams are by design and not checked by TLC. `Synth` and `Cascade` are composed with what they talk to.

### Pipeline

One action is what a thread does between two points where another thread can get
in. SQLite serialises write transactions from the first write (the flush) to the
commit, so a transaction is one action; a SELECT outside one sees the last commit,
so a SELECT that later steps rely on is an action of its own.

| action | code |
|---|---|
| `Begin` | `_run_pipeline`: services of the batch, one `now` for the whole request |
| `Detect`, `SaveAnomalies` | `DetectionService.analyze_service`: reads, then its commit |
| `FindOpen` | the SELECT of `CorrelationEngine.correlate` |
| `OpenIncident`, `AttachAnomalies` | the transactions of `IncidentService` |
| `TriageGate`, `SaveTriage` | `process_service`: the category is read; the verdict committed |
| `BuildPayload`, `SendOrSkip`, `CommitAlerts` | `AlertService.raise_for_incident` |
| `Fail` | an exception or the end of the process anywhere between two steps |
| `PatchLoad`, `PatchCommit` | PATCH: load, then write the differing columns |

`loaded` is the session's copy of the severity: `AttachAnomalies` writes the
column only if the derived value differs from it, as the session does.
`status` is treated alike in PATCH. Rows have natural names in place of ids.
`sent` is no table but the world outside: what the channels were given.
`PoolSize` bounds the requests that overlap; with 1, requests run one at a time.

### Triage

One action is one answer of the provider, one commit, or one append to the
markdown file. The attempts in an audit row are a ghost: the number of answers
asked for. `Raise` covers the three ways out that no `except` catches on the way:
an error of the client that is no domain error (of transport, or the `KeyError` of the offline client,
see `Agents`), the database, the log file.
An answer is reduced to its source (LLM or fallback).

### Agents

The content of one triage, which `Triage` leaves out. Offline answers come from
keywords, so a text is the set of categories it has a keyword of; the fixed wording
of the prompts has none, as a reader can check against `_CATEGORY_KEYWORDS`. Before
keywords the client reads the first line `Category: <name>` of its prompt (`hint`): the prompts of the
root cause and the summary begin with one, and a text of several lines may have one of its own.
A signature has no line breaks (`generate_signature`), but the name of a service may have
(`EventCreate`), and it is in the title and the summary of the incident, before the cut; so may a
runbook. A name that is no category hides the lines after it and is otherwise ignored. The
summary of an incident is cut as one field, events are a line each: the two can
mention different things. Counts are rendered, and 401 or 403 reads like a status.
An incident is described once, at `Begin`, while `Absorb` goes on. An
LLM may answer any category; other texts of its own have no category (`None`). The
similarity of a runbook to a query is any grade, since words
decide it and not keywords. `key_error` is the exception of the offline client, which the pipeline
swallows; the incident stays untriaged (`Interrupt`).

### Topology

A graph maps services to what they depend on; services may appear as a
dependency only. The work list is a set, since nothing in it repeats and the
iteration order of Python sets is arbitrary; ties in `root_service`, broken by name
in the code, may fall either way. Requests only read, so one is followed.
A restart may cut it short.

### Cascade

The layers of the scenario are a recursive function of the depth, its events of one
second a set: which of the possible ones a second has is random. The root is `_ROOT`,
or any service where the file has none (the code takes the first in order). The
scenario reads the file the platform is seeded with; here it is the platform's
graph. If the file cannot be read the scenario takes a graph of its own
(`_FALLBACK_TOPOLOGY`), of which the platform knows nothing; that is not modelled. The code
calls `root_service` in its tests only: `RootIsBlamed` says that the two functions fit together.

### Server

| action | code |
|---|---|
| `Reject`, `Enter` | middleware and validation; dependencies resolved, the handler's thread |
| `Checkout`, `CheckoutTimesOut`, `Commit` | a session's first statement after a commit takes a connection, or fails after the pool's timeout; a commit returns it |
| `BeginAnalysis`, `SkipTriage`, `CallLLM`, `LLMReturns`, `Hang`, `Finish` | the course of a handler |
| `ResolveTopology`, `EnterResolved` | `get_topology_engine` makes its SELECT as a dependency, in a thread of its own |
| `NotFound`, `RejectLevel`, `Fail` | exceptions, swallowed in the pipeline, translated elsewhere (`Raise`) |
| `Validate`, `Close` | the answer validated in a thread; `get_db` closes the session |

A handler is cut into segments that end with a commit, because that is where it
gives its connection back. One service per POST is followed: a second one passes
the same segments again. A refresh after a commit belongs to the next segment.

### Detection, Ingestion and Synth

`Detection` keeps the floats exact: both sides of a comparison are multiplied by
the number of baseline buckets or squared, and a weighted mean is a fraction
(`value` over `scale`).
In `Ingestion` several SDK calls store and analyse events of one service (analysis
of a service reads no other events). An event is a signature, a raw level
and a timestamp; the regular expressions that turn messages into signatures are
left out. `GiveUp` is a timeout on the caller's side only: its request may
still arrive and be served. `Synth` is one more caller: `SendBatch` posts the next
slice of a script when the call before it was created, and never after one that
raised.

### RiskScore

The four SELECTs of `calculate` are four steps among writers that ingest, worsen,
alert, resolve and reopen. The error penalty is kept as a numerator over the
number of events; rounding to two decimals is left out. `rate` and `open` in the
request are ghosts: what the tables held at two of the SELECTs. A request whose
caller asked again is dropped, as it only reads.

## 3. The runs

| run | instance | what it shows |
|---|---|---|
| `concurrent` | 3 requests, 2 at a time, 1 service, 2 signals, 1 failure | the type invariant; `SeverityMatchesCount`, `OrphansOnlyAfterFailure`, `AlertsFollowTriage`, `AlertBurstBounded`, `LinksNeverMove`, and `ImplementsLedger`, under every interleaving |
| `lifecycle` | 2 requests, 2 PATCH, 2 channels, 1 failure, fair threads | `ResolvedHasTimestamp`, `SendsAreRecorded`, and `AnomalyIsAnnounced` (liveness) |
| `serial` | 3 requests, 2 services, 1 PATCH, one at a time | what the documents promise and overlap breaks: `NoDuplicateIncidents`, `AbsorbedWhileUnresolved`, `TriagedOnlyWhileUntriaged`, `AlertsAgreeWithIncident`, `AlertSpacing` |
| `triage` | 2 triages of one incident, 2 agents, 1 retry | whole, traceable verdicts, an audit trail without silent gaps, retries used up, and every triage ends |
| `agents` | 1 incident, up to 2 anomalies, 3 runbooks, 2 of them cited | `SummaryAgrees`, `ActionsSuitCategory`, `RetrievalIsBest` of a verdict, and `FailsOnlyOnUnknown`: when the offline client raises |
| `topology` | graphs of 3 services: any dependencies of 2, cycles included, and a third that follows one of them or has no row | exact impact (`ImpactIsExact`), `RootDependsOnNoCandidate`, requests end; `CascadeFollowsTheGraph`, and `RootIsBlamed` whichever layers have failed |
| `ingestion` | 2 calls, 8 kinds of batches, a script of 2 batches, 2 faults | `OutcomeIsTruthful` for callers, `ScriptIsStoredInOrder` for the synthetic load; `BurstIsNoticed`, `AnomalyHasEvidence`, `MoreErrorsNeverSilence`, `LimitCutsThePast` for detection on overlapping requests |
| `risk` | 1 incident, up to 4 events, 1 retry | `ErrorsNotUnderstated` and `AskingEnds` |
| `server` | 3 requests of any routes, 2 threads, 1 connection, 1 agent, 1 LLM call that never returns | `ConnectionsAccounted`, `IngestionContract`, `RequestsAreAnswered` (liveness) |
| `duplicate_incidents`, `double_triage`, `signal_dedup` | the smallest that show it | the findings below |

**Bounds.** `MaxClock` bounds clocks, `MaxFailures`, `MaxFaults` and `MaxHung` what goes
wrong, `MaxEvents` the rows `RiskScore` counts; they are guards of the model, not
of the code. Each hazard needs two actors and one of each thing between them;
the third request of `concurrent` and `serial` is there so that one can
absorb into, or be suppressed by, what two others left. In `concurrent` and `serial`
windows are one tick and the clock reaches two, so that rows fall inside, on the edge of, and outside every
window; `AlertRateLimit` 0 in `lifecycle` and `RiskWindow` 0 in `risk`
are the narrowest windows, in which only the same instant counts. A baseline of
two buckets is the least with a deviation. Channels differ only by index, so one is
enough but where the order of send and commit matters (`lifecycle`). Two agents
show everything the order of agents can, as the proofs confirm for any number.
Runbooks mention what three of those in `data/runbooks` do, one with a `Category:` line added (those
in the repository have none, but `runbook_dir` is a setting); titles have none, or name
"unknown", a category, or no category; two anomalies, of which
one fits the summary, are the least that can be cut or absorbed in between.
In `topology` three services give chains, diamonds with a missing row, and cycles, and the
scenario lasts until the deepest layer has failed. In `server` one connection and two
threads are the fewest with which a request can wait for a connection while another that
holds it waits for a thread; requests differ only by their routes, so choices of routes are
taken in one order; more agents only repeat a segment. A script of three events in
batches of two has a full batch and a rest, and two calls are all it takes.
The EWMA factor, thresholds and the floor of `ingestion` are chosen so that each
detector fires for some of the batches. Sets of requests, patches and calls are
symmetric; no symmetry is used where liveness is checked.

**Deadlock** is checked in every run. Where a system comes to rest a step
`Quiescent` that changes nothing says so, and is enabled only when every
request has been answered.

**Fairness.** `Pipeline` and `Triage` assume weak fairness of each request's own
steps, `Topology` of the request's thread: the pool schedules its threads, and each
step returns or raises. For the steps that call the LLM that is an assumption
about the provider: `genai.Client` is built without a timeout
(`triage/gemini_client.py:50`), and a call that never returned would hold its
thread for ever. `Server` therefore lets some calls hang, fewer than there are
threads: with all threads in them nothing would be answered any more. It assumes
weak fairness of each request's steps: a request that could go on for ever does,
and a wait for a connection ends with the pool's timeout (30 seconds by default) if
with nothing else. No request is promised a connection. Nothing is assumed of operators, of new requests, of failures,
or of the clock. `RiskScore` assumes only that an exchange of the SDK ends,
with an answer or an error, as `httpx` has a timeout; nothing of the server.

## 4. Findings

Each is a run that TLC refutes, with the line it contradicts in `PROJECT.json`.

* `duplicate_incidents`: the plan says an open incident absorbs new anomalies (no
  duplicates); two overlapping requests of a service both find none and both open
  one. One at a time the promise holds (`serial`).
* `double_triage`: the pipeline's docstring says triage runs once per incident;
  a request that absorbs into an incident another is triaging triages it again
  and replaces the verdict, also after alerts with the first went out.
* `signal_dedup`: the plan says a signature contributes once per window;
  duplicates are recognised by equal `window_start`, which is the request's own
  time less a bucket, so only requests of one instant are duplicates.

Six behaviours are in the models without a run of their own:

* The triage docstring says agents never raise (`triage_service.py:4-5`); an exception
  outside the four domain errors, of the database, of the log file or of the offline client, passes through
  `_complete` (`Triage.Raise`). The same docstring's "so triage never crashes a
  request" holds all the same, as `_run_pipeline` swallows it (`IngestionContract`).
* The plan's alert penalty is about open alerts (`MASTER_PLAN.md:584`);
  `CountAlerts` counts, like the code, every incident that ever alerted, so the
  penalty never falls.
* A test of the offline client says that chained prompts carry the category so that
  downstream stays consistent (`test_mock_ai_client.py:74`). The remediation prompt
  carries none: a network incident that cites the network runbook, which mentions
  timeouts, is given database actions (the second exception of
  `ActionsSuitCategory`).
* The offline client takes any category named on a line of its prompt, but has no actions for
  "unknown" (`mock_ai_client.py:75`). An incident of a service whose name has the line `Category:
  unknown` is classified so and then fails in the remediation, with a `KeyError` that no agent turns
  into a fallback (`base_agent.py:46` catches the four domain errors). The ingestion is answered with
  201, but the incident is not announced, the other services of the batch are not analysed, and
  every later request that triages the incident ends there again. `FailsOnlyOnUnknown` says that the client
  fails for this reason only, and always for this reason.
* The rate limit is measured from the times requests began, so messages of a slow
  request and of a later one may be closer than the limit (`AlertSpacing` is
  stated over the recorded times).
* A flood beyond the query's limit empties the baseline, which silences the rate
  detectors (`LimitCutsThePast` says what does hold).

## 5. The proofs

All are for every value of the constants, under the assumptions the modules name:
`NoneAssumption` (NULL is no row or value), `FiniteAssumption` (finitely many
signals, channels, services), `WindowAssumption`, `PoolAssumption`, `PatchAssumption`,
`SeedAssumption`, `CountAssumption`, `RetrievalAssumption`, `TextAssumption`,
`LoadAssumption`, `LimitAssumption`, `RiskAssumption`, `PayloadAssumption`, `BatchAssumption`,
`ScriptAssumption`. The theorems about requests one at a time also assume `PoolSize = 1`, and
`PipelineProofs!RequestsAreBounded` that a batch names finitely many services.
TLC evaluates each of them in the runs, as it does those of the modules without
proofs.

*`Counting`.* The library states induction with operators as parameters, which no
prover here can instantiate; `Climb` and `ClimbTo` state it with the set of the
numbers for which something holds, from the well-foundedness of the natural numbers.
On them rest: that the fold of the community modules is defined on every finite set
(`SummedExists`; it takes the elements in an order that depends on the set alone), that a
sum grows with its terms (`SumsGrow`) and may be taken in any order (`SumSplits`); and, of a
finite set in any order without ties, that its first n elements are n and come before
the rest (`FirstOnes`, `FirstBeforeRest`) and that it can be listed (`Listed`).

*`PipelineProofs`.* `Typing` proves `TypeOK` with `Located`: a request past detection
has a service, past correlation an incident. `Book` is the inductive invariant of the
incident book. `SeverityMatchesCount` alone is not inductive: a stale `loaded`
may equal the derived severity and suppress the write. The strengthening says
that links are only ever added (`LinksKnown`), that a request's batch is new,
finite and unlinked until it files it (`Batch`, `HeldUnlinked`, `OldRows`), that
its target belongs to its service (`Target`, `OldIncidents`), and that its copy of
the severity is never ahead of the table (`LoadedBehind`). As the
heuristic is monotone and the count only grows, derived = copy <= table <=
derived, so the skipped write changes nothing (`SkippedWrite`). From `Book` follow
`SeverityCorrect`, `LinksStable` and `NoSilentOrphans`. `TriageBeforeAlerts` needs
that past the gate the incident has a category, and that categories are never
cleared (`CategoryStays`); `MessagesAreRecorded` that a pending message is
accounted for by its request's `fired` (`Accounted`, `PendingSent`). `BurstsBounded`
counts requests in place of rows: those that have alerted an incident on a channel
in a window, and those about to, are at most `PoolSize` (`BurstInv`). A request that
sends finds no row in the window, so all of them are still being worked on
(`BurstSend`), and no more requests are than there are threads (`PoolNext`).

`NoAnomalyForgotten` follows what a request has stored (`FollowInv`): every stored anomaly has
an incident with a recent alert on each channel, or the request that filed it still works on that
incident, or failed; and the channels that request has passed were sent to, or had a recent
alert when it looked (`Passed`). Moving on to another service or ending therefore leaves none
behind (`MoverFollows`).

The refinement: every step of `Pipeline` is a step of `IncidentLedger`
or leaves it alone (`PipelineImplementsLedger`). `AttachAnomalies` is where it needs `Book`: the severity
written or skipped is the one the ledger prescribes. A commit of alerts is one
announcement since all are of one incident.

The end of the module is about a server that works on one
request at a time, for which what the documents promise holds. `Exclusive` says so of the states; it is kept because a thread is
free only when nobody is being worked on (`FreeMeansIdle`). Then nobody else writes
between what a request reads and where it relies on it (`ReadIsCurrent`): the
category at the gate, the status of the incident it attaches to, the channels it
found silent. `AlertsAgree` also needs `TriageBeforeAlerts`: a first verdict cannot
contradict an alert, as there is none. For `NoDuplicates` a request that found
no candidate must know that there is none: the candidates' update times are bounded by
the clock (`Times`), so if there were any, one would be the latest
(`NoLatestIsNone`, from the minimum of a set of numbers).

*`TopologyProofs`.* All dependents of a service are the least set closed under
dependents, so no recursion is needed. The loop invariant: the radius holds only
dependents, and the dependents of what was popped; when the work list is
empty, the radius is closed, hence all of them. That the root depends on no
candidate follows from transitivity and acyclicity by counting: dependents of the
root would be a proper subset of the candidate's. The same counting gives
`RootOfACascade`: a service on which all other failing ones depend is the one
`root_service` returns. Layers are defined by recursion over depths, which are bounded, so
that the equation has a solution is shown by counting up to the last (`SearchExists`,
`Climb`). Each layer adds a service or the search is over (`SearchIsWide`), so
there are layers enough to meet everything (`SearchMeetsAll`): `CascadeIsFaithful`. What has
failed at any moment is the root and services that depend on it (`SearchIsSound`):
`RootIsFound`. `WalksAreBounded`: a service is queued only when it joins the radius, so the
work list and the services outside the radius together become fewer with each pop,
cycles or not.

*`TriageProofs`.* What a running triage has found so far has its row and its block,
rows name agents its triage has passed, and attempts stay within bounds; the
verdict's properties follow when it is saved. `TriagesAreBounded` counts `MaxRetries` + 3 steps
an agent and one more.

*`AgentsProofs`.* That a verdict cites the best runbooks is a fact about `Best` alone
(`BestIsBest`): the sort key orders the runbooks without ties (`NearerOrders`), so the set
can be listed in its order (`Listed`), the list has every runbook of the set
(`SortedLists`), and what is behind the cut is behind all that is before it. The invariant
carries it from the retrieval to the verdict (`Retrieved`). `Heuristic` and `HeuristicUnique` characterise what the keyword
search finds. `SummaryAgrees` needs that a category, once returned, is one the
client takes as a hint (`Classified`); `ActionsSuitCategory` that root cause and actions
are what the client makes of their prompts (`Explained`, `Advised`), that a hint of the service's name
comes first in both prompts (`HintOfRemediation`), and `SameAnswer`, for prompts without a hint:
two prompts get the same category if the second mentions the first's and
nothing new that is tried earlier. `FailsOnlyOnUnknown` follows because keywords never lead to
"unknown", so that it comes from a hint (`OfflineAnswer`, `Remediation`); the hint of a name
is the incident's for good (`Described`), so that a verdict, which has actions, rules it out.

*`ServerProofs`.* `Held` says which stages have a connection, `PoolBound` that the pool is
never exceeded, `Progressed` how far a POST must be to be stored and analysed, `Known`
what an answer says. `IngestionContract` follows because 201 is set only by
a handler that returned, and in the pipeline every exception ends in a return.
`RequestsAreBounded` counts four steps a segment. `NobodyIsStuck`: if a request waits for a thread
and none is free, all threads are held by handlers, and more of them than can hang
(`HungBound`, as `MaxHung` < `Threads`). One of those is at work and goes on, or waits for a
connection and gets one or the pool's timeout.

*`SynthProofs`.* Three invariants, one on top of the other.

*Storing* (`SynthInv`): what a call stored is nothing or one stretch of the events table,
as long as its batch, and it is there exactly from the commit on, whatever the call knows
of it. `OutcomeIsTruthful` follows by counting the stretch.

*Analysing* (`AnalysisInv`): rows are only added. Each recorded or detected anomaly has its
evidence (`Justified`), which needs that no detector fires without: a z-score or weighted
mean of a series without errors is not exceeded by zero (`RateNeedsErrors`), and what is
counted as current is younger than one bucket (`CurrentBucket`). A burst whose calls have
all analysed the table is recorded or about to be (`Noticed`): each
call stores before it analyses, so the last of them to analyse has all rows before it,
and sees them all as the table is within the limit (`AllSelected`) and they are current for it
(`DetectsBurst`). If its signal was a duplicate then, the burst was on record.
`MoreErrorsNeverSilence` needs that the detectors are monotone in the current bucket
with the baseline as it is (`DetectorsKeepFiring`), and that a new row
changes no other bucket (`OneMoreError`); `LimitCutsThePast` that "newer" is an order
without ties, so that `FirstOnes` applies.

*The script* (`ScriptInv`): the calls of the loop before the last one are created, hence stored
whole, and stored before the next was sent; rows of the script therefore come in its
order, and a new row's place among them is as many as there are before it. The
count of the loop is a sum over its calls of which all but one are
full batches (`SentCounts`).

*`RiskProofs`.* The errors were counted after the events, with the same lower bound, and rows
are only added; `SumsGrow` compares the two counts. `TroubleNeverRaisesScore` is about the sum of
the three clamped terms alone; `TriesAreBounded` about the retry loop of the SDK.

**Only model-checked.** Liveness itself (`AnomalyIsAnnounced`, `TriagesEnd`, `RequestsEnd`,
`AskingEnds`, `RequestsAreAnswered`): fairness and ENABLED are outside the prover's
reach. What can be said of it without them is proved: what a request, a triage or a caller has left is a
natural number that each of its own steps lowers and nobody else changes (the theorems
`...AreBounded`), the server is never stuck (`NobodyIsStuck`), and what has ended is
announced (`NoAnomalyForgotten`). TLC's runs add the remaining step, that under the
fairness stated a step that stays possible is taken. Every other property of a passing
run is a theorem.

## 6. What is not modelled

* Texts beyond the keywords they contain: wording, regular expressions of
  signatures, redaction, confidences. Word counts and their cosine, which grade
  runbooks. The offline client always gives a final answer, which
  `Triage.FinalAnswer` covers.
* The one connection that all sessions share when the database is in memory
  (`StaticPool`, used by tests): commits of one thread would end transactions of another.
* Headers, CORS, logging, and the values the read-only endpoints return but for the
  risk score and the topology.
* The other six scenarios of the synthetic load: each draws events of fixed
  services at random rates and keeps no state. The frontend: views of the API.
* Other databases: the granularity of actions is that of SQLite.

## 7. Plan

The seams of section 2 as refinements: one composed module in which
`Ingestion` decides what `Pipeline` detects and `Triage` what it saves.
