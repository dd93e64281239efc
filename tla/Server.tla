-------------------------------- MODULE Server --------------------------------
(***************************************************************************)
(* The life of a request in the server.  Handlers are synchronous: each    *)
(* runs in one of a limited number of threads, and FastAPI needs a thread  *)
(* once more to validate what the handler returned.  The session of the    *)
(* request checks a connection out of the engine's pool at its first       *)
(* statement, gives it back at each commit and rollback, and takes one     *)
(* again at the next statement, such as the refresh after a commit.  So    *)
(* connections are held during LLM calls and beyond the handler's end,     *)
(* while other threads wait for one until the pool's timeout.              *)
(*                                                                         *)
(* A handler is a sequence of segments, each from one checkout to the next *)
(* commit.  What statements read and write is the subject of the other     *)
(* modules; here only who holds what, and what the caller is answered.     *)
(***************************************************************************)
EXTENDS Integers, FiniteSets

CONSTANTS Requests,
          Loads,       \* what the requests may ask for
          Threads,     \* tokens of the thread limiter
          Connections, \* pool_size + max_overflow of the engine
          AgentCount,  \* agents of a triage, one LLM call each
          MaxHung,     \* bound on LLM calls that never return
          None

Routes == {"health", "query", "topology", "patch", "ingest"}

ASSUME LoadAssumption == Loads \subseteq [Requests -> Routes] /\ IsFiniteSet(Requests)
ASSUME LimitAssumption ==
  /\ Threads \in Nat \ {0} /\ Connections \in Nat \ {0} /\ AgentCount \in Nat \ {0}
  /\ MaxHung \in Nat /\ MaxHung < Threads
ASSUME NoneAssumption == None \notin Nat

VARIABLES
  route,     \* the route of each request
  pc,        \* where each request is
  segment,   \* which part of its handler it runs, from one checkout to a commit
  holding,   \* requests whose session has a connection checked out
  stored,    \* POST requests whose events are committed
  analysing, \* POST requests that entered the pipeline
  reply      \* status of the answer, None before it is known

vars == <<route, pc, segment, holding, stored, analysing, reply>>

Stages == {"arrived", "resolved", "checkout", "working", "calling", "recording",
           "hung", "returned", "closing", "answered"}

\* A thread runs the handler, or waits in it.
InThread(r) == pc[r] \in {"checkout", "working", "calling", "recording", "hung"}
FreeThread == Cardinality({r \in Requests : InThread(r)}) < Threads
FreeConnection == Cardinality(holding) < Connections

(***************************************************************************)
(* The segments of a POST of events: the events are stored, refreshed and  *)
(* analysed, the anomalies correlated; each agent's audit row ends one     *)
(* segment; then the verdict, the alerts, and the refresh of the alerts.   *)
(***************************************************************************)
Store == 1
Detect == 2
Correlate == 3
FirstAgent == 4
Verdict == FirstAgent + AgentCount
Alerts == Verdict + 1
LastRefresh == Alerts + 1

Agents == FirstAgent..(Verdict - 1)
InPipeline(r) == r \in analysing

(***************************************************************************)
(* _DOMAIN_ERROR_RESPONSES and the handler of everything else.             *)
(***************************************************************************)
DomainErrorStatus ==
  [EventValidationError |-> 422, IncidentNotFound |-> 404, TriageFailed |-> 503,
   LLMTimeout |-> 504, LLMResponseInvalid |-> 502, LLMRateLimited |-> 429,
   LLMAuthError |-> 502]

Status(error) == IF error \in DOMAIN DomainErrorStatus THEN DomainErrorStatus[error] ELSE 500

Success(r) == IF route[r] = "ingest" THEN 201 ELSE 200

Init ==
  /\ route \in Loads
  /\ pc = [r \in Requests |-> "arrived"]
  /\ segment = [r \in Requests |-> 1]
  /\ holding = {} /\ stored = {} /\ analysing = {}
  /\ reply = [r \in Requests |-> None]

Goto(r, stage) == pc' = [pc EXCEPT ![r] = stage]

\* Too large, or not what the schema asks for: no handler runs, and the session,
\* if there is one, has made no statement.
Reject(r, status) ==
  /\ pc[r] = "arrived"
  /\ status \in {413, 422}
  /\ route[r] = "health" => status = 413
  /\ reply' = [reply EXCEPT ![r] = status]
  /\ Goto(r, "closing")
  /\ UNCHANGED <<route, segment, holding, stored, analysing>>

\* The dependencies, which take a thread each for a moment but no connection,
\* are resolved, and the handler gets its thread.
Enter(r) ==
  /\ pc[r] = "arrived"
  /\ FreeThread
  /\ IF route[r] = "health"
     THEN reply' = [reply EXCEPT ![r] = Success(r)] /\ Goto(r, "returned")
     ELSE UNCHANGED reply /\ Goto(r, "checkout")
  /\ UNCHANGED <<route, segment, holding, stored, analysing>>

(***************************************************************************)
(* How handlers end.  In the pipeline _run_pipeline swallows the exception *)
(* and the handler returns; elsewhere an exception handler answers.        *)
(***************************************************************************)
Return(r) ==
  /\ reply' = [reply EXCEPT ![r] = Success(r)]
  /\ Goto(r, "returned")

\* Mutant: _run_pipeline lets exceptions through.
RaiseThrough(r, error) ==
  /\ reply' = [reply EXCEPT ![r] = Status(error)]
  /\ Goto(r, "closing")

Raise(r, error) ==
  IF InPipeline(r)
  THEN Return(r)
  ELSE /\ reply' = [reply EXCEPT ![r] = Status(error)]
       /\ Goto(r, "closing")

\* An unknown level, found before the first statement.
RejectLevel(r) ==
  /\ pc[r] = "checkout" /\ segment[r] = 1 /\ route[r] \in {"ingest", "query"}
  /\ Raise(r, "EventValidationError")
  /\ UNCHANGED <<route, segment, holding, stored, analysing>>

(***************************************************************************)
(* The engine's pool.                                                      *)
(***************************************************************************)
Checkout(r) ==
  /\ pc[r] = "checkout"
  /\ FreeConnection
  /\ holding' = holding \cup {r}
  /\ Goto(r, "working")
  /\ UNCHANGED <<route, segment, stored, analysing, reply>>

\* Mutant: a pool without a timeout.
WaitOn(r) ==
  /\ pc[r] = "checkout"
  /\ ~FreeConnection
  /\ UNCHANGED vars

CheckoutTimesOut(r) ==
  /\ pc[r] = "checkout"
  /\ ~FreeConnection
  /\ Raise(r, "TimeoutError")
  /\ UNCHANGED <<route, segment, holding, stored, analysing>>

(***************************************************************************)
(* What handlers do while they hold a connection.                          *)
(***************************************************************************)
\* Segments that end with a commit, after which the next one starts with a checkout.
Commits(r) ==
  \/ pc[r] = "recording"
  \/ /\ pc[r] = "working"
     /\ \/ route[r] = "patch" /\ segment[r] = 1
        \/ /\ route[r] = "ingest"
           /\ \/ segment[r] \in {Store, Correlate, Verdict, Alerts}
              \/ segment[r] = Detect /\ InPipeline(r)

Commit(r) ==
  /\ Commits(r)
  /\ stored' = IF route[r] = "ingest" THEN stored \cup {r} ELSE stored
  /\ holding' = holding \ {r}
  /\ segment' = [segment EXCEPT ![r] = @ + 1]
  /\ Goto(r, "checkout")
  /\ UNCHANGED <<route, analysing, reply>>

\* The events are refreshed and the answer is ready: _run_pipeline begins.
BeginAnalysis(r) ==
  /\ pc[r] = "working"
  /\ route[r] = "ingest" /\ segment[r] = Detect /\ r \notin analysing
  /\ analysing' = analysing \cup {r}
  /\ UNCHANGED <<route, pc, segment, holding, stored, reply>>

\* The incident has a category: no agent runs, and the segment goes on with the
\* rate limits of the alerts.
SkipTriage(r) ==
  /\ pc[r] = "working"
  /\ route[r] = "ingest" /\ segment[r] = FirstAgent
  /\ segment' = [segment EXCEPT ![r] = Alerts]
  /\ UNCHANGED <<route, pc, holding, stored, analysing, reply>>

CallLLM(r) ==
  /\ pc[r] = "working"
  /\ route[r] = "ingest" /\ segment[r] \in Agents
  /\ Goto(r, "calling")
  /\ UNCHANGED <<route, segment, holding, stored, analysing, reply>>

\* An answer, or one of the failures the agent has a fallback for.
LLMReturns(r) ==
  /\ pc[r] = "calling"
  /\ Goto(r, "recording")
  /\ UNCHANGED <<route, segment, holding, stored, analysing, reply>>

\* The provider never answers, and the client has no timeout.
Hang(r) ==
  /\ pc[r] = "calling"
  /\ Cardinality({q \in Requests : pc[q] = "hung"}) < MaxHung
  /\ Goto(r, "hung")
  /\ UNCHANGED <<route, segment, holding, stored, analysing, reply>>

\* Segments after which a handler may be through: nothing new was detected, or every
\* channel is within its rate limit, or there is no statement left.
MayFinish(r) ==
  \/ route[r] = "query"
  \/ route[r] \in {"patch", "topology"} /\ segment[r] = 2
  \/ /\ route[r] = "ingest" /\ InPipeline(r)
     /\ segment[r] \in {Detect, Alerts, LastRefresh}

Finish(r) ==
  /\ pc[r] = "working"
  /\ MayFinish(r)
  /\ Return(r)
  /\ UNCHANGED <<route, segment, holding, stored, analysing>>

\* get_topology_engine, a dependency, reads the graph: the session keeps its
\* connection while the request waits for a thread for the handler.
ResolveTopology(r) ==
  /\ pc[r] = "working"
  /\ route[r] = "topology" /\ segment[r] = 1
  /\ segment' = [segment EXCEPT ![r] = 2]
  /\ Goto(r, "resolved")
  /\ UNCHANGED <<route, holding, stored, analysing, reply>>

EnterResolved(r) ==
  /\ pc[r] = "resolved"
  /\ FreeThread
  /\ Goto(r, "working")
  /\ UNCHANGED <<route, segment, holding, stored, analysing, reply>>

NotFound(r) ==
  /\ pc[r] = "working" /\ segment[r] = 1 /\ route[r] \in {"query", "patch"}
  /\ Raise(r, "IncidentNotFound")
  /\ UNCHANGED <<route, segment, holding, stored, analysing>>

\* The database, the log file, a channel, or the LLM's transport: what a failed flush
\* rolls back gives the connection back at once, other exceptions do not.
Fail(r) ==
  /\ pc[r] \in {"working", "calling", "recording"}
  /\ holding' \in {holding, holding \ {r}}
  /\ Raise(r, "Exception")
  /\ UNCHANGED <<route, segment, stored, analysing>>

(***************************************************************************)
(* The end of a request.                                                   *)
(***************************************************************************)
\* FastAPI validates the answer in a thread, before the session is closed.
Validate(r) ==
  /\ pc[r] = "returned"
  /\ FreeThread
  /\ Goto(r, "closing")
  /\ UNCHANGED <<route, segment, holding, stored, analysing, reply>>

\* Mutant: get_db closes the session only when nothing was raised.
CloseAfterSuccess(r) ==
  /\ pc[r] = "closing"
  /\ holding' = IF reply[r] = Success(r) THEN holding \ {r} ELSE holding
  /\ Goto(r, "answered")
  /\ UNCHANGED <<route, segment, stored, analysing, reply>>

\* The finally of get_db, for which no thread of the limiter is needed, then the answer.
Close(r) ==
  /\ pc[r] = "closing"
  /\ holding' = holding \ {r}
  /\ Goto(r, "answered")
  /\ UNCHANGED <<route, segment, stored, analysing, reply>>

Step(r) ==
  \/ \E status \in {413, 422} : Reject(r, status)
  \/ Enter(r) \/ RejectLevel(r)
  \/ Checkout(r) \/ CheckoutTimesOut(r)
  \/ Commit(r) \/ BeginAnalysis(r) \/ SkipTriage(r) \/ CallLLM(r) \/ LLMReturns(r)
  \/ Finish(r) \/ ResolveTopology(r) \/ EnterResolved(r) \/ NotFound(r) \/ Fail(r)
  \/ Validate(r) \/ Close(r)

\* Every request was answered, or hangs.
Quiescent ==
  /\ \A r \in Requests : pc[r] \in {"answered", "hung"}
  /\ UNCHANGED vars

Next ==
  \/ \E r \in Requests : Step(r) \/ Hang(r)
  \/ Quiescent

\* Threads are scheduled, a wait for a connection ends with one or with the pool's
\* timeout, and every LLM call returns but those that hang.
Fairness == \A r \in Requests : WF_vars(Step(r))

Spec == Init /\ [][Next]_vars
FairSpec == Spec /\ Fairness

(***************************************************************************)
(* Properties.                                                             *)
(***************************************************************************)
\* Every variable has its type.
TypeOK ==
  /\ route \in [Requests -> Routes]
  /\ pc \in [Requests -> Stages]
  /\ segment \in [Requests -> 1..LastRefresh]
  /\ holding \subseteq Requests /\ stored \subseteq Requests /\ analysing \subseteq Requests
  /\ reply \in [Requests -> Nat \cup {None}]

\* A session has a connection exactly while its handler needs one, and none is left
\* behind by an exception or a timeout: not before the first statement, not while it
\* waits for another, always during an LLM call, and never after the answer.  Hence the
\* pool bounds the LLM calls in flight.
ConnectionsAccounted ==
  /\ \A r \in Requests :
       /\ r \in holding => pc[r] \notin {"arrived", "checkout", "answered"}
       /\ pc[r] \in {"resolved", "working", "calling", "recording", "hung"} => r \in holding
  /\ Cardinality({r \in Requests : pc[r] \in {"calling", "hung"}}) <= Connections

\* "If the API returned 201, the events are persisted", and once the pipeline has
\* begun, nothing that happens in it, running out of connections included, changes
\* the answer; without 201 the pipeline never began.
IngestionContract ==
  \A r \in Requests :
    route[r] = "ingest" /\ reply[r] # None =>
      /\ reply[r] = 201 <=> r \in analysing
      /\ r \in analysing => r \in stored
      /\ reply[r] \in {413, 422} => r \notin stored

\* Every request is answered, although threads wait for connections whose holders
\* wait for a thread, and some LLM calls never return.
RequestsAreAnswered ==
  \A r \in Requests : pc[r] = "arrived" ~> pc[r] \in {"answered", "hung"}
=============================================================================
