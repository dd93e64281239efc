----------------------------- MODULE ServerProofs -----------------------------
(* Theorems about Server, for any number of requests, threads, connections and agents. *)
EXTENDS Server, FiniteSetTheorems, TLAPS

(***************************************************************************)
(* The inductive invariant: who holds a connection where, how far a POST   *)
(* is in each segment, and where answers are known.                        *)
(***************************************************************************)
Held ==
  \A r \in Requests :
    /\ r \in holding => pc[r] \notin {"arrived", "checkout", "answered"}
    /\ pc[r] \in {"resolved", "working", "calling", "recording", "hung"} => r \in holding

Progressed ==
  \A r \in Requests :
    /\ pc[r] = "arrived" => segment[r] = 1
    /\ pc[r] \in {"calling", "recording"} => segment[r] \in Agents
    /\ r \in analysing => r \in stored /\ route[r] = "ingest"
    /\ r \in stored => segment[r] # Store
    /\ route[r] = "ingest" /\ segment[r] # Store => r \in stored
    /\ route[r] = "ingest" /\ segment[r] \notin {Store, Detect} => r \in analysing
    /\ pc[r] \in {"calling", "recording"} => route[r] = "ingest"

Known ==
  \A r \in Requests :
    /\ reply[r] # None => pc[r] \in {"returned", "closing", "answered"}
    /\ route[r] = "ingest" /\ reply[r] # None =>
         /\ reply[r] = 201 <=> r \in analysing
         /\ reply[r] \in {413, 422} => segment[r] = Store

PoolBound == Cardinality(holding) <= Connections

ServerInv == TypeOK /\ Held /\ Progressed /\ Known /\ PoolBound

(***************************************************************************)
(* Arithmetic of the segments and the statuses.                            *)
(***************************************************************************)
LEMMA Segments ==
  /\ Store = 1 /\ Detect = 2 /\ Correlate = 3 /\ FirstAgent = 4
  /\ Verdict \in Nat /\ Verdict >= 5 /\ Alerts = Verdict + 1 /\ LastRefresh = Verdict + 2
  /\ Agents = 4..(Verdict - 1)
  BY LimitAssumption DEF Store, Detect, Correlate, FirstAgent, Verdict, Alerts, LastRefresh,
                         Agents

LEMMA Statuses ==
  /\ \A e \in {"EventValidationError", "IncidentNotFound", "TimeoutError", "Exception"} :
       Status(e) \in Nat /\ Status(e) # 201 /\ Status(e) # 413
  /\ Status("EventValidationError") = 422
  /\ \A e \in {"IncidentNotFound", "TimeoutError", "Exception"} : Status(e) # 422
  BY DEF Status, DomainErrorStatus

LEMMA HoldersFinite == ASSUME TypeOK PROVE IsFiniteSet(holding)
  BY LoadAssumption, FS_Subset DEF TypeOK

LEMMA InitServer == ASSUME Init PROVE ServerInv
  <1>1. TypeOK
    BY LoadAssumption, LimitAssumption, Segments DEF Init, TypeOK, Stages
  <1>2. Held /\ Progressed /\ Known
    BY Segments DEF Init, Held, Progressed, Known
  <1>3. PoolBound
    BY FS_EmptySet, LimitAssumption DEF Init, PoolBound
  <1> QED
    BY <1>1, <1>2, <1>3 DEF ServerInv

(***************************************************************************)
(* The pool: only Checkout takes a connection, and it found one free.      *)
(***************************************************************************)
LEMMA FewerHolders ==
  ASSUME TypeOK, PoolBound, holding' \subseteq holding
  PROVE  PoolBound'
  <1>1. IsFiniteSet(holding)
    BY HoldersFinite
  <1>2. Cardinality(holding') <= Cardinality(holding) /\ Cardinality(holding') \in Nat
    BY <1>1, FS_Subset, FS_CardinalityType
  <1>3. Cardinality(holding) \in Nat
    BY <1>1, FS_CardinalityType
  <1> QED
    BY <1>2, <1>3, LimitAssumption DEF PoolBound

LEMMA OneMoreHolder ==
  ASSUME TypeOK, NEW r \in Requests, FreeConnection, holding' = holding \cup {r}
  PROVE  PoolBound'
  <1>1. IsFiniteSet(holding)
    BY HoldersFinite
  <1>2. Cardinality(holding) \in Nat
    BY <1>1, FS_CardinalityType
  <1>3. CASE r \in holding
    <2>1. holding' = holding
      BY <1>3
    <2> QED
      BY <1>2, <2>1, LimitAssumption DEF PoolBound, FreeConnection
  <1>4. CASE r \notin holding
    <2>1. Cardinality(holding') = Cardinality(holding) + 1
      BY <1>1, <1>4, FS_AddElement
    <2> QED
      BY <1>2, <2>1, LimitAssumption DEF PoolBound, FreeConnection
  <1> QED
    BY <1>3, <1>4

LEMMA StepPool ==
  ASSUME ServerInv, NEW r \in Requests, Step(r)
  PROVE  PoolBound'
  <1> USE DEF ServerInv
  <1>1. CASE Checkout(r)
    BY <1>1, OneMoreHolder DEF Checkout
  <1>2. CASE ~Checkout(r)
    <2>1. holding' \subseteq holding
      BY <1>2 DEF Step, Reject, Enter, RejectLevel, CheckoutTimesOut, Commit, BeginAnalysis,
                  SkipTriage, CallLLM, LLMReturns, Finish, ResolveTopology, EnterResolved,
                  NotFound, Fail, Validate, Close
    <2> QED
      BY <2>1, FewerHolders
  <1> QED
    BY <1>1, <1>2

(***************************************************************************)
(* One step preserves the rest of the invariant.                           *)
(***************************************************************************)
Rest == TypeOK /\ Held /\ Progressed /\ Known

\* The step from the handler's end, whose answer is known.
Answers(r) ==
  /\ pc[r] \notin {"arrived", "returned", "closing", "answered"}
  /\ pc' = [pc EXCEPT ![r] = pc'[r]] /\ pc'[r] \in {"returned", "closing"}
  /\ reply' = [reply EXCEPT ![r] = reply'[r]] /\ reply'[r] \in Nat
  /\ holding' = holding \/ (pc[r] # "checkout" /\ holding' = holding \ {r})
  /\ UNCHANGED <<route, segment, stored, analysing>>

LEMMA EndOfHandler ==
  ASSUME Rest, NEW r \in Requests, Answers(r),
         route[r] = "ingest" => (reply'[r] = 201 <=> r \in analysing),
         route[r] = "ingest" /\ reply'[r] \in {413, 422} => segment[r] = Store
  PROVE  Rest'
  <1> USE DEF Rest, Answers
  <1>1. TypeOK'
    BY DEF TypeOK, Stages
  <1>2. Held'
    BY DEF Held, TypeOK
  <1>3. Progressed'
    BY DEF Progressed, TypeOK
  <1>4. Known'
    BY DEF Known, TypeOK
  <1> QED
    BY <1>1, <1>2, <1>3, <1>4

Stays(r) ==
  /\ pc[r] \notin {"arrived", "returned", "closing", "answered"}
  /\ holding' = holding \/ (pc[r] # "checkout" /\ holding' = holding \ {r})
  /\ UNCHANGED <<route, segment, stored, analysing>>

LEMMA EndByReturn ==
  ASSUME Rest, NEW r \in Requests, Stays(r), Return(r),
         route[r] = "ingest" => r \in analysing
  PROVE  Rest'
  <1>1. reply'[r] = Success(r) /\ Answers(r)
    BY DEF Return, Success, Goto, Rest, TypeOK, Stays, Answers
  <1>2. route[r] = "ingest" => reply'[r] = 201
    BY <1>1 DEF Success
  <1> QED
    BY <1>1, <1>2, EndOfHandler

LEMMA EndByRaise ==
  ASSUME Rest, NEW r \in Requests, Stays(r),
         NEW error \in {"EventValidationError", "IncidentNotFound", "TimeoutError", "Exception"},
         Raise(r, error),
         error = "EventValidationError" => segment[r] = Store
  PROVE  Rest'
  <1>1. CASE r \in analysing
    BY <1>1, EndByReturn DEF Raise, InPipeline
  <1>2. CASE r \notin analysing
    <2>1. /\ Status(error) \in Nat /\ Status(error) \notin {201, 413}
          /\ Status(error) = 422 => segment[r] = Store
      BY Statuses
    <2>2. reply'[r] = Status(error) /\ Answers(r)
      BY <1>2, <2>1 DEF Raise, InPipeline, Goto, Rest, TypeOK, Stays, Answers
    <2> QED
      BY <1>2, <2>1, <2>2, EndOfHandler
  <1> QED
    BY <1>1, <1>2

LEMMA StepRest ==
  ASSUME Rest, NEW r \in Requests, Step(r) \/ Hang(r)
  PROVE  Rest'
  <1> USE Segments, NoneAssumption DEF Goto
  <1>1. ASSUME NEW status \in {413, 422}, Reject(r, status) PROVE Rest'
    BY <1>1 DEF Reject, Rest, TypeOK, Stages, Held, Progressed, Known
  <1>2. CASE Enter(r)
    <2>1. /\ pc[r] = "arrived" /\ pc' = [pc EXCEPT ![r] = pc'[r]]
          /\ pc'[r] \in {"returned", "checkout"}
          /\ route' = route /\ segment' = segment /\ holding' = holding
          /\ stored' = stored /\ analysing' = analysing
      BY <1>2 DEF Enter, Rest, TypeOK
    <2>2. \/ reply' = reply
          \/ reply' = [reply EXCEPT ![r] = 200] /\ pc'[r] = "returned" /\ route[r] = "health"
      BY <1>2 DEF Enter, Success, Rest, TypeOK
    <2>3. TypeOK' /\ Held' /\ Progressed'
      BY <2>1, <2>2 DEF Rest, TypeOK, Stages, Held, Progressed
    <2>4. Known'
      BY <2>1, <2>2 DEF Rest, TypeOK, Known
    <2> QED
      BY <2>3, <2>4 DEF Rest
  <1>3. CASE RejectLevel(r)
    <2>1. Stays(r)
      BY <1>3 DEF RejectLevel, Stays
    <2>2. Raise(r, "EventValidationError")
      BY <1>3 DEF RejectLevel
    <2>3. segment[r] = Store
      BY <1>3 DEF RejectLevel
    <2> QED
      BY <2>1, <2>2, <2>3, EndByRaise
  <1>4. CASE Checkout(r)
    BY <1>4 DEF Checkout, Rest, TypeOK, Stages, Held, Progressed, Known
  <1>5. CASE CheckoutTimesOut(r)
    <2>1. Stays(r)
      BY <1>5 DEF CheckoutTimesOut, Stays
    <2>2. Raise(r, "TimeoutError")
      BY <1>5 DEF CheckoutTimesOut
    <2> QED
      BY <2>1, <2>2, EndByRaise
  <1>6. CASE Commit(r)
    <2>1. segment[r] + 1 \in 1..LastRefresh
      BY <1>6 DEF Commit, Commits, Rest, TypeOK, Progressed
    <2> QED
      BY <1>6, <2>1 DEF Commit, Commits, InPipeline, Rest, TypeOK, Stages, Held, Progressed, Known
  <1>7. CASE BeginAnalysis(r)
    BY <1>7 DEF BeginAnalysis, Rest, TypeOK, Stages, Held, Progressed, Known
  <1>8. CASE SkipTriage(r)
    BY <1>8 DEF SkipTriage, Rest, TypeOK, Stages, Held, Progressed, Known
  <1>9. CASE CallLLM(r)
    BY <1>9 DEF CallLLM, Rest, TypeOK, Stages, Held, Progressed, Known
  <1>10. CASE LLMReturns(r)
    BY <1>10 DEF LLMReturns, Rest, TypeOK, Stages, Held, Progressed, Known
  <1>11. CASE Finish(r)
    <2>1. Stays(r) /\ Return(r) /\ (route[r] = "ingest" => r \in analysing)
      BY <1>11 DEF Finish, MayFinish, InPipeline, Stays
    <2> QED
      BY <2>1, EndByReturn
  <1>12. CASE ResolveTopology(r)
    BY <1>12 DEF ResolveTopology, Rest, TypeOK, Stages, Held, Progressed, Known
  <1>13. CASE EnterResolved(r)
    BY <1>13 DEF EnterResolved, Rest, TypeOK, Stages, Held, Progressed, Known
  <1>14. CASE NotFound(r)
    <2>1. Stays(r)
      BY <1>14 DEF NotFound, Stays
    <2>2. Raise(r, "IncidentNotFound")
      BY <1>14 DEF NotFound
    <2> QED
      BY <2>1, <2>2, EndByRaise
  <1>15. CASE Fail(r)
    <2>1. Stays(r)
      BY <1>15 DEF Fail, Stays
    <2>2. Raise(r, "Exception")
      BY <1>15 DEF Fail
    <2> QED
      BY <2>1, <2>2, EndByRaise
  <1>16. CASE Validate(r)
    BY <1>16 DEF Validate, Rest, TypeOK, Stages, Held, Progressed, Known
  <1>17. CASE Close(r)
    BY <1>17 DEF Close, Rest, TypeOK, Stages, Held, Progressed, Known
  <1>18. CASE Hang(r)
    BY <1>18 DEF Hang, Rest, TypeOK, Stages, Held, Progressed, Known
  <1> QED
    BY <1>1, <1>2, <1>3, <1>4, <1>5, <1>6, <1>7, <1>8, <1>9, <1>10, <1>11, <1>12, <1>13,
       <1>14, <1>15, <1>16, <1>17, <1>18 DEF Step

(***************************************************************************)
(* Theorems.                                                               *)
(***************************************************************************)
\* The invariant holds in every reachable state.
THEOREM Invariance == Spec => []ServerInv
  <1>1. ServerInv /\ [Next]_vars => ServerInv'
    <2> SUFFICES ASSUME ServerInv, [Next]_vars PROVE ServerInv'
      OBVIOUS
    <2>1. CASE UNCHANGED vars
      BY <2>1 DEF vars, ServerInv, TypeOK, Held, Progressed, Known, PoolBound
    <2>2. ASSUME NEW r \in Requests, Step(r) PROVE ServerInv'
      BY <2>2, StepRest, StepPool DEF ServerInv, Rest
    <2>3. ASSUME NEW r \in Requests, Hang(r) PROVE ServerInv'
      <3>1. holding' \subseteq holding
        BY <2>3 DEF Hang
      <3> QED
        BY <2>3, <3>1, StepRest, FewerHolders DEF ServerInv, Rest
    <2> QED
      BY <2>1, <2>2, <2>3 DEF Next, Quiescent
  <1> QED
    BY <1>1, InitServer, PTL DEF Spec

\* Every variable keeps its type.
THEOREM TypeCorrect == Spec => []TypeOK
  <1>1. ServerInv => TypeOK
    BY DEF ServerInv
  <1> QED
    BY <1>1, Invariance, PTL

\* A session has a connection exactly while its handler needs one, whatever fails, and
\* the pool bounds the LLM calls in flight.
THEOREM ConnectionsCorrect == Spec => []ConnectionsAccounted
  <1>1. ServerInv => ConnectionsAccounted
    <2> SUFFICES ASSUME ServerInv PROVE ConnectionsAccounted
      OBVIOUS
    <2> DEFINE InCall == {r \in Requests : pc[r] \in {"calling", "hung"}}
    <2>1. InCall \subseteq holding
      BY DEF ServerInv, Held
    <2>2. IsFiniteSet(holding)
      BY HoldersFinite DEF ServerInv
    <2>3. /\ Cardinality(InCall) <= Cardinality(holding)
          /\ Cardinality(InCall) \in Nat /\ Cardinality(holding) \in Nat
      BY <2>1, <2>2, FS_Subset, FS_CardinalityType
    <2>4. Cardinality(InCall) <= Connections
      BY <2>3, LimitAssumption DEF ServerInv, PoolBound
    <2> QED
      BY <2>4 DEF ConnectionsAccounted, ServerInv, Held
  <1> QED
    BY <1>1, Invariance, PTL

\* 201 means stored, and what happens in the pipeline never changes an answer.
THEOREM IngestionContractHolds == Spec => []IngestionContract
  <1>1. ServerInv => IngestionContract
    BY Segments DEF ServerInv, IngestionContract, Progressed, Known
  <1> QED
    BY <1>1, Invariance, PTL

(***************************************************************************)
(* A request takes a bounded number of steps: what is left is a natural    *)
(* number that each of its steps lowers and no other request changes.      *)
(***************************************************************************)
\* A segment is a checkout, a call, its return and a commit at most; then the answer is
\* validated and the session closed.
StepsOfSegment(r) == IF pc[r] \in {"checkout", "resolved"} THEN 4
                     ELSE IF pc[r] = "working" THEN 3
                     ELSE IF pc[r] = "calling" THEN 2
                     ELSE 1

StepsLeft(r) ==
  IF pc[r] \in {"answered", "hung"} THEN 0
  ELSE IF pc[r] = "closing" THEN 1
  ELSE IF pc[r] = "returned" THEN 2
  ELSE IF pc[r] = "arrived" THEN 4 * LastRefresh + 4
  ELSE 4 * (LastRefresh - segment[r]) + StepsOfSegment(r)
         + (IF r \in analysing THEN 2 ELSE 3)

\* Nothing is left exactly when the request was answered or hangs.
StepsCounted ==
  \A r \in Requests : /\ StepsLeft(r) \in Nat
                      /\ StepsLeft(r) = 0 <=> pc[r] \in {"answered", "hung"}

\* Each step of a request lowers what it has left, and only its steps change it.
StepsRunOut ==
  [][\A r \in Requests :
       /\ Step(r) \/ Hang(r) => StepsLeft(r)' < StepsLeft(r)
       /\ StepsLeft(r)' # StepsLeft(r) => Step(r) \/ Hang(r)]_vars

LEMMA StepsAreCounted == ASSUME TypeOK PROVE StepsCounted
  <1> SUFFICES ASSUME NEW r \in Requests
               PROVE  StepsLeft(r) \in Nat /\ (StepsLeft(r) = 0 <=> pc[r] \in {"answered", "hung"})
    BY DEF StepsCounted
  <1>1. LastRefresh \in Nat /\ segment[r] \in 1..LastRefresh
    BY Segments DEF TypeOK
  <1> QED
    BY <1>1 DEF StepsLeft, StepsOfSegment

LEMMA StepShortens ==
  ASSUME TypeOK, Progressed, NEW r \in Requests, Step(r) \/ Hang(r)
  PROVE  StepsLeft(r)' < StepsLeft(r)
  <1>1. /\ LastRefresh \in Nat /\ segment[r] \in 1..LastRefresh
        /\ pc[r] = "arrived" => segment[r] = 1
        /\ \A stage : Goto(r, stage) => pc'[r] = stage
        /\ segment \in [Requests -> 1..LastRefresh]
    BY Segments DEF TypeOK, Progressed, Goto
  <1>2. CASE pc'[r] \in {"returned", "closing", "answered", "hung"}
    BY <1>1, <1>2
       DEF StepsLeft, StepsOfSegment, Step, Hang, Reject, Enter, RejectLevel, Checkout,
           CheckoutTimesOut, Commit, Commits, BeginAnalysis, SkipTriage, CallLLM, LLMReturns,
           Finish, ResolveTopology, EnterResolved, NotFound, Fail, Validate, Close, Raise, Return
  <1>3. ASSUME pc'[r] \notin {"returned", "closing", "answered", "hung"}
        PROVE  \/ Enter(r) \/ Checkout(r) \/ Commit(r) \/ BeginAnalysis(r) \/ SkipTriage(r)
               \/ CallLLM(r) \/ LLMReturns(r) \/ ResolveTopology(r) \/ EnterResolved(r)
    BY <1>1, <1>3
       DEF Step, Hang, Reject, RejectLevel, CheckoutTimesOut, Finish, NotFound, Fail, Validate,
           Close, Raise, Return
  <1>4. ASSUME Enter(r), pc'[r] # "returned" PROVE StepsLeft(r)' < StepsLeft(r)
    BY <1>1, <1>4 DEF Enter, StepsLeft, StepsOfSegment
  <1>5. CASE Checkout(r) \/ CallLLM(r) \/ LLMReturns(r) \/ EnterResolved(r)
    BY <1>1, <1>5 DEF Checkout, CallLLM, LLMReturns, EnterResolved, StepsLeft, StepsOfSegment
  <1>6. CASE Commit(r)
    <2>1. pc[r] \in {"working", "recording"} /\ pc'[r] = "checkout" /\ analysing' = analysing
      BY <1>1, <1>6 DEF Commit, Commits
    <2>2. segment'[r] = segment[r] + 1
      BY <1>6 DEF Commit, TypeOK
    <2> QED
      BY <1>1, <2>1, <2>2 DEF StepsLeft, StepsOfSegment
  <1>7. CASE BeginAnalysis(r)
    BY <1>1, <1>7 DEF BeginAnalysis, StepsLeft, StepsOfSegment
  <1>8. CASE SkipTriage(r)
    <2>1. segment[r] = 4 /\ segment'[r] = Alerts /\ Alerts \in Nat /\ Alerts > 4
      BY <1>1, <1>8, Segments DEF SkipTriage
    <2> QED
      BY <1>1, <1>8, <2>1 DEF SkipTriage, StepsLeft, StepsOfSegment
  <1>9. CASE ResolveTopology(r)
    BY <1>1, <1>9 DEF ResolveTopology, StepsLeft, StepsOfSegment
  <1> QED
    BY <1>2, <1>3, <1>4, <1>5, <1>6, <1>7, <1>8, <1>9

LEMMA OthersDoNotMatter ==
  ASSUME TypeOK, NEW r \in Requests, NEW q \in Requests, q # r, Step(q) \/ Hang(q)
  PROVE  StepsLeft(r)' = StepsLeft(r)
  <1>1. pc'[r] = pc[r] /\ segment'[r] = segment[r] /\ (r \in analysing' <=> r \in analysing)
    BY DEF TypeOK, Step, Hang, Reject, Enter, RejectLevel, Checkout, CheckoutTimesOut, Commit,
           BeginAnalysis, SkipTriage, CallLLM, LLMReturns, Finish, ResolveTopology,
           EnterResolved, NotFound, Fail, Validate, Close, Raise, Return, Goto
  <1> QED
    BY <1>1 DEF StepsLeft, StepsOfSegment

\* A request takes at most four steps a segment, and four more, whatever the other
\* requests do.
THEOREM RequestsAreBounded == Spec => []StepsCounted /\ StepsRunOut
  <1>1. ASSUME ServerInv, Next, NEW r \in Requests
        PROVE  /\ Step(r) \/ Hang(r) => StepsLeft(r)' < StepsLeft(r)
               /\ StepsLeft(r)' # StepsLeft(r) => Step(r) \/ Hang(r)
    <2>1. Step(r) \/ Hang(r) => StepsLeft(r)' < StepsLeft(r)
      BY <1>1, StepShortens DEF ServerInv
    <2>2. UNCHANGED vars => StepsLeft(r)' = StepsLeft(r)
      BY DEF vars, StepsLeft, StepsOfSegment
    <2>3. Step(r) \/ Hang(r) \/ StepsLeft(r)' = StepsLeft(r)
      BY <1>1, <2>2, OthersDoNotMatter DEF ServerInv, Next, Quiescent
    <2> QED
      BY <2>1, <2>3
  <1>2. ASSUME ServerInv, [Next]_vars
        PROVE  [\A r \in Requests :
                  /\ Step(r) \/ Hang(r) => StepsLeft(r)' < StepsLeft(r)
                  /\ StepsLeft(r)' # StepsLeft(r) => Step(r) \/ Hang(r)]_vars
    BY <1>1, <1>2
  <1>3. ServerInv => StepsCounted
    BY StepsAreCounted DEF ServerInv
  <1> QED
    BY <1>2, <1>3, Invariance, PTL DEF Spec, StepsRunOut

(***************************************************************************)
(* Nobody is stuck: while a request is not through, some request has a     *)
(* step that is no failure of its handler.  Threads wait for connections   *)
(* and holders of connections for threads, but a wait for a connection     *)
(* ends with the pool's timeout, and hung LLM calls leave a thread.        *)
(***************************************************************************)
\* Where the handler of each route can be.
Routed ==
  \A r \in Requests : pc[r] \notin {"arrived", "returned", "closing", "answered"} =>
    /\ route[r] # "health"
    /\ route[r] = "query" => segment[r] = 1 /\ pc[r] # "resolved"
    /\ route[r] \in {"patch", "topology"} => segment[r] \in {1, 2}
    /\ pc[r] = "resolved" => route[r] = "topology" /\ segment[r] = 2

Hung == {r \in Requests : pc[r] = "hung"}
HungBound == Cardinality(Hung) <= MaxHung

Going(r) ==
  /\ pc[r] = "working"
  /\ \/ Commits(r) \/ MayFinish(r)
     \/ route[r] = "topology" /\ segment[r] = 1
     \/ route[r] = "ingest" /\ (segment[r] \in Agents \/ (segment[r] = Detect /\ r \notin analysing))

\* A request that can go on now: Enter, EnterResolved and Validate need a thread;
\* Checkout and CheckoutTimesOut share their stage between them.
Movable(r) ==
  \/ pc[r] \in {"arrived", "resolved", "returned"} /\ FreeThread
  \/ pc[r] \in {"checkout", "calling", "recording", "closing"}
  \/ Going(r)

\* While a request is neither answered nor hung, a request can go on.
SomeoneMoves ==
  (\E r \in Requests : pc[r] \notin {"answered", "hung"}) => \E r \in Requests : Movable(r)

LEMMA RoutesKept ==
  ASSUME ServerInv, Routed, NEW r \in Requests, Step(r) \/ Hang(r)
  PROVE  Routed'
  <1> DEFINE Inside(q) == pc[q] \notin {"arrived", "returned", "closing", "answered"}
             Proper(q) ==
               /\ route[q] # "health"
               /\ route[q] = "query" => segment[q] = 1 /\ pc[q] # "resolved"
               /\ route[q] \in {"patch", "topology"} => segment[q] \in {1, 2}
               /\ pc[q] = "resolved" => route[q] = "topology" /\ segment[q] = 2
  <1>1. /\ pc \in [Requests -> Stages] /\ segment \in [Requests -> 1..LastRefresh]
        /\ route \in [Requests -> Routes] /\ route' = route
    BY DEF ServerInv, TypeOK, Step, Hang, Reject, Enter, RejectLevel, Checkout,
           CheckoutTimesOut, Commit, BeginAnalysis, SkipTriage, CallLLM, LLMReturns, Finish,
           ResolveTopology, EnterResolved, NotFound, Fail, Validate, Close
  <1>2. \A q \in Requests \ {r} : pc'[q] = pc[q] /\ segment'[q] = segment[q]
    BY <1>1 DEF Step, Hang, Reject, Enter, RejectLevel, Checkout, CheckoutTimesOut, Commit,
                BeginAnalysis, SkipTriage, CallLLM, LLMReturns, Finish, ResolveTopology,
                EnterResolved, NotFound, Fail, Validate, Close, Raise, Return, Goto
  <1>3. ASSUME pc'[r] \notin {"returned", "closing", "answered"}
        PROVE  \/ Enter(r) \/ Checkout(r) \/ Commit(r) \/ BeginAnalysis(r) \/ SkipTriage(r)
               \/ CallLLM(r) \/ LLMReturns(r) \/ ResolveTopology(r) \/ EnterResolved(r)
               \/ Hang(r)
    BY <1>1, <1>3
       DEF Step, Reject, RejectLevel, CheckoutTimesOut, Finish, NotFound, Fail, Validate,
           Close, Raise, Return, Goto
  <1>4. ASSUME Inside(r)' PROVE Proper(r)'
    <2>1. CASE Enter(r)
      <3>1. segment[r] = 1 /\ pc[r] = "arrived"
        BY <2>1 DEF Enter, ServerInv, Progressed
      <3>2. pc'[r] = "checkout" /\ route[r] # "health" /\ segment' = segment
        BY <1>1, <1>4, <2>1 DEF Enter, Goto
      <3> QED
        BY <1>1, <3>1, <3>2
    <2>2. CASE Commit(r)
      <3>1. /\ pc[r] \in {"working", "recording"} /\ pc'[r] = "checkout"
            /\ segment'[r] = segment[r] + 1
            /\ route[r] = "ingest" \/ (route[r] = "patch" /\ segment[r] = 1)
        BY <1>1, <2>2 DEF Commit, Commits, Goto, ServerInv, Progressed
      <3> QED
        BY <1>1, <3>1
    <2>3. CASE Checkout(r) \/ BeginAnalysis(r) \/ CallLLM(r) \/ LLMReturns(r) \/ Hang(r)
               \/ EnterResolved(r)
      BY <1>1, <2>3 DEF Checkout, BeginAnalysis, CallLLM, LLMReturns, Hang, EnterResolved,
                        Goto, Routed
    <2>4. CASE SkipTriage(r)
      BY <1>1, <2>4 DEF SkipTriage
    <2>5. CASE ResolveTopology(r)
      BY <1>1, <2>5 DEF ResolveTopology, Goto
    <2> QED
      BY <1>3, <1>4, <2>1, <2>2, <2>3, <2>4, <2>5
  <1>5. \A q \in Requests \ {r} : Inside(q)' => Proper(q)'
    BY <1>1, <1>2 DEF Routed
  <1> QED
    BY <1>4, <1>5 DEF Routed

LEMMA HangsBounded ==
  ASSUME ServerInv, HungBound, NEW r \in Requests, Step(r) \/ Hang(r)
  PROVE  HungBound'
  <1>1. IsFiniteSet(Hung) /\ Cardinality(Hung) \in Nat
    BY LoadAssumption, FS_Subset, FS_CardinalityType DEF Hung
  <1>2. pc \in [Requests -> Stages]
    BY DEF ServerInv, TypeOK
  <1>3. CASE Hang(r)
    <2>1. Hung' = Hung \cup {r} /\ Cardinality(Hung) < MaxHung
      BY <1>2, <1>3 DEF Hang, Goto, Hung
    <2>2. Cardinality(Hung') <= Cardinality(Hung) + 1
      BY <1>1, <2>1, FS_AddElement
    <2>3. Cardinality(Hung') \in Nat
      BY <1>1, <2>1, FS_AddElement, FS_CardinalityType
    <2> QED
      BY <1>1, <2>1, <2>2, <2>3, LimitAssumption DEF HungBound
  <1>4. CASE Step(r)
    <2>1. pc'[r] # "hung" /\ \A q \in Requests \ {r} : pc'[q] = pc[q]
      BY <1>2, <1>4
         DEF Step, Reject, Enter, RejectLevel, Checkout, CheckoutTimesOut, Commit, Commits,
             BeginAnalysis, SkipTriage, CallLLM, LLMReturns, Finish, ResolveTopology,
             EnterResolved, NotFound, Fail, Validate, Close, Raise, Return, Goto
    <2>2. Hung' \subseteq Hung
      BY <2>1 DEF Hung
    <2>3. Cardinality(Hung') <= Cardinality(Hung) /\ Cardinality(Hung') \in Nat
      BY <1>1, <2>2, FS_Subset, FS_CardinalityType
    <2> QED
      BY <1>1, <2>3, LimitAssumption DEF HungBound
  <1> QED
    BY <1>3, <1>4

\* A handler at work has something to do next: commit, finish, call the LLM, or go on.
LEMMA HandlersGoOn ==
  ASSUME ServerInv, Routed, NEW r \in Requests, pc[r] = "working"
  PROVE  Going(r)
  <1>1. segment[r] \in 1..LastRefresh /\ route[r] \in Routes
    BY DEF ServerInv, TypeOK
  <1>2. CASE route[r] = "ingest"
    <2>1. \/ segment[r] \in {Store, Detect, Correlate, Verdict, Alerts, LastRefresh}
          \/ segment[r] \in Agents
      BY <1>1, Segments
    <2>2. segment[r] \in {Alerts, LastRefresh} => r \in analysing
      BY <1>2, Segments DEF ServerInv, Progressed
    <2> QED
      BY <1>2, <2>1, <2>2 DEF Going, Commits, MayFinish, InPipeline
  <1>3. CASE route[r] # "ingest"
    BY <1>1, <1>3 DEF Routed, Going, Commits, MayFinish, Routes
  <1> QED
    BY <1>2, <1>3

LEMMA MovesExist == ServerInv /\ Routed /\ HungBound => SomeoneMoves
  <1> SUFFICES ASSUME ServerInv, Routed, HungBound,
                      NEW r \in Requests, pc[r] \notin {"answered", "hung"}
               PROVE  \E q \in Requests : Movable(q)
    BY DEF SomeoneMoves
  <1>1. \A q \in Requests : pc[q] \in Stages
    BY DEF ServerInv, TypeOK
  <1>2. \A q \in Requests : InThread(q) /\ pc[q] # "hung" => Movable(q)
    BY HandlersGoOn DEF InThread, Movable
  <1>3. CASE FreeThread
    BY <1>1, <1>2, <1>3 DEF Movable, InThread, Stages
  <1>4. CASE ~FreeThread
    <2> DEFINE Threaded == {q \in Requests : InThread(q)}
    <2>1. /\ IsFiniteSet(Hung) /\ Cardinality(Hung) \in Nat
          /\ IsFiniteSet(Threaded) /\ Cardinality(Threaded) \in Nat
      BY LoadAssumption, FS_Subset, FS_CardinalityType DEF Hung
    <2>2. Cardinality(Threaded) > Cardinality(Hung)
      BY <1>4, <2>1, LimitAssumption DEF FreeThread, HungBound
    <2>3. Threaded \in SUBSET Hung => Cardinality(Threaded) <= Cardinality(Hung)
      BY <2>1, FS_Subset
    <2>4. PICK q \in Threaded : q \notin Hung
      BY <2>1, <2>2, <2>3
    <2> QED
      BY <1>2, <2>4 DEF Hung
  <1> QED
    BY <1>3, <1>4

\* However threads and connections are shared out and whatever fails, the server is never
\* stuck.  With RequestsAreBounded it comes to rest with every request answered, or hung.
THEOREM NobodyIsStuck == Spec => []SomeoneMoves
  <1>1. Init => Routed /\ HungBound
    <2> SUFFICES ASSUME Init PROVE Routed /\ HungBound
      OBVIOUS
    <2>1. Hung = {}
      BY DEF Init, Hung
    <2> QED
      BY <2>1, FS_EmptySet, LimitAssumption DEF Init, Routed, HungBound
  <1>2. ServerInv /\ Routed /\ HungBound /\ [Next]_vars => Routed' /\ HungBound'
    <2>1. UNCHANGED vars /\ Routed /\ HungBound => Routed' /\ HungBound'
      BY DEF vars, Routed, HungBound, Hung
    <2> QED
      BY <2>1, RoutesKept, HangsBounded DEF Next, Quiescent
  <1> QED
    BY <1>1, <1>2, MovesExist, Invariance, PTL DEF Spec
=============================================================================
