------------------------------- MODULE Topology -------------------------------
(***************************************************************************)
(* The service topology: seeding the dependency table from the JSON file   *)
(* at every start of the server, and GET /api/v1/topology, which reads the *)
(* table, then the unresolved incidents, and walks the dependents of every *)
(* service that has one.                                                   *)
(*                                                                         *)
(* A graph is a function from services to the set of services they depend  *)
(* on, as in the file; a service may appear as a dependency only.  Its     *)
(* dependencies may form cycles.  One request is followed: requests only   *)
(* read.  A file that is absent seeds like an empty one.                   *)
(***************************************************************************)
EXTENDS Integers, FiniteSets

CONSTANTS Services,   \* services known to the file or named by incidents
          SeedFiles,  \* graphs the file may hold at a start of the server
          None

Graphs == UNION {[D -> SUBSET Services] : D \in SUBSET Services}

ASSUME SeedAssumption == SeedFiles \subseteq Graphs
ASSUME NoneAssumption == None \notin Services
ASSUME FiniteAssumption == IsFiniteSet(Services)

VARIABLES
  rows,        \* the service_topology table
  unresolved,  \* services of the incidents that are not resolved
  pc,          \* "down", "idle", "engine", "next", "walk" or "answered"
  adjacency,   \* the graph of the request's TopologyEngine
  listed,      \* services of list_unresolved()
  pending,     \* those the loop has not reached yet
  start,       \* argument of blast_radius
  queue,       \* its work list
  radius,      \* its local `impacted`
  impacted     \* the set _impacted_services builds

walk == <<start, queue, radius>>
request == <<adjacency, listed, pending, walk, impacted>>
vars == <<rows, unresolved, pc, request>>

NoRows == [s \in {} |-> {}]

NodesWithRows(graph) == DOMAIN graph  \* Mutant: forgets services without a row

Nodes(graph) == DOMAIN graph \cup UNION {graph[s] : s \in DOMAIN graph}

Dependents(graph, node) == {s \in DOMAIN graph : node \in graph[s]}

Upsert(file, table) ==
  [s \in DOMAIN file \cup DOMAIN table |->
     IF s \in DOMAIN file THEN file[s] ELSE table[s]]

(***************************************************************************)
(* What depends on a service, directly or not: every set of services that  *)
(* holds its dependents and, with a service, the dependents of that one,   *)
(* holds it.                                                               *)
(***************************************************************************)
ClosedUnderDependents(graph, node, S) ==
  /\ Dependents(graph, node) \subseteq S
  /\ \A s \in S : Dependents(graph, s) \subseteq S

AllDependents(graph, node) ==
  {s \in Services : \A S \in SUBSET Services :
                      ClosedUnderDependents(graph, node, S) => s \in S}

Acyclic(graph) == \A s \in Services : s \notin AllDependents(graph, s)

(***************************************************************************)
(* TopologyEngine.root_service.  Of several candidates with the largest    *)
(* blast radius the code takes the first in alphabetical order; here any.  *)
(***************************************************************************)
\* Mutant: direct dependents only.
LargestFanIn(graph, services) ==
  LET candidates == services \cap Nodes(graph)
      size(s) == Cardinality(Dependents(graph, s))
  IN {s \in candidates : \A c \in candidates : size(c) <= size(s)}

RootServices(graph, services) ==
  LET candidates == services \cap Nodes(graph)
      size(s) == Cardinality(AllDependents(graph, s))
  IN {s \in candidates : \A c \in candidates : size(c) <= size(s)}

(***************************************************************************)
(* The server.                                                             *)
(***************************************************************************)
Forget ==
  /\ adjacency' = NoRows
  /\ listed' = {} /\ pending' = {} /\ impacted' = {}
  /\ start' = None /\ queue' = {} /\ radius' = {}

Init ==
  /\ rows = NoRows
  /\ unresolved = {}
  /\ pc = "down"
  /\ adjacency = NoRows
  /\ listed = {} /\ pending = {} /\ impacted = {}
  /\ start = None /\ queue = {} /\ radius = {}

\* A start, or a restart that cuts a request short.  The rows of the file are
\* upserted in one transaction; rows of other services stay.
Startup(file) ==
  /\ rows' = Upsert(file, rows)
  /\ pc' = "idle"
  /\ Forget
  /\ UNCHANGED unresolved

\* The first unresolved incident of a service opens, or the last is resolved.
IncidentsChange(s) ==
  /\ unresolved' = IF s \in unresolved THEN unresolved \ {s} ELSE unresolved \cup {s}
  /\ UNCHANGED <<rows, pc, request>>

(***************************************************************************)
(* GET /api/v1/topology.                                                   *)
(***************************************************************************)
LoadEngine ==
  /\ pc \in {"idle", "answered"}
  /\ pc' = "engine"
  /\ adjacency' = rows
  /\ listed' = {} /\ pending' = {} /\ impacted' = {}
  /\ start' = None /\ queue' = {} /\ radius' = {}
  /\ UNCHANGED <<rows, unresolved>>

ListUnresolved ==
  /\ pc = "engine"
  /\ pc' = "next"
  /\ listed' = unresolved
  /\ pending' = unresolved
  /\ UNCHANGED <<rows, unresolved, adjacency, walk, impacted>>

NextIncident(s) ==
  /\ pc = "next"
  /\ s \in pending
  /\ pending' = pending \ {s}
  /\ impacted' = impacted \cup {s}
  /\ IF s \in Nodes(adjacency)
     THEN /\ pc' = "walk"
          /\ start' = s /\ queue' = {s} /\ radius' = {}
     ELSE UNCHANGED <<pc, walk>>
  /\ UNCHANGED <<rows, unresolved, adjacency, listed>>

\* Mutant: dependents are queued whether they were seen or not.
Unguarded(node) == Dependents(adjacency, node)

\* The dependents of a node the walk has not met.
Unseen(node) == Dependents(adjacency, node) \ radius

\* The work list holds no service twice, so it is a set; its order depends on the
\* iteration order of Python sets, so any element may be the one popped.
Pop(node) ==
  /\ pc = "walk"
  /\ node \in queue
  /\ radius' = radius \cup Unseen(node)
  /\ queue' = (queue \ {node}) \cup Unseen(node)
  /\ UNCHANGED <<rows, unresolved, pc, adjacency, listed, pending, start, impacted>>

EndWalk ==
  /\ pc = "walk"
  /\ queue = {}
  /\ impacted' = impacted \cup radius
  /\ pc' = "next"
  /\ UNCHANGED <<rows, unresolved, adjacency, listed, pending, walk>>

Respond ==
  /\ pc = "next"
  /\ pending = {}
  /\ pc' = "answered"
  /\ UNCHANGED <<rows, unresolved, request>>

Serve ==
  \/ ListUnresolved
  \/ \E s \in Services : NextIncident(s) \/ Pop(s)
  \/ EndWalk
  \/ Respond

Next ==
  \/ \E file \in SeedFiles : Startup(file)
  \/ \E s \in Services : IncidentsChange(s)
  \/ LoadEngine
  \/ Serve

\* The thread that serves the request is scheduled.
Fairness == WF_vars(Serve)

Spec == Init /\ [][Next]_vars
FairSpec == Spec /\ Fairness

(***************************************************************************)
(* Properties.                                                             *)
(***************************************************************************)
\* Every variable has its type.
TypeOK ==
  /\ rows \in Graphs /\ adjacency \in Graphs
  /\ unresolved \subseteq Services
  /\ pc \in {"down", "idle", "engine", "next", "walk", "answered"}
  /\ listed \subseteq Services /\ pending \subseteq listed
  /\ start \in Services \cup {None}
  /\ queue \subseteq Services /\ radius \subseteq Services
  /\ impacted \subseteq Services

\* The answer marks exactly the services that have an unresolved incident or
\* depend, directly or not, on one that has: the walk reaches them all, cycles or
\* not, whatever order it pops in, and the graph it walked is the table's.
ImpactIsExact ==
  pc = "answered" =>
    impacted = listed \cup UNION {AllDependents(rows, s) : s \in listed}

\* Every request is answered, cycles or not, unless a restart cuts it short.
RequestsEnd == pc \in {"engine", "next", "walk"} ~> pc \in {"answered", "idle"}

\* root_service finds the service to blame: when dependencies are acyclic, it
\* depends on no other of the services it was chosen from.
RootDependsOnNoCandidate ==
  Acyclic(rows) =>
    \A services \in SUBSET Services :
      \A root \in RootServices(rows, services), c \in services :
        root \notin AllDependents(rows, c)
=============================================================================
