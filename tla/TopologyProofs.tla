---------------------------- MODULE TopologyProofs ----------------------------
(* Theorems about Topology and Cascade, for every set of services and every seed file. *)
EXTENDS Cascade, Counting

(***************************************************************************)
(* Transitive dependents.                                                  *)
(***************************************************************************)
LEMMA DependentsAreServices ==
  ASSUME NEW graph \in Graphs, NEW node
  PROVE  Dependents(graph, node) \subseteq Services
  BY DEF Graphs, Dependents

LEMMA AllDependentsClosed ==
  ASSUME NEW graph \in Graphs, NEW node
  PROVE  ClosedUnderDependents(graph, node, AllDependents(graph, node))
  BY DependentsAreServices DEF ClosedUnderDependents, AllDependents

LEMMA AllDependentsLeast ==
  ASSUME NEW graph, NEW node, NEW S \in SUBSET Services,
         ClosedUnderDependents(graph, node, S)
  PROVE  AllDependents(graph, node) \subseteq S
  BY DEF AllDependents

LEMMA UnknownHasNoDependents ==
  ASSUME NEW graph \in Graphs, NEW node, node \notin Nodes(graph)
  PROVE  AllDependents(graph, node) = {}
  <1>1. Dependents(graph, node) = {}
    BY DEF Nodes, Dependents
  <1>2. ClosedUnderDependents(graph, node, {})
    BY <1>1 DEF ClosedUnderDependents
  <1> QED
    BY <1>2, AllDependentsLeast

LEMMA AllDependentsTransitive ==
  ASSUME NEW graph \in Graphs, NEW c, NEW r \in AllDependents(graph, c)
  PROVE  AllDependents(graph, r) \subseteq AllDependents(graph, c)
  <1>1. Dependents(graph, r) \subseteq AllDependents(graph, c)
    BY AllDependentsClosed DEF ClosedUnderDependents
  <1>2. ClosedUnderDependents(graph, r, AllDependents(graph, c))
    BY <1>1, AllDependentsClosed DEF ClosedUnderDependents
  <1> QED
    BY <1>2, AllDependentsLeast DEF AllDependents

(***************************************************************************)
(* The inductive invariant of the walk.  A service is done when the walk    *)
(* met it and popped it: its dependents are then in the radius.            *)
(***************************************************************************)
Reached == listed \ pending

Covered(S) == impacted = S \cup UNION {AllDependents(adjacency, s) : s \in S}

WalkInv ==
  /\ pc \in {"engine", "next", "walk", "answered"} => adjacency = rows
  /\ pc = "engine" => impacted = {}
  /\ pc \in {"next", "answered"} => Covered(Reached)
  /\ pc = "answered" => pending = {}
  /\ pc = "walk" =>
       /\ start \in Reached
       /\ impacted = Reached \cup UNION {AllDependents(adjacency, s) : s \in Reached \ {start}}
       /\ queue \subseteq radius \cup {start}
       /\ radius \subseteq AllDependents(adjacency, start)
       /\ \A s \in (radius \cup {start}) \ queue : Dependents(adjacency, s) \subseteq radius

TopologyInv == TypeOK /\ WalkInv

LEMMA UpsertType ==
  ASSUME NEW file \in Graphs, NEW table \in Graphs
  PROVE  Upsert(file, table) \in Graphs
  <1> DEFINE D == DOMAIN file \cup DOMAIN table
  <1>1. PICK F \in SUBSET Services : file \in [F -> SUBSET Services]
    BY DEF Graphs
  <1>2. PICK T \in SUBSET Services : table \in [T -> SUBSET Services]
    BY DEF Graphs
  <1>3. D = F \cup T /\ D \in SUBSET Services
    BY <1>1, <1>2
  <1>4. Upsert(file, table) \in [D -> SUBSET Services]
    BY <1>1, <1>2 DEF Upsert
  <1> QED
    BY <1>3, <1>4 DEF Graphs

LEMMA NoRowsType == NoRows \in Graphs
  <1>1. NoRows \in [{} -> SUBSET Services]
    BY DEF NoRows
  <1> QED
    BY <1>1 DEF Graphs

LEMMA InvInit == Init => TopologyInv
  BY NoRowsType DEF Init, TopologyInv, TypeOK, WalkInv

LEMMA InvStartup ==
  ASSUME TopologyInv, NEW file \in SeedFiles, Startup(file)
  PROVE  TopologyInv'
  <1>1. file \in Graphs
    BY SeedAssumption
  <1>2. rows' \in Graphs
    BY <1>1, UpsertType DEF TopologyInv, TypeOK, Startup
  <1> QED
    BY <1>2, NoRowsType DEF TopologyInv, TypeOK, WalkInv, Startup, Forget

\* What the walk of s adds to the answer is what depends on s.
LEMMA InvNextIncident ==
  ASSUME TopologyInv, NEW s \in Services, NextIncident(s)
  PROVE  TopologyInv'
  <1> USE DEF TopologyInv, TypeOK, NextIncident, request, walk
  <1>1. TypeOK'
    OBVIOUS
  <1>2. /\ s \in Reached' /\ Reached' = Reached \cup {s} /\ Reached' \ {s} \subseteq Reached
        /\ s \notin Reached
    BY DEF Reached
  <1>3. Covered(Reached)
    BY DEF WalkInv
  <1>4. CASE s \in Nodes(adjacency)
    <2>1. Reached' \ {s} = Reached
      BY <1>2
    <2>2. impacted' = Reached' \cup UNION {AllDependents(adjacency, q) : q \in Reached' \ {s}}
      BY <1>2, <1>3, <2>1 DEF Covered
    <2> QED
      BY <1>1, <1>2, <1>4, <2>2 DEF WalkInv
  <1>5. CASE s \notin Nodes(adjacency)
    <2>1. AllDependents(adjacency, s) = {}
      BY <1>5, UnknownHasNoDependents
    <2>2. Covered(Reached)'
      BY <1>2, <1>3, <1>5, <2>1 DEF Covered, AllDependents
    <2> QED
      BY <1>1, <1>5, <2>2 DEF WalkInv
  <1> QED
    BY <1>4, <1>5

LEMMA InvPop ==
  ASSUME TopologyInv, NEW node \in Services, Pop(node)
  PROVE  TopologyInv'
  <1> USE DEF TopologyInv, TypeOK, Pop, Unseen
  <1>1. Dependents(adjacency, node) \subseteq Services
    BY DependentsAreServices
  <1>2. TypeOK'
    BY <1>1
  <1>3. Dependents(adjacency, node) \subseteq AllDependents(adjacency, start)
    BY AllDependentsClosed DEF WalkInv, ClosedUnderDependents
  <1>4. radius' \subseteq AllDependents(adjacency, start)
    BY <1>3 DEF WalkInv
  <1>5. queue' \subseteq radius' \cup {start}
    BY DEF WalkInv
  <1>6. \A s \in (radius' \cup {start}) \ queue' : Dependents(adjacency, s) \subseteq radius'
    BY DEF WalkInv
  <1>7. Reached' = Reached
    BY DEF Reached
  <1> QED
    BY <1>2, <1>4, <1>5, <1>6, <1>7 DEF WalkInv, AllDependents

LEMMA InvEndWalk ==
  ASSUME TopologyInv, EndWalk
  PROVE  TopologyInv'
  <1> USE DEF TopologyInv, TypeOK, EndWalk, walk
  <1>1. ClosedUnderDependents(adjacency, start, radius)
    BY DEF WalkInv, ClosedUnderDependents
  <1>2. radius = AllDependents(adjacency, start)
    BY <1>1, AllDependentsLeast DEF WalkInv
  <1>3. Reached' = Reached
    BY DEF Reached
  <1>4. UNION {AllDependents(adjacency, s) : s \in Reached} =
          (UNION {AllDependents(adjacency, s) : s \in Reached \ {start}})
            \cup AllDependents(adjacency, start)
    BY DEF WalkInv
  <1>5. impacted' = Reached \cup UNION {AllDependents(adjacency, s) : s \in Reached}
    BY <1>2, <1>4 DEF WalkInv
  <1>6. Covered(Reached)'
    BY <1>3, <1>5 DEF Covered, AllDependents
  <1>7. TypeOK'
    OBVIOUS
  <1>8. WalkInv'
    BY <1>6 DEF WalkInv
  <1> QED
    BY <1>7, <1>8

LEMMA InvNext == TopologyInv /\ [Next]_vars => TopologyInv'
  <1> SUFFICES ASSUME TopologyInv, [Next]_vars PROVE TopologyInv'
    OBVIOUS
  <1> USE DEF TopologyInv
  <1>1. ASSUME NEW s \in Services, IncidentsChange(s) PROVE TopologyInv'
    BY <1>1 DEF IncidentsChange, TypeOK, WalkInv, Covered, Reached, AllDependents, request, walk
  <1>2. CASE LoadEngine
    BY <1>2 DEF LoadEngine, TypeOK, WalkInv
  <1>3. CASE ListUnresolved
    <2>1. Reached' = {}
      BY <1>3 DEF ListUnresolved, Reached
    <2> QED
      BY <1>3, <2>1 DEF ListUnresolved, TypeOK, WalkInv, Covered, walk
  <1>4. CASE Respond
    <2>1. Reached' = Reached
      BY <1>4 DEF Respond, Reached, request
    <2> QED
      BY <1>4, <2>1 DEF Respond, TypeOK, WalkInv, Covered, AllDependents, request, walk
  <1>5. CASE UNCHANGED vars
    BY <1>5 DEF vars, request, walk, TypeOK, WalkInv, Covered, Reached, AllDependents
  <1> QED
    BY <1>1, <1>2, <1>3, <1>4, <1>5, InvStartup, InvNextIncident, InvPop, InvEndWalk
       DEF Next, Serve

\* Every variable keeps its type, and the walk its loop invariant.
THEOREM WalkInvariant == Spec => []TopologyInv
  BY InvInit, InvNext, PTL DEF Spec

\* An answer marks the services with unresolved incidents and everything that
\* depends on them, for any graph.
THEOREM ImpactExact == Spec => []ImpactIsExact
  <1>1. TopologyInv => ImpactIsExact
    BY DEF TopologyInv, TypeOK, WalkInv, ImpactIsExact, Covered, Reached
  <1> QED
    BY <1>1, WalkInvariant, PTL

(***************************************************************************)
(* A request takes a bounded number of steps: what is left is a natural    *)
(* number that each of its steps lowers.  The walk lowers it, in a graph   *)
(* with cycles too, since a pop queues only what it adds to the radius.    *)
(***************************************************************************)
\* One incident costs its step of the loop, a pop of its service and of every
\* service it meets, and the end of the walk.
StepsPerIncident == Cardinality(Services) + 3

StepsOfWalk == Cardinality(queue) + Cardinality(Services \ radius)

StepsLeft ==
  LET ahead == StepsPerIncident * Cardinality(pending)
  IN IF pc = "engine" THEN StepsPerIncident * Cardinality(Services) + 2
     ELSE IF pc = "next" THEN ahead + 1
     ELSE IF pc = "walk" THEN ahead + StepsOfWalk + 2
     ELSE 0

\* Nothing is left exactly when no request is being served.
StepsCounted ==
  StepsLeft \in Nat /\ (StepsLeft = 0 <=> pc \notin {"engine", "next", "walk"})

\* Each step of a request lowers what it has left, and incidents do not raise it.
StepsRunOut ==
  [][/\ Serve => StepsLeft' < StepsLeft
     /\ (\E s \in Services : IncidentsChange(s)) => StepsLeft' = StepsLeft]_vars

LEMMA Sizes ==
  ASSUME NEW S \in SUBSET Services
  PROVE  IsFiniteSet(S) /\ Cardinality(S) \in Nat /\ Cardinality(S) <= Cardinality(Services)
  BY FiniteAssumption, FS_Subset, FS_CardinalityType

LEMMA Times ==
  ASSUME NEW k \in Nat, NEW p \in Nat
  PROVE  k * p \in Nat /\ k * (p - 1) = k * p - k /\ \A q \in Nat : q <= p => k * q <= k * p
  <1>1. k * p \in Nat /\ k * (p - 1) = k * p - k
    OBVIOUS
  <1>2. ASSUME NEW q \in Nat, q <= p PROVE k * q <= k * p
    <2>1. k * (p - q) \in Nat
      BY <1>2
    <2>2. k * (p - q) = k * p - k * q
      BY <1>2
    <2>3. k * q \in Nat
      OBVIOUS
    <2> QED
      BY <1>1, <2>1, <2>2, <2>3
  <1> QED
    BY <1>1, <1>2

LEMMA PopShortens ==
  ASSUME TopologyInv, NEW node \in Services, Pop(node)
  PROVE  StepsOfWalk' < StepsOfWalk
  <1> DEFINE met == Unseen(node)
             rest == queue \ {node}
             unmet == Services \ radius'
  <1>1. /\ met \in SUBSET Services /\ rest \in SUBSET Services /\ unmet \in SUBSET Services
        /\ queue \in SUBSET Services /\ Services \ radius \in SUBSET Services
    BY DependentsAreServices DEF Unseen, TopologyInv, TypeOK
  <1>2. queue' = rest \cup met /\ node \in queue
    BY DEF Pop
  <1>3. Services \ radius = unmet \cup met /\ unmet \cap met = {}
    BY <1>1 DEF Pop, Unseen
  <1> HIDE DEF met, rest, unmet
  <1>4. Cardinality(queue') <= Cardinality(rest) + Cardinality(met)
    <2>1. Cardinality(rest \cap met) \in Nat /\ Cardinality(rest) \in Nat /\ Cardinality(met) \in Nat
      BY <1>1, Sizes
    <2>2. Cardinality(rest \cup met)
            = Cardinality(rest) + Cardinality(met) - Cardinality(rest \cap met)
      BY <1>1, Sizes, FS_Union
    <2> QED
      BY <1>2, <2>1, <2>2
  <1>5. Cardinality(rest) = Cardinality(queue) - 1
    BY <1>1, <1>2, Sizes, FS_RemoveElement DEF rest
  <1>6. Cardinality(Services \ radius) = Cardinality(unmet) + Cardinality(met)
    <2>1. Cardinality(unmet \cup met)
            = Cardinality(unmet) + Cardinality(met) - Cardinality(unmet \cap met)
      BY <1>1, Sizes, FS_Union
    <2>2. Cardinality(unmet \cap met) = 0
      BY <1>3, FS_EmptySet
    <2>3. Cardinality(unmet) \in Nat /\ Cardinality(met) \in Nat
      BY <1>1, Sizes
    <2>4. Cardinality(Services \ radius) = Cardinality(unmet \cup met)
      BY <1>3
    <2> QED
      BY <2>1, <2>2, <2>3, <2>4
  <1>7. queue' \in SUBSET Services
    BY <1>1, <1>2
  <1>8. /\ Cardinality(queue) \in Nat /\ Cardinality(queue') \in Nat /\ Cardinality(met) \in Nat
        /\ Cardinality(unmet) \in Nat /\ Cardinality(rest) \in Nat
    BY <1>1, <1>7, Sizes
  <1> QED
    BY <1>4, <1>5, <1>6, <1>8 DEF StepsOfWalk, unmet

LEMMA StepsAreCounted == TopologyInv => StepsCounted
  <1> SUFFICES ASSUME TopologyInv PROVE StepsCounted
    OBVIOUS
  <1>1. /\ Cardinality(Services) \in Nat /\ Cardinality(pending) \in Nat
        /\ Cardinality(queue) \in Nat /\ Cardinality(Services \ radius) \in Nat
    BY Sizes DEF TopologyInv, TypeOK
  <1>2. /\ StepsPerIncident * Cardinality(pending) \in Nat
        /\ StepsPerIncident * Cardinality(Services) \in Nat
    BY <1>1, Times DEF StepsPerIncident
  <1> QED
    BY <1>1, <1>2 DEF StepsCounted, StepsLeft, StepsOfWalk, TopologyInv, TypeOK

LEMMA ServeShortens ==
  ASSUME TopologyInv, TopologyInv', Serve
  PROVE  StepsLeft' < StepsLeft
  <1>0. ASSUME NEW s \in Services, Pop(s) PROVE StepsOfWalk' < StepsOfWalk
    BY <1>0, PopShortens
  <1> DEFINE N == Cardinality(Services)
  <1> USE DEF TopologyInv, TypeOK
  <1>1. /\ N \in Nat /\ Cardinality(pending) \in Nat /\ Cardinality(pending') \in Nat
        /\ Cardinality(pending') <= N
        /\ Cardinality(queue) \in Nat /\ Cardinality(queue') \in Nat
        /\ Cardinality(Services \ radius) \in Nat /\ Cardinality(Services \ radius') \in Nat
    BY Sizes
  <1>2. StepsPerIncident = N + 3
    BY DEF StepsPerIncident
  <1> HIDE DEF N
  <1>3. /\ StepsPerIncident * Cardinality(pending) \in Nat
        /\ StepsPerIncident * Cardinality(pending') \in Nat
        /\ StepsPerIncident * N \in Nat
        /\ StepsPerIncident * Cardinality(pending') <= StepsPerIncident * N
    BY <1>1, <1>2, Times
  <1>4. CASE ListUnresolved
    BY <1>1, <1>3, <1>4 DEF ListUnresolved, StepsLeft, N
  <1>5. ASSUME NEW s \in Services, NextIncident(s) PROVE StepsLeft' < StepsLeft
    <2>1. Cardinality(pending') = Cardinality(pending) - 1
      BY <1>5, Sizes, FS_RemoveElement DEF NextIncident
    <2>2. StepsPerIncident * Cardinality(pending')
            = StepsPerIncident * Cardinality(pending) - StepsPerIncident
      BY <1>1, <1>2, <2>1, Times
    <2>3. CASE s \in Nodes(adjacency)
      <3>1. pc' = "walk" /\ queue' = {s} /\ Services \ radius' = Services
        BY <1>5, <2>3 DEF NextIncident
      <3>2. StepsOfWalk' = 1 + N
        BY <3>1, FS_Singleton DEF StepsOfWalk, N
      <3> QED
        BY <1>1, <1>2, <1>3, <1>5, <2>2, <3>1, <3>2 DEF NextIncident, StepsLeft
    <2>4. CASE s \notin Nodes(adjacency)
      BY <1>1, <1>2, <1>3, <1>5, <2>2, <2>4 DEF NextIncident, StepsLeft
    <2> QED
      BY <2>3, <2>4
  <1>6. ASSUME NEW s \in Services, Pop(s) PROVE StepsLeft' < StepsLeft
    <2>1. StepsOfWalk \in Nat /\ StepsOfWalk' \in Nat
      BY <1>1 DEF StepsOfWalk
    <2>2. StepsOfWalk' < StepsOfWalk
      BY <1>0, <1>6
    <2> QED
      BY <1>3, <1>6, <2>1, <2>2 DEF Pop, StepsLeft
  <1>7. CASE EndWalk
    BY <1>1, <1>3, <1>7 DEF EndWalk, StepsLeft, StepsOfWalk, walk
  <1>8. CASE Respond
    BY <1>1, <1>3, <1>8 DEF Respond, StepsLeft
  <1> QED
    BY <1>4, <1>5, <1>6, <1>7, <1>8 DEF Serve

\* Every step of a request, and nothing that happens to incidents meanwhile, brings its
\* answer nearer, for any graph: the loop of blast_radius ends, cycles or not.
THEOREM WalksAreBounded == Spec => []StepsCounted /\ StepsRunOut
  <1>1. ASSUME TopologyInv, TopologyInv', [Next]_vars
        PROVE  [/\ Serve => StepsLeft' < StepsLeft
                /\ (\E s \in Services : IncidentsChange(s)) => StepsLeft' = StepsLeft]_vars
    <2>1. ASSUME NEW s \in Services, IncidentsChange(s) PROVE StepsLeft' = StepsLeft
      BY <2>1 DEF IncidentsChange, StepsLeft, StepsOfWalk, request, walk
    <2> QED
      BY <1>1, <2>1, ServeShortens
  <1> QED
    BY <1>1, StepsAreCounted, WalkInvariant, PTL DEF Spec, StepsRunOut

\* root_service depends on no other candidate, for any acyclic graph.
THEOREM RootIsUpstream == Spec => []RootDependsOnNoCandidate
  <1>1. TopologyInv => RootDependsOnNoCandidate
    <2> SUFFICES ASSUME TopologyInv, Acyclic(rows),
                        NEW services \in SUBSET Services,
                        NEW root \in RootServices(rows, services), NEW c \in services,
                        root \in AllDependents(rows, c)
                 PROVE  FALSE
      BY DEF RootDependsOnNoCandidate
    <2>1. rows \in Graphs
      BY DEF TopologyInv, TypeOK
    <2>2. c \in Nodes(rows)
      BY <2>1, UnknownHasNoDependents
    <2>3. Cardinality(AllDependents(rows, c)) <= Cardinality(AllDependents(rows, root))
      BY <2>2 DEF RootServices
    <2>4. AllDependents(rows, root) \subseteq AllDependents(rows, c)
      BY <2>1, AllDependentsTransitive
    <2>5. IsFiniteSet(AllDependents(rows, c))
      BY FiniteAssumption, FS_Subset DEF AllDependents
    <2>6. Cardinality(AllDependents(rows, c)) = Cardinality(AllDependents(rows, root))
      BY <2>3, <2>4, <2>5, FS_Subset, FS_CardinalityType
    <2>7. AllDependents(rows, c) = AllDependents(rows, root)
      BY <2>4, <2>5, <2>6, FS_Subset
    <2>8. root \notin AllDependents(rows, root)
      BY DEF Acyclic, RootServices, AllDependents
    <2> QED
      BY <2>7, <2>8
  <1> QED
    BY <1>1, WalkInvariant, PTL

\* Why the service a failure started at is blamed, however far the failure has spread
\* among those that depend on it: no other of the failing services has as many
\* dependents.
THEOREM RootOfACascade ==
  ASSUME NEW graph \in Graphs, Acyclic(graph),
         NEW root \in Nodes(graph) \cap Services,
         NEW failing \in SUBSET Services, root \in failing,
         \A s \in failing \ {root} : s \in AllDependents(graph, root)
  PROVE  RootServices(graph, failing) = {root}
  <1> DEFINE Size(s) == Cardinality(AllDependents(graph, s))
  <1>1. \A s \in Services : IsFiniteSet(AllDependents(graph, s)) /\ Size(s) \in Nat
    BY FiniteAssumption, FS_Subset, FS_CardinalityType DEF AllDependents
  <1>2. ASSUME NEW s \in failing \ {root} PROVE Size(s) < Size(root)
    <2>1. s \in AllDependents(graph, root) /\ s \in Services
      BY DEF AllDependents
    <2>2. AllDependents(graph, s) \subseteq AllDependents(graph, root)
      BY <2>1, AllDependentsTransitive
    <2>3. s \notin AllDependents(graph, s)
      BY <2>1 DEF Acyclic
    <2>4. Size(s) <= Size(root) /\ Size(s) # Size(root)
      BY <1>1, <2>1, <2>2, <2>3, FS_Subset
    <2> QED
      BY <1>1, <2>1, <2>4
  <1> HIDE DEF Size
  <1>3. \A s \in failing : s # root => ~(Size(root) <= Size(s))
    BY <1>1, <1>2
  <1>4. \A s \in failing : Size(s) <= Size(root)
    BY <1>1, <1>2
  <1> QED
    BY <1>3, <1>4 DEF RootServices, Size

(***************************************************************************)
(* The layers of a cascade.                                                *)
(***************************************************************************)
First(root) == [layer |-> {root}, seen |-> {root}]

After(graph, before) ==
  LET next == (UNION {Dependents(graph, s) : s \in before.layer}) \ before.seen
  IN [layer |-> next, seen |-> before.seen \cup next]

\* The equation that defines the layers.
Bfs(graph, root, f) ==
  [depth \in Depths |->
     IF depth = 0
     THEN [layer |-> {root}, seen |-> {root}]
     ELSE LET before == f[depth - 1]
              next == (UNION {Dependents(graph, s) : s \in before.layer}) \ before.seen
          IN [layer |-> next, seen |-> before.seen \cup next]]

Searched(graph, root) == CHOOSE f : f = Bfs(graph, root, f)

LEMMA LayersAreSearched ==
  ASSUME NEW graph, NEW root
  PROVE  FailureLayers(graph, root) = [depth \in Depths |-> Searched(graph, root)[depth].layer]
  BY DEF FailureLayers, Searched, Bfs

\* The equation has a solution: depth after depth.
LEMMA SearchExists ==
  ASSUME NEW graph, NEW root
  PROVE  Searched(graph, root) = Bfs(graph, root, Searched(graph, root))
  <1> DEFINE N == Cardinality(Services)
             Solves(n, f) == f = [d \in 0..n |-> IF d = 0 THEN First(root)
                                                 ELSE After(graph, f[d - 1])]
             T == {n \in Nat : \E f : Solves(n, f)}
  <1>1. N \in Nat
    BY FiniteAssumption, FS_CardinalityType
  <1>2. 0 \in T
    <2> DEFINE f == [d \in 0..0 |-> First(root)]
    <2>1. Solves(0, f)
      OBVIOUS
    <2> QED
      BY <2>1
  <1>3. ASSUME NEW n \in T PROVE n + 1 \in T
    <2>1. PICK f : Solves(n, f)
      OBVIOUS
    <2> DEFINE g == [d \in 0..(n + 1) |-> IF d = n + 1 THEN After(graph, f[n]) ELSE f[d]]
    <2>2. g[0] = First(root)
      <3>1. 0 \in 0..n /\ 0 \in 0..(n + 1) /\ 0 # n + 1
        OBVIOUS
      <3>2. g[0] = f[0]
        BY <3>1
      <3>3. f[0] = First(root)
        BY <2>1, <3>1
      <3> QED
        BY <3>2, <3>3
    <2>3. ASSUME NEW d \in 0..(n + 1), d # 0 PROVE g[d] = After(graph, g[d - 1])
      <3>1. d - 1 \in 0..(n + 1) /\ d - 1 # n + 1
        <4>1. n \in Nat /\ d \in Nat
          OBVIOUS
        <4> QED
          BY <4>1, <2>3
      <3>2. g[d - 1] = f[d - 1]
        BY <3>1
      <3>3. CASE d = n + 1
        BY <3>2, <3>3
      <3>4. CASE d # n + 1
        <4>1. d \in 0..n /\ g[d] = f[d]
          BY <3>4
        <4>2. f[d] = After(graph, f[d - 1])
          BY <4>1, <2>1, <2>3
        <4> QED
          BY <3>2, <4>1, <4>2
      <3> QED
        BY <3>3, <3>4
    <2>4. g = [d \in 0..(n + 1) |-> g[d]]
      OBVIOUS
    <2> HIDE DEF g
    <2>5. Solves(n + 1, g)
      BY <2>2, <2>3, <2>4
    <2> QED
      BY <2>5
  <1> HIDE DEF T
  <1>4. 0..N \subseteq T
    BY <1>1, <1>2, <1>3, ClimbTo
  <1>5. PICK f : Solves(N, f)
    BY <1>1, <1>4 DEF T
  <1>6. f = Bfs(graph, root, f)
    BY <1>5 DEF Bfs, Depths, First, After
  <1> QED
    BY <1>6 DEF Searched

DependentsOf(graph, S) == UNION {Dependents(graph, s) : s \in S}

LEMMA DependentsOfAll ==
  ASSUME NEW graph, NEW S, NEW s \in S
  PROVE  Dependents(graph, s) \subseteq DependentsOf(graph, S)
  BY DEF DependentsOf

\* Layers and what has been met up to them, as a search computes them.
IsSearch(graph, root, layer, seen) ==
  /\ layer[0] = {root} /\ seen[0] = {root}
  /\ \A d \in Depths \ {0} :
       /\ layer[d] = DependentsOf(graph, layer[d - 1]) \ seen[d - 1]
       /\ seen[d] = seen[d - 1] \cup layer[d]

LEMMA LayersAreASearch ==
  ASSUME NEW graph, NEW root
  PROVE  \E seen : IsSearch(graph, root, FailureLayers(graph, root), seen)
  <1> DEFINE f == Searched(graph, root)
             layer == [d \in Depths |-> f[d].layer]
             seen == [d \in Depths |-> f[d].seen]
  <1>1. f = Bfs(graph, root, f)
    BY SearchExists
  <1>2. layer = FailureLayers(graph, root)
    BY LayersAreSearched
  <1> HIDE DEF f
  <1>3. 0 \in Depths /\ \A d \in Depths \ {0} : d - 1 \in Depths
    BY FiniteAssumption, FS_CardinalityType DEF Depths
  <1>4. layer[0] = {root} /\ seen[0] = {root}
    <2>1. f[0] = [layer |-> {root}, seen |-> {root}]
      BY <1>1, <1>3 DEF Bfs
    <2> QED
      BY <1>3, <2>1
  <1>5. ASSUME NEW d \in Depths \ {0}
        PROVE  /\ layer[d] = DependentsOf(graph, layer[d - 1]) \ seen[d - 1]
               /\ seen[d] = seen[d - 1] \cup layer[d]
    <2>1. f[d] = After(graph, f[d - 1])
      BY <1>1 DEF Bfs, After
    <2>2. /\ f[d].layer = DependentsOf(graph, f[d - 1].layer) \ f[d - 1].seen
          /\ f[d].seen = f[d - 1].seen \cup f[d].layer
      BY <2>1 DEF After, DependentsOf
    <2> QED
      BY <1>3, <2>2
  <1>6. IsSearch(graph, root, layer, seen)
    BY <1>4, <1>5 DEF IsSearch
  <1> QED
    BY <1>2, <1>6

\* What the layers up to one hold.
Sound(graph, root, layer, seen, d) ==
  /\ seen[d] \subseteq {root} \cup AllDependents(graph, root)
  /\ d # 0 => layer[d] \subseteq AllDependents(graph, root)
  /\ layer[d] \subseteq seen[d]
  /\ \A s \in seen[d] : \E e \in 0..d : s \in layer[e]
  /\ \A s \in seen[d] \ layer[d] : Dependents(graph, s) \subseteq seen[d]

LEMMA SearchIsSound ==
  ASSUME NEW graph \in Graphs, NEW root, NEW layer, NEW seen,
         IsSearch(graph, root, layer, seen)
  PROVE  \A d \in Depths : Sound(graph, root, layer, seen, d)
  <1> DEFINE N == Cardinality(Services)
             T == {d \in 0..N : Sound(graph, root, layer, seen, d)}
  <1>1. N \in Nat
    BY FiniteAssumption, FS_CardinalityType
  <1>2. 0 \in T
    BY <1>1 DEF IsSearch, Sound
  <1>3. ASSUME NEW d \in T, d < N PROVE d + 1 \in T
    <2>1. d + 1 \in Depths \ {0} /\ (d + 1) - 1 = d /\ d \in 0..N /\ d + 1 \in 0..N
      BY <1>1, <1>3 DEF Depths
    <2>2. /\ layer[d + 1] = DependentsOf(graph, layer[d]) \ seen[d]
          /\ seen[d + 1] = seen[d] \cup layer[d + 1]
      BY <2>1 DEF IsSearch
    <2>3. Sound(graph, root, layer, seen, d)
      OBVIOUS
    <2>4. layer[d + 1] \subseteq AllDependents(graph, root)
      <3>1. ASSUME NEW s \in layer[d]
            PROVE  Dependents(graph, s) \subseteq AllDependents(graph, root)
        BY <2>3, AllDependentsClosed DEF Sound, ClosedUnderDependents
      <3> QED
        BY <2>2, <3>1 DEF DependentsOf
    <2>5. \A s \in seen[d + 1] : \E e \in 0..(d + 1) : s \in layer[e]
      <3>1. 0..d \subseteq 0..(d + 1) /\ d + 1 \in 0..(d + 1)
        BY <2>1
      <3> QED
        BY <2>2, <2>3, <3>1 DEF Sound
    <2>6. ASSUME NEW s \in seen[d + 1] \ layer[d + 1]
          PROVE  Dependents(graph, s) \subseteq seen[d + 1]
      <3>1. s \in seen[d]
        BY <2>2
      <3>2. CASE s \in layer[d]
        BY <3>2, <2>2, DependentsOfAll
      <3>3. CASE s \notin layer[d]
        BY <3>1, <3>3, <2>2, <2>3 DEF Sound
      <3> QED
        BY <3>2, <3>3
    <2>7. Sound(graph, root, layer, seen, d + 1)
      BY <2>2, <2>3, <2>4, <2>5, <2>6 DEF Sound
    <2> QED
      BY <2>1, <2>7
  <1> HIDE DEF T
  <1>4. 0..N \subseteq T
    BY <1>1, <1>2, <1>3, ClimbTo
  <1> QED
    BY <1>4 DEF T, Depths

\* A layer adds a service or the search is over: all of them meet everything.
Wide(graph, S, d) ==
  /\ IsFiniteSet(S)
  /\ \/ \A s \in S : Dependents(graph, s) \subseteq S
     \/ Cardinality(S) >= d + 1

LEMMA WideStep ==
  ASSUME NEW graph, NEW S, NEW L, NEW d \in Nat, Wide(graph, S, d), IsFiniteSet(L),
         L \cap S = {},
         L = {} <=> \A s \in S : Dependents(graph, s) \subseteq S
  PROVE  Wide(graph, S \cup L, d + 1)
  <1>1. IsFiniteSet(S) /\ IsFiniteSet(S \cup L)
    <2>1. IsFiniteSet(S)
      BY DEF Wide
    <2> QED
      BY <2>1, FS_Union
  <1>2. CASE L = {}
    <2>1. S \cup L = S
      BY <1>2
    <2> QED
      BY <1>1, <1>2, <2>1 DEF Wide
  <1>3. ASSUME NEW x \in L, Cardinality(S) >= d + 1 PROVE Wide(graph, S \cup L, d + 1)
    <2> DEFINE R == S \cup L
    <2>1. x \notin S /\ S \cup {x} \subseteq R /\ IsFiniteSet(R)
      BY <1>1
    <2> HIDE DEF R
    <2>2. IsFiniteSet(S \cup {x}) /\ Cardinality(S \cup {x}) = Cardinality(S) + 1
          /\ Cardinality(S) \in Nat
      BY <1>1, <2>1, FS_AddElement, FS_CardinalityType
    <2>3. Cardinality(S \cup {x}) <= Cardinality(R) /\ Cardinality(R) \in Nat
      BY <2>1, FS_Subset, FS_CardinalityType
    <2>4. Cardinality(R) >= (d + 1) + 1
      BY <1>3, <2>2, <2>3
    <2> QED
      BY <1>1, <2>4 DEF Wide, R
  <1> QED
    BY <1>2, <1>3 DEF Wide

LEMMA SearchIsWide ==
  ASSUME NEW graph \in Graphs, NEW root, NEW layer, NEW seen,
         IsSearch(graph, root, layer, seen)
  PROVE  \A d \in Depths : Wide(graph, seen[d], d)
  <1> DEFINE N == Cardinality(Services)
             T == {d \in 0..N : Wide(graph, seen[d], d)}
  <1>1. N \in Nat
    BY FiniteAssumption, FS_CardinalityType
  <1>2. 0 \in T
    <2>1. IsFiniteSet({root}) /\ Cardinality({root}) = 1
      BY FS_Singleton
    <2>2. Wide(graph, {root}, 0)
      BY <2>1 DEF Wide
    <2> QED
      BY <1>1, <2>2 DEF IsSearch
  <1>3. ASSUME NEW d \in T, d < N PROVE d + 1 \in T
    <2>1. d + 1 \in Depths \ {0} /\ (d + 1) - 1 = d /\ d \in Nat /\ d \in Depths
          /\ d + 1 \in 0..N
      BY <1>1, <1>3 DEF Depths
    <2>2. layer[d + 1] = DependentsOf(graph, layer[d]) \ seen[d]
      BY <2>1 DEF IsSearch
    <2>3. seen[d + 1] = seen[d] \cup layer[d + 1]
      BY <2>1 DEF IsSearch
    <2>4. Sound(graph, root, layer, seen, d) /\ Wide(graph, seen[d], d)
      BY <2>1, SearchIsSound
    <2>5. layer[d + 1] \subseteq Services /\ layer[d + 1] \cap seen[d] = {}
      BY <2>2, DependentsAreServices DEF DependentsOf
    <2>6. IsFiniteSet(layer[d + 1])
      BY <2>5, FiniteAssumption, FS_Subset
    <2>7. ASSUME layer[d + 1] = {}, NEW s \in seen[d]
          PROVE  Dependents(graph, s) \subseteq seen[d]
      <3>1. CASE s \in layer[d]
        BY <3>1, <2>2, <2>7, DependentsOfAll
      <3>2. CASE s \notin layer[d]
        BY <3>2, <2>4 DEF Sound
      <3> QED
        BY <3>1, <3>2
    <2>8. ASSUME \A s \in seen[d] : Dependents(graph, s) \subseteq seen[d]
          PROVE  layer[d + 1] = {}
      BY <2>2, <2>4, <2>8 DEF Sound, DependentsOf
    <2>9. Wide(graph, seen[d] \cup layer[d + 1], d + 1)
      BY <2>1, <2>4, <2>5, <2>6, <2>7, <2>8, WideStep
    <2> QED
      BY <2>1, <2>3, <2>9
  <1> HIDE DEF T
  <1>4. 0..N \subseteq T
    BY <1>1, <1>2, <1>3, ClimbTo
  <1> QED
    BY <1>4 DEF T, Depths

\* In the end the search has met everything that can be reached.
LEMMA SearchMeetsAll ==
  ASSUME NEW graph \in Graphs, NEW root, NEW layer, NEW seen,
         IsSearch(graph, root, layer, seen)
  PROVE  seen[Cardinality(Services)] = {root} \cup AllDependents(graph, root)
  <1> DEFINE N == Cardinality(Services)
             All == {root} \cup AllDependents(graph, root)
             S == seen[N]
             U == Services \cup {root}
  <1>1. N \in Nat /\ N \in Depths
    BY FiniteAssumption, FS_CardinalityType DEF Depths
  <1>2. Sound(graph, root, layer, seen, N) /\ Wide(graph, S, N)
    BY <1>1, SearchIsSound, SearchIsWide
  <1>3. S \subseteq All /\ All \subseteq U
    BY <1>2 DEF Sound, AllDependents
  <1>4. root \in S
    <2> DEFINE T == {d \in 0..N : root \in seen[d]}
    <2>1. 0 \in T
      BY <1>1 DEF IsSearch
    <2>2. ASSUME NEW d \in T, d < N PROVE d + 1 \in T
      <3>1. d + 1 \in Depths \ {0} /\ (d + 1) - 1 = d /\ d + 1 \in 0..N
        BY <1>1, <2>2 DEF Depths
      <3> QED
        BY <3>1 DEF IsSearch
    <2> HIDE DEF T
    <2>3. 0..N \subseteq T
      BY <1>1, <2>1, <2>2, ClimbTo
    <2> QED
      BY <1>1, <2>3 DEF T
  <1>5. CASE \A s \in S : Dependents(graph, s) \subseteq S
    <2> DEFINE Met == S \cap Services
    <2>1. ClosedUnderDependents(graph, root, Met)
      BY <1>4, <1>5, DependentsAreServices DEF ClosedUnderDependents
    <2>2. AllDependents(graph, root) \subseteq Met
      BY <2>1, AllDependentsLeast
    <2> QED
      BY <1>3, <1>4, <2>2
  <1>6. CASE Cardinality(S) >= N + 1
    <2> HIDE DEF S
    <2>1. IsFiniteSet(U) /\ Cardinality(U) <= N + 1 /\ Cardinality(U) \in Nat
      <3>1. /\ IsFiniteSet(U) /\ Cardinality(U) \in Nat
            /\ Cardinality(U) = N \/ Cardinality(U) = N + 1
        <4>1. /\ IsFiniteSet(Services \cup {root})
              /\ Cardinality(Services \cup {root}) = IF root \in Services THEN N ELSE N + 1
          BY FiniteAssumption, FS_AddElement
        <4> QED
          BY <4>1, <1>1
      <3> QED
        BY <1>1, <3>1
    <2> HIDE DEF U
    <2>2. S \subseteq U
      BY <1>3
    <2>3. Cardinality(S) <= Cardinality(U) /\ Cardinality(S) \in Nat
      BY <2>1, <2>2, FS_Subset, FS_CardinalityType
    <2>4. Cardinality(S) = Cardinality(U)
      BY <1>1, <1>6, <2>1, <2>3
    <2>5. S = U
      BY <2>1, <2>2, <2>4, FS_Subset
    <2> QED
      BY <1>3, <2>5 DEF S
  <1> QED
    BY <1>2, <1>5, <1>6 DEF Wide

(***************************************************************************)
(* What fails.                                                             *)
(***************************************************************************)
LEMMA FailingInLayers ==
  ASSUME NEW graph, NEW root, NEW second
  PROVE  \A s : s \in Failing(graph, root, second)
                  <=> \E d \in Depths : /\ second >= FailureStart + d * LayerDelay
                                        /\ s \in FailureLayers(graph, root)[d]
  <1> DEFINE layers == FailureLayers(graph, root)
             failed == {d \in Depths : second >= FailureStart + d * LayerDelay}
             errors == UNION {[service : layers[d], level : {"ERROR"}] : d \in failed}
             criticals == UNION {[service : layers[d], level : {"CRITICAL"}] : d \in failed \cap {0}}
             infos == [service : DOMAIN graph, level : {"INFO"}]
  <1>1. Generate(graph, root, second) = infos \cup errors \cup criticals
    BY DEF Generate
  <1>2. \A s : s \in Failing(graph, root, second)
                 <=> \E e \in infos \cup errors \cup criticals :
                        e.level # "INFO" /\ e.service = s
    <2> HIDE DEF infos, errors, criticals
    <2> QED
      BY <1>1 DEF Failing
  <1> HIDE DEF layers
  <1>3. ASSUME NEW s, NEW d \in failed, s \in layers[d]
        PROVE  s \in Failing(graph, root, second)
    <2> DEFINE e == [service |-> s, level |-> "ERROR"]
    <2>1. e \in [service : layers[d], level : {"ERROR"}]
      BY <1>3
    <2>2. e \in errors
      BY <2>1
    <2>3. e.level # "INFO" /\ e.service = s
      OBVIOUS
    <2> HIDE DEF e, errors, criticals, infos
    <2> QED
      BY <1>2, <2>2, <2>3
  <1>4. ASSUME NEW s, s \in Failing(graph, root, second)
        PROVE  \E d \in failed : s \in layers[d]
    <2>1. PICK e \in infos \cup errors \cup criticals : e.level # "INFO" /\ e.service = s
      BY <1>2, <1>4
    <2>2. e \notin infos
      BY <2>1
    <2>3. CASE e \in errors
      BY <2>1, <2>3
    <2>4. CASE e \in criticals
      BY <2>1, <2>4
    <2> QED
      BY <2>1, <2>2, <2>3, <2>4
  <1> QED
    BY <1>3, <1>4 DEF layers

LEMMA Delays ==
  ASSUME NEW d \in Nat, NEW n \in Nat
  PROVE  /\ d * LayerDelay \in Nat
         /\ d # 0 => (d - 1) * LayerDelay = d * LayerDelay - LayerDelay
         /\ d # 0 => d * LayerDelay >= LayerDelay
         /\ d <= n => d * LayerDelay <= n * LayerDelay
  BY DelayAssumption

\* The synthetic cascade fails what the graph says it must, at the pace it says, for any
\* graph: cycles or a root that has no row included.
THEOREM CascadeIsFaithful == Spec => []CascadeFollowsTheGraph
  <1>1. TopologyInv => CascadeFollowsTheGraph
    <2> SUFFICES ASSUME TopologyInv, NEW root \in Roots(rows)
                 PROVE
         LET failing == [second \in 0..Duration |-> Failing(rows, root, second)] IN
         /\ \A second \in 0..Duration : \A s \in failing[second] \ {root} :
              second >= LayerDelay
              /\ \E t \in failing[second - LayerDelay] : s \in Dependents(rows, t)
         /\ Duration >= FailureStart + Cardinality(Services) * LayerDelay =>
              failing[Duration] = {root} \cup AllDependents(rows, root)
      BY DEF CascadeFollowsTheGraph
    <2> DEFINE failing == [second \in 0..Duration |-> Failing(rows, root, second)]
               layer == FailureLayers(rows, root)
               N == Cardinality(Services)
    <2>1. rows \in Graphs
      BY DEF TopologyInv, TypeOK
    <2>2. PICK seen : IsSearch(rows, root, layer, seen)
      BY LayersAreASearch
    <2>3. N \in Nat /\ Depths = 0..N
      BY FiniteAssumption, FS_CardinalityType DEF Depths
    <2>4. \A second \in 0..Duration : \A s :
            s \in failing[second] <=> \E d \in Depths : /\ second >= FailureStart + d * LayerDelay
                                                        /\ s \in layer[d]
      BY FailingInLayers
    <2> HIDE DEF layer, failing
    <2>5. ASSUME NEW second \in 0..Duration, NEW s \in failing[second] \ {root}
          PROVE  /\ second >= LayerDelay
                 /\ \E t \in failing[second - LayerDelay] : s \in Dependents(rows, t)
      <3>1. PICK d \in Depths : second >= FailureStart + d * LayerDelay /\ s \in layer[d]
        BY <2>4
      <3>2. d # 0 /\ d \in Nat /\ d - 1 \in Depths
        BY <2>2, <2>3, <3>1 DEF IsSearch
      <3>3. PICK t \in layer[d - 1] : s \in Dependents(rows, t)
        BY <2>2, <3>1, <3>2 DEF IsSearch, DependentsOf
      <3>4. /\ second >= LayerDelay /\ second - LayerDelay \in 0..Duration
            /\ second - LayerDelay >= FailureStart + (d - 1) * LayerDelay
        BY <3>1, <3>2, Delays, DelayAssumption
      <3>5. t \in failing[second - LayerDelay]
        BY <2>4, <3>2, <3>3, <3>4
      <3> QED
        BY <3>3, <3>4, <3>5
    <2>6. ASSUME Duration >= FailureStart + N * LayerDelay
          PROVE  failing[Duration] = {root} \cup AllDependents(rows, root)
      <3>1. \A d \in Depths : Duration >= FailureStart + d * LayerDelay
        <4> SUFFICES ASSUME NEW d \in Depths PROVE Duration >= FailureStart + d * LayerDelay
          OBVIOUS
        <4>1. d \in Nat /\ d <= N
          BY <2>3
        <4>2. d * LayerDelay <= N * LayerDelay /\ d * LayerDelay \in Nat /\ N * LayerDelay \in Nat
          BY <2>3, <4>1, Delays
        <4> QED
          BY <2>6, <4>2, DelayAssumption
      <3>2. \A s : s \in failing[Duration] <=> \E d \in Depths : s \in layer[d]
        BY <2>4, <3>1, DelayAssumption
      <3>3. \A s : s \in seen[N] <=> \E d \in Depths : s \in layer[d]
        <4>1. Sound(rows, root, layer, seen, N)
          BY <2>1, <2>2, <2>3, SearchIsSound
        <4>2. \A s \in seen[N] : \E d \in Depths : s \in layer[d]
          BY <2>3, <4>1 DEF Sound
        <4>3. seen[N] = {root} \cup AllDependents(rows, root)
          BY <2>1, <2>2, SearchMeetsAll
        <4>4. \A d \in Depths : layer[d] \subseteq {root} \cup AllDependents(rows, root)
          BY <2>1, <2>2, SearchIsSound DEF Sound
        <4> QED
          BY <4>2, <4>3, <4>4
      <3>4. seen[N] = {root} \cup AllDependents(rows, root)
        BY <2>1, <2>2, SearchMeetsAll
      <3> QED
        BY <3>2, <3>3, <3>4
    <2> QED
      BY <2>5, <2>6 DEF failing
  <1> QED
    BY <1>1, WalkInvariant, PTL

\* Whatever layers have failed when the failing services are correlated, root_service
\* blames the service the scenario broke.
THEOREM RootIsFound == Spec => []RootIsBlamed
  <1>1. TopologyInv => RootIsBlamed
    <2> SUFFICES ASSUME TopologyInv, Acyclic(rows), NEW root \in Roots(rows) \cap DOMAIN rows,
                        NEW second \in FailureStart..Duration
                 PROVE  RootServices(rows, Failing(rows, root, second)) = {root}
      BY DEF RootIsBlamed
    <2> DEFINE layer == FailureLayers(rows, root)
               failing == Failing(rows, root, second)
    <2>1. rows \in Graphs
      BY DEF TopologyInv, TypeOK
    <2>2. PICK seen : IsSearch(rows, root, layer, seen)
      BY LayersAreASearch
    <2>3. 0 \in Depths /\ Depths \subseteq Nat
      BY FiniteAssumption, FS_CardinalityType DEF Depths
    <2>4. \A s : s \in failing <=> \E d \in Depths : /\ second >= FailureStart + d * LayerDelay
                                                     /\ s \in layer[d]
      BY FailingInLayers
    <2> HIDE DEF layer, failing
    <2>5. root \in failing
      <3>1. second >= FailureStart + 0 * LayerDelay
        BY DelayAssumption
      <3> QED
        BY <2>2, <2>3, <2>4, <3>1 DEF IsSearch
    <2>6. \A s \in failing \ {root} : s \in AllDependents(rows, root)
      BY <2>1, <2>2, <2>4, SearchIsSound DEF Sound
    <2>7. root \in Nodes(rows) \cap Services
      BY <2>1 DEF Nodes, Graphs
    <2>8. failing \in SUBSET Services
      BY <2>6, <2>7 DEF AllDependents
    <2>9. RootServices(rows, failing) = {root}
      BY <2>1, <2>5, <2>6, <2>7, <2>8, RootOfACascade
    <2> QED
      BY <2>9 DEF failing
  <1> QED
    BY <1>1, WalkInvariant, PTL
=============================================================================
