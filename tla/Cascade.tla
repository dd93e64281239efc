------------------------------- MODULE Cascade --------------------------------
(***************************************************************************)
(* The dependency_failure scenario of the synthetic load, over the graph   *)
(* of the platform: a root service fails, then layer after layer what      *)
(* depends on it.  Composed with Topology, whose root_service is to find   *)
(* the service the scenario broke.                                         *)
(*                                                                         *)
(* What is random in the scenario, which of the possible events a second   *)
(* has, is a set here.                                                     *)
(***************************************************************************)
EXTENDS Topology

CONSTANTS Postgres,      \* _ROOT
          FailureStart,  \* seconds before the root fails
          LayerDelay,    \* seconds between the failures of two layers
          Duration       \* last second of the scenario

ASSUME DelayAssumption ==
  FailureStart \in Nat /\ LayerDelay \in Nat \ {0} /\ Duration \in Nat

\* Without _ROOT the first service in alphabetical order: here any.
Roots(graph) ==
  IF Postgres \in DOMAIN graph \/ DOMAIN graph = {} THEN {Postgres} ELSE DOMAIN graph

\* A layer is never empty but at the end, and none holds a service twice: as many
\* layers as there are services are enough.
Depths == 0..Cardinality(Services)

\* Mutant: the failure goes from a service to what it depends on.
UpstreamLayers(graph, root) ==
  LET bfs[depth \in Depths] ==
        IF depth = 0
        THEN [layer |-> {root}, seen |-> {root}]
        ELSE LET before == bfs[depth - 1]
                 next == (UNION {graph[s] : s \in before.layer \cap DOMAIN graph}) \ before.seen
             IN [layer |-> next, seen |-> before.seen \cup next]
  IN [depth \in Depths |-> bfs[depth].layer]

FailureLayers(graph, root) ==
  LET bfs[depth \in Depths] ==
        IF depth = 0
        THEN [layer |-> {root}, seen |-> {root}]
        ELSE LET before == bfs[depth - 1]
                 next == (UNION {Dependents(graph, s) : s \in before.layer}) \ before.seen
             IN [layer |-> next, seen |-> before.seen \cup next]
  IN [depth \in Depths |-> bfs[depth].layer]

\* Mutant: the layers fail together.
GenerateTogether(graph, root, second) ==
  LET layers == FailureLayers(graph, root)
      failed == {depth \in Depths : second >= FailureStart}
  IN [service : DOMAIN graph, level : {"INFO"}]
     \cup (UNION {[service : layers[depth], level : {"ERROR"}] : depth \in failed})
     \cup (UNION {[service : layers[depth], level : {"CRITICAL"}] : depth \in failed \cap {0}})

\* The events a second of the scenario may have.
Generate(graph, root, second) ==
  LET layers == FailureLayers(graph, root)
      failed == {depth \in Depths : second >= FailureStart + depth * LayerDelay}
  IN [service : DOMAIN graph, level : {"INFO"}]
     \cup (UNION {[service : layers[depth], level : {"ERROR"}] : depth \in failed})
     \cup (UNION {[service : layers[depth], level : {"CRITICAL"}] : depth \in failed \cap {0}})

Failing(graph, root, second) ==
  {e.service : e \in {e \in Generate(graph, root, second) : e.level # "INFO"}}

(***************************************************************************)
(* Properties.                                                             *)
(***************************************************************************)
\* The cascade is the graph's: a service fails one delay after one it depends on and
\* never before, and what fails in the end is the root and all that depends on it,
\* which is what GET /topology marks as impacted by an incident of the root.
CascadeFollowsTheGraph ==
  \A root \in Roots(rows) :
    LET failing == [second \in 0..Duration |-> Failing(rows, root, second)] IN
    /\ \A second \in 0..Duration : \A s \in failing[second] \ {root} :
         second >= LayerDelay /\ \E t \in failing[second - LayerDelay] : s \in Dependents(rows, t)
    /\ Duration >= FailureStart + Cardinality(Services) * LayerDelay =>
         failing[Duration] = {root} \cup AllDependents(rows, root)

\* At whatever moment the failing services are correlated, from the first layer to the
\* last, root_service blames the service the scenario broke, and no other.
RootIsBlamed ==
  Acyclic(rows) =>
    \A root \in Roots(rows) \cap DOMAIN rows, second \in FailureStart..Duration :
      RootServices(rows, Failing(rows, root, second)) = {root}
=============================================================================
