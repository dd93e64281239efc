------------------------------- MODULE MCServer -------------------------------
(* A small instance of Server for TLC. *)
EXTENDS Server

Rank == [health |-> 1, query |-> 2, topology |-> 3, patch |-> 4, ingest |-> 5]

\* Requests differ only by their routes: one order of every choice of routes.
LoadsInOrder ==
  {load \in [Requests -> Routes] :
     \A r, q \in Requests : r <= q => Rank[load[r]] <= Rank[load[q]]}
=============================================================================
