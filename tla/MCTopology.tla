------------------------------ MODULE MCTopology ------------------------------
(* A small instance of Topology and Cascade for TLC. *)
EXTENDS Cascade

CONSTANTS Owners,   \* services that may have a row, with any dependencies
          Follower, \* a service that depends on Leader, if it has a row
          Leader

\* Files of one service each: successive starts merge them into every graph in
\* which the owners have rows, with the follower's or without.
OneRowFiles ==
  (UNION {[{s} -> SUBSET Services] : s \in Owners}) \cup [{Follower} -> {{Leader}}]
=============================================================================
