------------------------------ MODULE MCPipeline ------------------------------
(* Small instances of Pipeline for TLC. *)
EXTENDS Pipeline, TLC

OneChannel == <<"dashboard">>
TwoChannels == <<"dashboard", "slack">>

Symmetry == Permutations(Requests) \cup Permutations(Patches)
=============================================================================
