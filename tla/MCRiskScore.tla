----------------------------- MODULE MCRiskScore -----------------------------
(* A small instance of RiskScore for TLC. *)
EXTENDS RiskScore

\* One error, or three events without one.
SmallVolumes == {<<1, 1>>, <<3, 0>>}
=============================================================================
