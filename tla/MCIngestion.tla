------------------------------ MODULE MCIngestion ------------------------------
(* A small instance of Ingestion for TLC. *)
EXTENDS Synth, TLC

Log(signature, level, lag) == [signature |-> signature, level |-> level, lag |-> lag]

\* One event, present, late or ahead of the clock; several at once, in one bucket
\* or in three; too many; and a batch with a level nobody knows.
SmallBatches ==
  {<<Log("k1", "ERR", 0)>>, <<Log("k1", "FATAL", 2)>>, <<Log("k2", "WARN", -1)>>,
   <<Log("k1", "ERR", 0), Log("k1", "NOTICE", 1)>>,
   <<Log("k1", "ERR", 2), Log("k2", "CRIT", 0), Log("k2", "ERR", 4)>>,
   <<Log("k2", "ERR", 5), Log("k1", "ERR", 2), Log("k1", "ERR", 3)>>,
   <<Log("k1", "ERR", 0), Log("k1", "LOUD", 0)>>,
   [n \in 1..4 |-> Log("k1", "DEBUG", 0)]}

\* Three events, of which two are a batch.
ThreeEvents == {<<Log("k1", "INFO", 0), Log("k1", "ERROR", 0), Log("k2", "CRITICAL", 0)>>}

Symmetry == Permutations(Calls)
=============================================================================
