------------------------------ MODULE MCMetrics ------------------------------
(* Metrics with a poll of /metrics beside other connections.            *)
EXTENDS Metrics, TLC

Symmetry == Permutations(Conns \ Readers)
=============================================================================
