--------------------------- MODULE MCTemporalWorker ---------------------------
(* A worker with two certificates and two keys, from files or from a source. *)
EXTENDS TemporalWorker, TLC

CONSTANTS t1, t2, k1, k2

Alike == {f @@ g : f \in Permutations({t1, t2}), g \in Permutations({k1, k2})}
=============================================================================
