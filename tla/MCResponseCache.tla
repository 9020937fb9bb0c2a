--------------------------- MODULE MCResponseCache ---------------------------
(* Two goroutines, two list endpoints, one re-send. *)
EXTENDS CachedReads, TLC

CONSTANTS w1, w2, zones, networks

MCWorker == {w1, w2}
Symmetry == Permutations(MCWorker)
MCUrl == {zones, networks}
MCMaxVersion == [u \in MCUrl |-> IF u = zones THEN 2 ELSE 1]
=============================================================================
