-------------------------- MODULE MCRandomPrefetch --------------------------
(* Small instances of the prefetch pool for TLC. *)
EXTENDS RandomPrefetch

CONSTANTS w1, w2, w3

ThreeWorkers == {w1, w2, w3}
OneFaulty == {w1}
=============================================================================
