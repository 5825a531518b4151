------------------------ MODULE MCSingleFlightCache ------------------------
(* Small instances of the document caches for TLC. *)
EXTENDS SingleFlightCache

CONSTANTS t1, t2, t3, k1, k2, k3

ThreeThreads == {t1, t2, t3}
ThreeKeys == {k1, k2, k3}
OneFaulty == {k1}
\* One key is larger than the whole cache of the tight instances.
Sizes == [k \in Keys |-> IF k = k3 THEN 3 ELSE 1]
=============================================================================
