--------------------------- MODULE MCConnectTracer ---------------------------
(* Three threads on a table of two entries: evictions happen. *)
EXTENDS ConnectTracer, TLC

CONSTANTS t1, t2, t3

ThreeThreads == {t1, t2, t3}
Symmetry     == Permutations(ThreeThreads)
=============================================================================
