---------------------------- MODULE MCPerfTrace -----------------------------
(* Small instances of PerfTrace for TLC. *)
EXTENDS PerfTrace, TLC

CONSTANTS main, w1, w2

OneThread == {main}
ThreeThreads == {main, w1, w2}
WorkerSymmetry == Permutations(Thread \ {Main})

=============================================================================
