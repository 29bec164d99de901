---------------------------- MODULE MCParallelNt ----------------------------
(* A small instance of ParallelNt for TLC. *)
EXTENDS ParallelNt

\* A negative, a zero and three positive requests; Hardware threads otherwise.
MCRequests == {-1, 0, 1, 2, 3}
=============================================================================
