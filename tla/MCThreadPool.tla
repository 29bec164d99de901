---------------------------- MODULE MCThreadPool ----------------------------
(* Small instances of ThreadPool for TLC. *)
EXTENDS ThreadPool, TLC

CONSTANTS w1, w2, w3, owner, t1, t2, t3, t4

MCWorkers3 == {w1, w2, w3}

\* t3 is enqueued by t1 while it runs, t4 by t3.
MCTasks4 == {t1, t2, t3, t4}
MCParent4 == (t1 :> owner) @@ (t2 :> owner) @@ (t3 :> t1) @@ (t4 :> t3)
=============================================================================
