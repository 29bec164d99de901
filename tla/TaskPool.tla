------------------------------ MODULE TaskPool ------------------------------
(***************************************************************************)
(* What a thread pool promises its user, with no queue, mutex, condition   *)
(* variable or worker thread: a task that was handed over starts at most   *)
(* once, only a started task finishes, a task may hand over further tasks  *)
(* while it runs, and the destructor returns only when nothing that was    *)
(* handed over is left.  ThreadPool implements this specification.         *)
(***************************************************************************)
CONSTANTS Task,    \* the tasks that can be handed over
          Owner,   \* the thread that constructs and destroys the pool
          Parent   \* who hands a task over: Owner, or the task that does it

VARIABLES phase,      \* "starting", "open", "closing", "closed" or "failed"
          submitted,  \* tasks handed over so far
          running,    \* tasks being executed
          done        \* tasks that have returned

vars == <<phase, submitted, running, done>>

Init ==
    /\ phase = "starting"
    /\ submitted = {} /\ running = {} /\ done = {}

Open ==
    /\ phase = "starting" /\ phase' = "open"
    /\ UNCHANGED <<submitted, running, done>>

\* A pool that cannot be built fails before it accepted anything; a task that
\* does not handle the exception of a refused hand-over ends the process.
Fail ==
    /\ phase \notin {"closed", "failed"} /\ phase' = "failed"
    /\ phase # "starting" => running # {}
    /\ UNCHANGED <<submitted, running, done>>

Submit(t) ==
    /\ t \notin submitted
    /\ \/ Parent[t] = Owner /\ phase = "open"
       \/ Parent[t] \in running /\ phase # "failed"
    /\ submitted' = submitted \cup {t}
    /\ UNCHANGED <<phase, running, done>>

Start(t) ==
    /\ t \in submitted \ (running \cup done) /\ phase # "failed"
    /\ running' = running \cup {t}
    /\ UNCHANGED <<phase, submitted, done>>

Finish(t) ==
    /\ t \in running /\ phase # "failed"
    /\ running' = running \ {t}
    /\ done' = done \cup {t}
    /\ UNCHANGED <<phase, submitted>>

Close ==
    /\ phase = "open" /\ phase' = "closing"
    /\ UNCHANGED <<submitted, running, done>>

Closed ==
    /\ phase = "closing"
    /\ submitted = done
    /\ phase' = "closed"
    /\ UNCHANGED <<submitted, running, done>>

Next ==
    \/ Open \/ Fail \/ Close \/ Closed
    \/ \E t \in Task : Submit(t) \/ Start(t) \/ Finish(t)

Safety == Init /\ [][Next]_vars

\* A task that was handed over is started and returns, and a destructor that
\* was entered returns: the part of the promise that needs fair threads.
Progress ==
    /\ \A t \in Task : WF_vars(Start(t)) /\ WF_vars(Finish(t))
    /\ WF_vars(Closed)

Spec == Safety /\ Progress
=============================================================================
