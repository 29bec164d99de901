------------------------------ MODULE ForkJoin ------------------------------
(***************************************************************************)
(* What parallel_nt(nthr, func) promises the kernel that calls it, whatever*)
(* the library was built with: func(ithr, nthr) is called exactly once for *)
(* every ithr of one team of at least one and at most nthr calls, and      *)
(* parallel_nt returns only when all of them have returned, so that they   *)
(* may use its caller's locals by reference.  When it throws some calls    *)
(* were not made, and those that were have returned; when its threads      *)
(* cannot all be started it may not come back.  ParallelNt implements it.  *)
(***************************************************************************)
EXTENDS Integers

CONSTANT MaxTeam   \* the number of calls asked for

VARIABLES team,    \* size of the team, 0 before it is known
          begun,   \* calls of func that have started
          ended,   \* calls of func that have returned
          outcome  \* "pending", "returned", "threw" or "failed"

vars == <<team, begun, ended, outcome>>

Init == team = 0 /\ begun = {} /\ ended = {} /\ outcome = "pending"

Fork(n) ==
    /\ team = 0 /\ outcome = "pending"
    /\ n \in 1..MaxTeam
    /\ team' = n
    /\ UNCHANGED <<begun, ended, outcome>>

\* An exception leaves: no thread can be started, or a call cannot be handed
\* over.  It waits for the calls that have begun.
Throw ==
    /\ outcome = "pending" /\ ended = begun
    /\ outcome' = "threw"
    /\ UNCHANGED <<team, begun, ended>>

\* Some threads are started and others cannot be: parallel_nt hangs, or the
\* process ends.
Fail ==
    /\ team = 0 /\ outcome = "pending"
    /\ outcome' = "failed"
    /\ UNCHANGED <<team, begun, ended>>

Begin(i) ==
    /\ outcome = "pending"
    /\ i \in (0..team-1) \ begun
    /\ begun' = begun \cup {i}
    /\ UNCHANGED <<team, ended, outcome>>

End(i) ==
    /\ i \in begun \ ended
    /\ ended' = ended \cup {i}
    /\ UNCHANGED <<team, begun, outcome>>

Return ==
    /\ team > 0 /\ ended = 0..team-1
    /\ outcome = "pending" /\ outcome' = "returned"
    /\ UNCHANGED <<team, begun, ended>>

Next ==
    \/ \E n \in 1..MaxTeam : Fork(n)
    \/ Throw \/ Fail
    \/ \E i \in 0..MaxTeam-1 : Begin(i) \/ End(i)
    \/ Return

Safety == Init /\ [][Next]_vars

\* The call that is asked for is made, or comes to nothing.
Resolve == team = 0 /\ ((\E n \in 1..MaxTeam : Fork(n)) \/ Throw \/ Fail)

\* A team, once there, makes its calls and returns unless it throws.
Progress ==
    /\ WF_vars(Resolve)
    /\ \A i \in 0..MaxTeam-1 : WF_vars(Begin(i)) /\ WF_vars(End(i))
    /\ WF_vars(Return)

Spec == Safety /\ Progress
=============================================================================
