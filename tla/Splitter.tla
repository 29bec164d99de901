------------------------------ MODULE Splitter ------------------------------
(***************************************************************************)
(* splitter(n, team, tid, start, end) of include/parallel.hpp: the share   *)
(* [start, end) of the items 0 .. n-1 that call tid of a team works on.    *)
(* Every caller instantiates it for size_t, whose range the values stay in *)
(* (GemvProofs: no bound exceeds n).                                       *)
(***************************************************************************)
EXTENDS Integers

\* Which of the branches of the function applies.
Undivided(n, team) == n = 0 \/ team <= 1

\* Items every call gets, and calls that get one more.
Quot(n, team) == n \div team
Rem(n, team) == n % team

SplitStart(n, team, tid) ==
    IF Undivided(n, team) THEN 0
    ELSE IF tid < Rem(n, team) THEN tid * (Quot(n, team) + 1)
    ELSE Rem(n, team) * (Quot(n, team) + 1)
           + (tid - Rem(n, team)) * Quot(n, team)

\* Mutant of SplitEnd: one call too many gets an extra item.
EndOffByOne(n, team, tid) ==
    IF Undivided(n, team) THEN n
    ELSE SplitStart(n, team, tid)
           + Quot(n, team) + (IF tid <= Rem(n, team) THEN 1 ELSE 0)

SplitEnd(n, team, tid) ==
    IF Undivided(n, team) THEN n
    ELSE SplitStart(n, team, tid)
           + Quot(n, team) + (IF tid < Rem(n, team) THEN 1 ELSE 0)

\* The items of call tid.
Share(n, team, tid) == SplitStart(n, team, tid)..SplitEnd(n, team, tid)-1

-----------------------------------------------------------------------------
(* What a kernel that shares out its work relies on, for one n and team.   *)

\* The shares follow one another from 0 to n without gap or overlap.
Contiguous(n, team) ==
    /\ SplitStart(n, team, 0) = 0
    /\ SplitEnd(n, team, team - 1) = n
    /\ \A tid \in 0..team-2 :
         SplitEnd(n, team, tid) = SplitStart(n, team, tid + 1)

\* Every item belongs to exactly one call.
Partition(n, team) ==
    \A i \in 0..n-1 :
        \E tid \in 0..team-1 :
            /\ i \in Share(n, team, tid)
            /\ \A other \in 0..team-1 :
                  i \in Share(n, team, other) => other = tid

\* The sizes of two shares differ by at most one.
Balanced(n, team) ==
    \A s, t \in 0..team-1 :
        SplitEnd(n, team, s) - SplitStart(n, team, s)
          <= SplitEnd(n, team, t) - SplitStart(n, team, t) + 1
=============================================================================
