----------------------------- MODULE ParallelNt -----------------------------
(***************************************************************************)
(* parallel_nt(nthr, func) of include/parallel.hpp, in the three builds    *)
(* CMake selects: serial (a for loop), OpenMP (a parallel region) and the  *)
(* thread pool (a pool constructed, filled and destroyed by the call).     *)
(* The pool is the one of ThreadPool, whose owner is the calling thread    *)
(* and whose tasks are the calls func(0, nthr) ... func(nthr - 1, nthr).   *)
(***************************************************************************)
EXTENDS Integers, FiniteSets

CONSTANTS Requests,    \* values passed as nthr
          Hardware,    \* omp_get_max_threads() or hardware_concurrency()
          PoolSize,    \* threads of the pool in the thread-pool build
          MaxTeam,     \* the most threads a request comes to
          CallingThread,      \* the thread that calls parallel_nt
          NoThread, NoTask, MaxSpurious

AtLeastOne(n) == IF n < 1 THEN 1 ELSE n

\* if (nthr <= 0) nthr = <what the machine has>; nthr = max(1, nthr);
Threads(n) == AtLeastOne(IF n <= 0 THEN Hardware ELSE n)

ASSUME ParallelAssumption ==
    /\ Requests \subseteq Int /\ Hardware \in Nat
    /\ PoolSize \in Nat \ {0, 1}
    /\ MaxTeam \in Nat /\ \A n \in Requests : Threads(n) <= MaxTeam
    /\ CallingThread \notin Nat /\ NoThread \notin Nat \cup {CallingThread}
    /\ NoTask \notin Nat
    /\ MaxSpurious \in Nat

VARIABLES build,     \* "serial", "omp" or "pool"
          nthr,      \* the parameter, then the number of threads used
          at,        \* where the caller is
          ithr,      \* the loop variable of the caller
          team,      \* calls the region makes, 0 before it is known
          begun, ended,   \* calls of func made by the caller or the region
          pc, tasks, queueMutex, stop, holding, pending, spurious,
          submitted, refused, done \* the pool

poolVars == <<pc, tasks, queueMutex, stop, holding, pending, spurious,
              submitted, refused, done>>
vars == <<build, nthr, at, ithr, team, begun, ended, poolVars>>

Pool == INSTANCE ThreadPool WITH
          Worker <- 1..PoolSize, Owner <- CallingThread, Task <- 0..PoolSize-1,
          Parent <- [t \in 0..PoolSize-1 |-> CallingThread]

\* The instance of ThreadPool has PoolSize workers: in the thread-pool build
\* only requests that come to one thread or to PoolSize threads are made.  The
\* serial build makes no call at all for nthr <= 0: no caller passes that.
Init ==
    /\ build \in {"serial", "omp", "pool"}
    /\ nthr \in Requests
    /\ build = "serial" => nthr > 0
    /\ build = "pool" => Threads(nthr) \in {1, PoolSize}
    /\ at = "entry" /\ ithr = 0 /\ team = 0
    /\ begun = {} /\ ended = {}
    /\ Pool!Init

-----------------------------------------------------------------------------
\* The serial build: for (ithr = 0; ithr < nthr; ++ithr) func(ithr, nthr);
\* nthr is used as it is.
EnterSerial ==
    /\ at = "entry" /\ build = "serial"
    /\ at' = "loop" /\ team' = nthr
    /\ UNCHANGED <<build, nthr, ithr, begun, ended, poolVars>>

\* One thread: func(0, 1) on the calling thread, no runtime and no pool.
EnterInline ==
    /\ at = "entry" /\ build # "serial"
    /\ Threads(nthr) = 1
    /\ nthr' = 1 /\ team' = 1
    /\ at' = "loop"
    /\ UNCHANGED <<build, ithr, begun, ended, poolVars>>

CallFunc ==
    /\ at = "loop" /\ ithr < nthr
    /\ begun' = begun \cup {ithr}
    /\ at' = "func"
    /\ UNCHANGED <<build, nthr, ithr, team, ended, poolVars>>

FuncReturns ==
    /\ at = "func"
    /\ ended' = ended \cup {ithr}
    /\ ithr' = ithr + 1
    /\ at' = "loop"
    /\ UNCHANGED <<build, nthr, team, begun, poolVars>>

LoopEnds ==
    /\ at = "loop" /\ ithr >= nthr
    /\ at' = "returned"
    /\ UNCHANGED <<build, nthr, ithr, team, begun, ended, poolVars>>

-----------------------------------------------------------------------------
\* #pragma omp parallel num_threads(nthr): the runtime forms a team of at most
\* nthr threads (omp_get_num_threads() of them).
EnterRegion ==
    /\ at = "entry" /\ build = "omp"
    /\ Threads(nthr) > 1
    /\ nthr' = Threads(nthr)
    /\ team' \in 1..Threads(nthr)
    /\ at' = "region"
    /\ UNCHANGED <<build, ithr, begun, ended, poolVars>>

ThreadCalls(i) ==
    /\ at = "region" /\ i \in (0..team-1) \ begun
    /\ begun' = begun \cup {i}
    /\ UNCHANGED <<build, nthr, at, ithr, team, ended, poolVars>>

ThreadDone(i) ==
    /\ at = "region" /\ i \in begun \ ended
    /\ ended' = ended \cup {i}
    /\ UNCHANGED <<build, nthr, at, ithr, team, begun, poolVars>>

\* Mutant of RegionEnds: the barrier expects the threads asked for.
RegionEndsForAll ==
    /\ at = "region" /\ ended = 0..nthr-1
    /\ at' = "returned"
    /\ UNCHANGED <<build, nthr, ithr, team, begun, ended, poolVars>>

\* The implicit barrier at the end of the region.
RegionEnds ==
    /\ at = "region" /\ ended = 0..team-1
    /\ at' = "returned"
    /\ UNCHANGED <<build, nthr, ithr, team, begun, ended, poolVars>>

-----------------------------------------------------------------------------
\* ThreadPool pool(nthr);
EnterPool ==
    /\ at = "entry" /\ build = "pool"
    /\ Threads(nthr) > 1
    /\ nthr' = Threads(nthr)
    /\ at' = "construct"
    /\ UNCHANGED <<build, ithr, team, begun, ended, poolVars>>

ConstructPool ==
    /\ at = "construct"
    /\ \/ /\ \E w \in 1..PoolSize : Pool!Spawn(w)
          /\ UNCHANGED <<at, team>>
       \/ Pool!Constructed /\ at' = "pool" /\ team' = nthr
    /\ UNCHANGED <<build, nthr, ithr, begun, ended>>

\* A thread cannot be started: parallel_nt is left by the exception, or hangs
\* or ends the process when a thread is there to be destroyed.
ConstructFails ==
    /\ at = "construct"
    /\ Pool!SpawnFails
    /\ at' = pc'[CallingThread]
    /\ UNCHANGED <<build, nthr, ithr, team, begun, ended>>

ConstructTerminates ==
    /\ at = "unwind"
    /\ Pool!Terminate
    /\ at' = "terminated"
    /\ UNCHANGED <<build, nthr, ithr, team, begun, ended>>

\* pool.enqueue([ithr, nthr, &func]() { func(ithr, nthr); });
EnqueueCall ==
    /\ at = "pool" /\ ithr < nthr
    /\ Pool!Enqueue(CallingThread, ithr)
    /\ ithr' = ithr + 1
    /\ UNCHANGED <<build, nthr, at, team, begun, ended>>

\* tasks.push throws out of enqueue and out of the loop: pool is destroyed on
\* the way, with the calls handed over so far in its queue.
EnqueueFails ==
    /\ at = "pool"
    /\ Pool!PushFails(CallingThread)
    /\ at' = "throwing"
    /\ UNCHANGED <<build, nthr, ithr, team, begun, ended>>

\* The rest of enqueue, and of the destructor once it has started.
PoolOwnerStep ==
    /\ at \in {"pool", "throwing"}
    /\ Pool!Push(CallingThread) \/ Pool!NotifyOne(CallingThread)
       \/ Pool!SetStop \/ Pool!NotifyAll
    /\ UNCHANGED <<build, nthr, at, ithr, team, begun, ended>>

\* The end of the scope of pool, reached in order or by the exception.
DestroyPool ==
    /\ at \in {"pool", "throwing"}
    /\ at = "pool" => ithr >= nthr
    /\ Pool!DestroyLock
    /\ UNCHANGED <<build, nthr, at, ithr, team, begun, ended>>

\* Mutant of PoolJoined: the workers are detached.
PoolDetached ==
    /\ at \in {"pool", "throwing"} /\ pc[CallingThread] = "join"
    /\ at' = IF at = "pool" THEN "returned" ELSE "threw"
    /\ UNCHANGED <<build, nthr, ithr, team, begun, ended, poolVars>>

PoolJoined ==
    /\ at \in {"pool", "throwing"}
    /\ Pool!Joined
    /\ at' = IF at = "pool" THEN "returned" ELSE "threw"
    /\ UNCHANGED <<build, nthr, ithr, team, begun, ended>>

PoolWorker(w) ==
    /\ at # "terminated"
    /\ Pool!WorkerStep(w)
    /\ UNCHANGED <<build, nthr, at, ithr, team, begun, ended>>

PoolSpurious(w) ==
    /\ at # "terminated"
    /\ Pool!SpuriousWake(w)
    /\ UNCHANGED <<build, nthr, at, ithr, team, begun, ended>>

-----------------------------------------------------------------------------
CallerStep ==
    \/ EnterSerial \/ EnterInline \/ CallFunc \/ FuncReturns \/ LoopEnds
    \/ EnterRegion \/ RegionEnds
    \/ EnterPool \/ ConstructPool \/ EnqueueCall \/ PoolOwnerStep
    \/ DestroyPool \/ PoolJoined

RegionStep(i) == ThreadCalls(i) \/ ThreadDone(i)

Indices == 0..(nthr-1)

Next ==
    \/ CallerStep
    \/ ConstructFails \/ ConstructTerminates \/ EnqueueFails
    \/ \E i \in Indices : RegionStep(i)
    \/ \E w \in 1..PoolSize : PoolWorker(w) \/ PoolSpurious(w)

Safety == Init /\ [][Next]_vars

\* Every thread that can run is scheduled; func returns.  Threads and
\* allocations need not fail, and what is undefined need not end.
Fairness ==
    /\ WF_vars(CallerStep)
    /\ WF_vars(\E i \in Indices : RegionStep(i))
    /\ \A w \in 1..PoolSize : WF_vars(PoolWorker(w))

Spec == Safety /\ Fairness

-----------------------------------------------------------------------------
(* Properties *)

\* The calls of func, wherever they run.
Begun == begun \cup Pool!Running \cup done
Ended == ended \cup done

\* func is captured by reference, as are the locals of the kernel func uses:
\* no call is running or queued once parallel_nt has been left, by return or
\* by exception.
FrameOutlivesCalls ==
    at \in {"returned", "threw"} =>
        /\ Begun = Ended
        /\ tasks = <<>>
        /\ \A w \in 1..PoolSize : pc[w] \in {"new", "exit"}

\* Every one of the three builds implements ForkJoin, its progress included:
\* each call of one team exactly once, all of them before the return, which
\* comes: the queue, the barrier and the joins never hang.  When an exception
\* leaves, the calls handed over before it have been made to the end; the only
\* call that may not come back is one whose pool was started in part.
Outcome == CASE at \in {"returned", "threw"} -> at
             [] at \in {"unwind", "terminated"} -> "failed"
             [] OTHER -> "pending"
Region == INSTANCE ForkJoin WITH
            begun <- Begun, ended <- Ended, outcome <- Outcome
ImplementsForkJoin == Region!Spec
=============================================================================
