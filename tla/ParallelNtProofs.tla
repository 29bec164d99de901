-------------------------- MODULE ParallelNtProofs --------------------------
(***************************************************************************)
(* What parallel_nt guarantees in each of its builds, for any request, any *)
(* machine and any size of the pool.  What the pool guarantees whoever     *)
(* owns it is not proved again: the theorems of ThreadPoolProofs are       *)
(* instantiated for the pool whose owner is the calling thread and whose   *)
(* tasks are the calls of func, and CallInv relates that pool to the       *)
(* caller.                                                                 *)
(***************************************************************************)
EXTENDS ParallelNt, Sequences, TLAPS

Facts == INSTANCE ThreadPoolProofs WITH
           Worker <- 1..PoolSize, Owner <- CallingThread, Task <- 0..PoolSize-1,
           Parent <- [t \in 0..PoolSize-1 |-> CallingThread]

PoolThread == 1..PoolSize

\* No pool: its owner has not begun to start threads.
Untouched ==
    pc[CallingThread] = "ctor" /\ \A w \in PoolThread : pc[w] = "new"

\* Calls the owner has handed to the pool, or is handing to it.
Handed == submitted \cup ({pending[CallingThread]} \ {NoTask})

\* The values of the caller's variables.
Typed ==
    /\ build \in {"serial", "omp", "pool"}
    /\ nthr \in Int /\ ithr \in Nat /\ team \in 0..MaxTeam
    /\ at \in {"entry", "loop", "func", "region", "construct", "pool",
               "throwing", "unwind", "terminated", "threw", "returned"}
    /\ begun \subseteq 0..team-1 /\ ended \subseteq begun

\* The for loop of the serial build, and the one call on the calling thread.
Looping ==
    /\ at = "entry" =>
         /\ Untouched /\ team = 0 /\ ithr = 0
         /\ nthr \in Requests
         /\ build = "serial" => nthr > 0
         /\ build = "pool" => Threads(nthr) \in {1, PoolSize}
    /\ at \in {"loop", "func"} =>
         /\ Untouched /\ team = nthr /\ nthr > 0
         /\ ithr <= nthr /\ ended = 0..ithr-1
    /\ at = "loop" => begun = ended
    /\ at = "func" => ithr < nthr /\ begun = 0..ithr

\* The parallel region of the OpenMP build.
Teaming ==
    at = "region" => Untouched /\ team > 0 /\ team <= nthr

\* The thread pool: the caller is its owner, each index is enqueued in turn
\* and the destructor starts after the last, or after an enqueue that threw.
Pooling ==
    /\ at \in {"construct", "pool", "throwing"} =>
         /\ begun = {} /\ nthr = PoolSize /\ PoolSize <= MaxTeam
    /\ at = "construct" =>
         pc[CallingThread] = "ctor" /\ team = 0 /\ ithr = 0
    /\ at = "pool" =>
         /\ pc[CallingThread] \in {"open", "push", "notify", "stop",
                                   "notify_all", "join"}
         /\ team = PoolSize /\ ithr <= PoolSize
         /\ Handed = 0..ithr-1
         /\ pc[CallingThread] \in {"stop", "notify_all", "join"}
               => ithr = PoolSize
    /\ at = "throwing" =>
         /\ pc[CallingThread] \in {"open", "stop", "notify_all", "join"}
         /\ team = PoolSize

\* However the call was left.
Leaving ==
    /\ at \in {"unwind", "terminated"} => pc[CallingThread] = at /\ team = 0
    /\ at = "threw" =>
         \/ /\ pc[CallingThread] = "threw" /\ team = 0
            /\ \A w \in PoolThread : pc[w] = "new"
         \/ pc[CallingThread] = "closed" /\ team = PoolSize /\ begun = {}
    /\ at = "returned" =>
         /\ begun = ended
         /\ \/ Untouched /\ team > 0 /\ begun = 0..team-1
            \/ pc[CallingThread] = "closed" /\ team = PoolSize /\ begun = {}

\* A pool that is not open has not been given anything, and func does not
\* enqueue.
Handing ==
    /\ pc[CallingThread] \in {"ctor", "threw", "unwind", "terminated"}
         => submitted = {}
    /\ \A w \in PoolThread : pc[w] \notin {"push", "notify", "terminated"}

CallInv == Typed /\ Looping /\ Teaming /\ Pooling /\ Leaving /\ Handing

-----------------------------------------------------------------------------
(* The pool of parallel_nt is a pool *)

\* 1..n is finite.
LEMMA WorkersFinite == ASSUME NEW n \in Nat PROVE Facts!IsFiniteSet(1..n)
  <1> DEFINE s == [i \in 1..n |-> i]
  <1>1. s \in Seq(1..n) /\ Len(s) = n
    OBVIOUS
  <1>2. \A x \in 1..n : \E k \in 1..Len(s) : s[k] = x
    BY <1>1
  <1>3. QED
    BY <1>1, <1>2 DEF Facts!IsFiniteSet

\* The constants the pool is instantiated with are those of a pool.
LEMMA PoolInstance == Facts!PoolAssumption
  <1>1. PoolSize \in Nat /\ PoolSize > 0
    BY ParallelAssumption
  <1>2. Facts!IsFiniteSet(1..PoolSize)
    BY <1>1, WorkersFinite
  <1>3. 1..PoolSize # {} /\ CallingThread \notin 1..PoolSize
    BY <1>1, ParallelAssumption
  <1>4. NoThread \notin 1..PoolSize \cup {CallingThread}
    BY ParallelAssumption
  <1>5. NoTask \notin 0..PoolSize-1 /\ CallingThread \notin 0..PoolSize-1
    BY ParallelAssumption
  <1>6. [t \in 0..PoolSize-1 |-> CallingThread]
          \in [0..PoolSize-1 -> (0..PoolSize-1) \cup {CallingThread}]
    OBVIOUS
  <1>7. QED
    BY <1>2, <1>3, <1>4, <1>5, <1>6, ParallelAssumption DEF Facts!PoolAssumption

\* The pool starts as one.
LEMMA PoolStarts == Pool!Init => Facts!IInv
  <1>1. Pool!Init => Facts!Init
    BY DEF Pool!Init, Facts!Init, Pool!Thread, Facts!Thread
  <1>2. Facts!Init => Facts!IInv
    BY PoolInstance, Facts!IInvInit DEF Facts!IInvInit, Facts!PoolAssumption
  <1>3. QED
    BY <1>1, <1>2

\* The actions of the pool that parallel_nt takes.
PoolAction ==
    \/ \E w \in PoolThread : Pool!Spawn(w)
    \/ Pool!Constructed \/ Pool!SpawnFails \/ Pool!Terminate
    \/ ithr \in 0..PoolSize-1 /\ Pool!Enqueue(CallingThread, ithr)
    \/ Pool!Push(CallingThread) \/ Pool!PushFails(CallingThread)
    \/ Pool!NotifyOne(CallingThread)
    \/ Pool!DestroyLock \/ Pool!SetStop \/ Pool!NotifyAll \/ Pool!Joined
    \/ \E w \in PoolThread : Pool!WorkerStep(w) \/ Pool!SpuriousWake(w)

\* Each is a step of the pool.
LEMMA PoolActionSteps ==
    ASSUME PoolAction, ~Facts!Terminated
    PROVE  Facts!Next
  <1> USE DEF PoolThread, Facts!Thread, Pool!Thread
  <1>1. ASSUME NEW w \in PoolThread, Pool!Spawn(w) PROVE Facts!OwnerStep
    BY <1>1 DEF Pool!Spawn, Facts!Spawn, Facts!OwnerStep
  <1>2. CASE Pool!Constructed
    <2>1. Facts!OwnerStep
      BY <1>2 DEF Pool!Constructed, Facts!Constructed, Facts!OwnerStep
    <2>2. QED
      BY <2>1 DEF Facts!Next
  <1>3. CASE Pool!SpawnFails
    <2>1. Facts!SpawnFails
      BY <1>3 DEF Pool!SpawnFails, Facts!SpawnFails
    <2>2. QED
      BY <2>1 DEF Facts!Next
  <1>4. CASE Pool!Terminate
    <2>1. Facts!Terminate
      BY <1>4 DEF Pool!Terminate, Facts!Terminate
    <2>2. QED
      BY <2>1 DEF Facts!Next
  <1>5. CASE ithr \in 0..PoolSize-1 /\ Pool!Enqueue(CallingThread, ithr)
    <2>1. Facts!Enqueue(CallingThread, ithr)
      BY <1>5 DEF Pool!Enqueue, Facts!Enqueue, Pool!MayEnqueue, Facts!MayEnqueue
    <2>2. QED
      BY <1>5, <2>1 DEF Facts!Next
  <1>6. CASE Pool!Push(CallingThread)
    <2>1. Facts!OwnerStep
      BY <1>6 DEF Pool!Push, Facts!Push, Facts!OwnerStep
    <2>2. QED
      BY <2>1 DEF Facts!Next
  <1>7. CASE Pool!NotifyOne(CallingThread)
    <2>1. Facts!OwnerStep
      BY <1>7 DEF Pool!NotifyOne, Facts!NotifyOne, Pool!Waiting, Facts!Waiting,
                  Pool!Caller, Facts!Caller, Facts!OwnerStep
    <2>2. QED
      BY <2>1 DEF Facts!Next
  <1>8. CASE Pool!DestroyLock
    <2>1. Facts!DestroyLock
      BY <1>8 DEF Pool!DestroyLock, Facts!DestroyLock
    <2>2. QED
      BY <2>1 DEF Facts!Next
  <1>9. CASE Pool!SetStop
    <2>1. Facts!OwnerStep
      BY <1>9 DEF Pool!SetStop, Facts!SetStop, Facts!OwnerStep
    <2>2. QED
      BY <2>1 DEF Facts!Next
  <1>10. CASE Pool!NotifyAll
    <2>1. Facts!NotifyAll
      BY <1>10 DEF Pool!NotifyAll, Facts!NotifyAll, Pool!Waiting, Facts!Waiting
    <2>2. QED
      BY <2>1 DEF Facts!Next, Facts!OwnerStep
  <1>11. CASE Pool!Joined
    <2>1. Facts!OwnerStep
      BY <1>11 DEF Pool!Joined, Facts!Joined, Facts!OwnerStep
    <2>2. QED
      BY <2>1 DEF Facts!Next
  <1>12. ASSUME NEW w \in PoolThread, Pool!WorkerStep(w)
         PROVE  Facts!WorkerStep(w)
    <2>1. \/ Facts!Lock(w) \/ Facts!Wait(w) \/ Facts!Exit(w) \/ Facts!Take(w)
          \/ Facts!Return(w) \/ Facts!Push(w) \/ Facts!NotifyOne(w)
      BY <1>12 DEF Pool!WorkerStep, Pool!Lock, Facts!Lock, Pool!Wait, Facts!Wait,
           Pool!Exit, Facts!Exit, Pool!Take, Facts!Take, Pool!Return, Facts!Return,
           Pool!Push, Facts!Push, Pool!NotifyOne, Facts!NotifyOne,
           Pool!Waiting, Facts!Waiting, Pool!Caller, Facts!Caller
    <2>2. QED
      BY <2>1 DEF Facts!WorkerStep
  <1>13. ASSUME NEW w \in PoolThread, Pool!SpuriousWake(w)
         PROVE  Facts!SpuriousWake(w)
    BY <1>13 DEF Pool!SpuriousWake, Facts!SpuriousWake
  <1>14. CASE Pool!PushFails(CallingThread)
    <2>1. Facts!PushFails(CallingThread)
      BY <1>14 DEF Pool!PushFails, Facts!PushFails, Pool!Caller, Facts!Caller
    <2>2. QED
      BY <2>1 DEF Facts!Next
  <1>15. QED
    BY <1>1, <1>2, <1>3, <1>4, <1>5, <1>6, <1>7, <1>8, <1>9, <1>10, <1>11,
       <1>12, <1>13, <1>14 DEF PoolAction, Facts!Next

-----------------------------------------------------------------------------
(* The steps of parallel_nt *)

\* Every disjunct of Next, with the step of the pool it takes.
LEMMA StepCases ==
    ASSUME Next
    PROVE  \/ EnterSerial \/ EnterInline \/ CallFunc \/ FuncReturns \/ LoopEnds
           \/ EnterRegion \/ RegionEnds \/ EnterPool
           \/ \E i \in 0..nthr-1 : ThreadCalls(i) \/ ThreadDone(i)
           \/ ConstructPool \/ ConstructFails \/ ConstructTerminates
           \/ EnqueueCall \/ EnqueueFails \/ PoolOwnerStep \/ DestroyPool \/ PoolJoined
           \/ \E w \in PoolThread : PoolWorker(w) \/ PoolSpurious(w)
  BY DEF Next, CallerStep, RegionStep, Indices, PoolThread

\* What parallel_nt does to the pool, the pool may do.
LEMMA PoolSteps ==
    ASSUME CallInv, [Next]_vars
    PROVE  [Facts!Next]_(Facts!vars)
  <1> USE DEF CallInv
  <1>0. Facts!Terminated => at = "terminated"
    <2>1. pc[CallingThread] = "terminated" => at = "terminated"
      BY DEF Typed, Looping, Teaming, Pooling, Leaving, Untouched
    <2>2. QED
      BY <2>1 DEF Handing, Facts!Terminated, Facts!Thread, PoolThread
  <1>1. CASE UNCHANGED poolVars
    BY <1>1 DEF poolVars, Facts!vars
  <1>2. ASSUME ConstructPool \/ ConstructFails \/ ConstructTerminates
               \/ EnqueueFails \/ PoolOwnerStep \/ DestroyPool \/ PoolJoined
        PROVE  PoolAction
    BY <1>2 DEF ConstructPool, ConstructFails, ConstructTerminates, EnqueueFails,
                PoolOwnerStep, DestroyPool, PoolJoined, PoolAction, PoolThread
  <1>3. ASSUME EnqueueCall PROVE PoolAction
    <2>1. ithr \in 0..PoolSize-1
      BY <1>3, ParallelAssumption DEF EnqueueCall, Pooling, Typed
    <2>2. QED
      BY <1>3, <2>1 DEF EnqueueCall, PoolAction
  <1>4. ASSUME NEW w \in PoolThread, PoolWorker(w) \/ PoolSpurious(w)
        PROVE  PoolAction
    BY <1>4 DEF PoolWorker, PoolSpurious, PoolAction
  <1>5. ASSUME PoolAction, at # "terminated" PROVE Facts!Next
    BY <1>0, <1>5, PoolActionSteps
  <1>6. CASE UNCHANGED vars
    BY <1>1, <1>6 DEF vars
  <1>7. CASE Next
    <2>1. CASE \/ EnterSerial \/ EnterInline \/ CallFunc \/ FuncReturns
               \/ LoopEnds \/ EnterRegion \/ RegionEnds \/ EnterPool
      BY <1>1, <2>1 DEF EnterSerial, EnterInline, CallFunc, FuncReturns,
           LoopEnds, EnterRegion, RegionEnds, EnterPool
    <2>2. CASE \E i \in 0..nthr-1 : ThreadCalls(i) \/ ThreadDone(i)
      BY <1>1, <2>2 DEF ThreadCalls, ThreadDone
    <2>3. CASE \/ ConstructPool \/ ConstructFails \/ ConstructTerminates
               \/ EnqueueCall \/ EnqueueFails \/ PoolOwnerStep \/ DestroyPool
               \/ PoolJoined
      <3>1. at # "terminated"
        BY <2>3 DEF ConstructPool, ConstructFails, ConstructTerminates,
             EnqueueCall, EnqueueFails, PoolOwnerStep, DestroyPool, PoolJoined
      <3>2. QED
        BY <1>2, <1>3, <1>5, <2>3, <3>1
    <2>4. CASE \E w \in PoolThread : PoolWorker(w) \/ PoolSpurious(w)
      <3>1. at # "terminated"
        BY <2>4 DEF PoolWorker, PoolSpurious
      <3>2. QED
        BY <1>4, <1>5, <2>4, <3>1
    <2>5. QED
      BY <1>7, <2>1, <2>2, <2>3, <2>4, StepCases
  <1>8. QED
    BY <1>6, <1>7

\* So the invariants of the pool hold of it.
LEMMA PoolKept == Facts!IInv /\ CallInv /\ [Next]_vars => Facts!IInv'
  <1>1. Facts!IInv /\ [Facts!Next]_(Facts!vars) => Facts!IInv'
    BY PoolInstance, Facts!IInvNext DEF Facts!IInvNext, Facts!PoolAssumption
  <1>2. QED
    BY <1>1, PoolSteps

-----------------------------------------------------------------------------
(* CallInv is inductive *)

\* The types of the pool's state, and who is in the middle of an enqueue.
LEMMA PoolTypes ==
    ASSUME Facts!IInv
    PROVE  /\ pc \in [PoolThread \cup {CallingThread}
                       -> Facts!WorkerPC \cup Facts!OwnerPC]
           /\ pc[CallingThread] \in Facts!OwnerPC
           /\ pending \in [PoolThread \cup {CallingThread}
                            -> (0..PoolSize-1) \cup {NoTask}]
           /\ pending[CallingThread] # NoTask <=> pc[CallingThread] = "push"
           /\ CallingThread \notin PoolThread
           /\ 0..PoolSize-1 # {} /\ NoTask \notin 0..PoolSize-1
           /\ PoolSize \in Nat /\ PoolSize > 1
  <1>1. PoolSize \in Nat /\ PoolSize > 1
    BY ParallelAssumption
  <1>2. NoTask \notin 0..PoolSize-1 /\ CallingThread \notin PoolThread
    BY ParallelAssumption DEF PoolThread
  <1>3. Facts!TypeOK /\ Facts!Positions
    BY DEF Facts!IInv, Facts!Typed
  <1>4. /\ pc \in [PoolThread \cup {CallingThread}
                    -> Facts!WorkerPC \cup Facts!OwnerPC]
        /\ pc[CallingThread] \in Facts!OwnerPC
        /\ pending \in [PoolThread \cup {CallingThread}
                         -> (0..PoolSize-1) \cup {NoTask}]
    BY <1>3 DEF Facts!TypeOK, Facts!Thread, PoolThread
  <1>5. pending[CallingThread] # NoTask <=> pc[CallingThread] = "push"
    BY <1>3 DEF Facts!Positions, Facts!Thread
  <1>6. QED
    BY <1>1, <1>2, <1>4, <1>5

\* A destructor that has returned has joined every worker.
LEMMA JoinedAll ==
    ASSUME Facts!IInv, pc[CallingThread] = "closed"
    PROVE  \A w \in PoolThread : pc[w] = "exit"
  BY DEF Facts!IInv, Facts!Typed, Facts!Positions, PoolThread

\* A step of a worker leaves its owner, the other workers and what was handed
\* over alone.
LEMMA WorkerEffect ==
    ASSUME Facts!IInv, Handing, NEW w \in PoolThread,
           Pool!WorkerStep(w) \/ Pool!SpuriousWake(w)
    PROVE  /\ pc[w] \notin {"new", "exit"}
           /\ pc'[w] \notin {"new", "push", "notify", "terminated"}
           /\ pc' = [pc EXCEPT ![w] = pc'[w]]
           /\ UNCHANGED <<submitted, pending>>
  <1> USE PoolTypes DEF Handing
  <1>1. CASE Pool!Lock(w)
    BY <1>1 DEF Pool!Lock
  <1>2. CASE Pool!Wait(w)
    BY <1>2 DEF Pool!Wait
  <1>3. CASE Pool!Exit(w)
    BY <1>3 DEF Pool!Exit
  <1>4. CASE Pool!Take(w)
    BY <1>4 DEF Pool!Take
  <1>5. CASE Pool!Return(w)
    BY <1>5 DEF Pool!Return
  <1>6. ~Pool!Push(w) /\ ~Pool!NotifyOne(w)
    BY DEF Pool!Push, Pool!NotifyOne
  <1>7. CASE Pool!SpuriousWake(w)
    BY <1>7 DEF Pool!SpuriousWake
  <1>8. QED
    BY <1>1, <1>2, <1>3, <1>4, <1>5, <1>6, <1>7 DEF Pool!WorkerStep

\* The call starts with no pool.
LEMMA CallInvInit == Init => CallInv
  <1> SUFFICES ASSUME Init PROVE CallInv
    OBVIOUS
  <1> USE ParallelAssumption DEF Init, Pool!Init, Pool!Thread, PoolThread
  <1>1. Untouched
    BY DEF Untouched
  <1>2. Typed /\ Looping
    BY <1>1 DEF Typed, Looping
  <1>3. Teaming /\ Pooling /\ Leaving
    BY DEF Teaming, Pooling, Leaving
  <1>4. Handing
    BY DEF Handing
  <1>5. QED
    BY <1>2, <1>3, <1>4 DEF CallInv

\* The team a request comes to.
LEMMA TeamOfRequest ==
    ASSUME NEW n \in Requests
    PROVE  /\ Threads(n) \in Nat \ {0} /\ Threads(n) <= MaxTeam
           /\ n > 0 => Threads(n) = n
  BY ParallelAssumption DEF Threads, AtLeastOne

\* Steps that leave the pool alone.
LEMMA OutsidePool ==
    ASSUME CallInv, UNCHANGED poolVars,
           \/ EnterSerial \/ EnterInline \/ CallFunc \/ FuncReturns
           \/ LoopEnds \/ EnterRegion \/ RegionEnds \/ EnterPool
           \/ \E i \in 0..nthr-1 : ThreadCalls(i) \/ ThreadDone(i)
    PROVE  CallInv'
  <1> USE ParallelAssumption, TeamOfRequest DEF CallInv, Typed, poolVars
  <1>0. /\ Untouched' <=> Untouched
        /\ Handing' <=> Handing
    BY DEF Untouched, Handing
  <1>1. CASE EnterSerial
    <2>1. /\ team = 0 /\ nthr \in Requests /\ nthr \in Int
          /\ Untouched /\ ithr = 0 /\ begun = {} /\ ended = {}
      BY <1>1 DEF EnterSerial, Looping
    <2>2. Threads(nthr) \in Nat \ {0} /\ Threads(nthr) <= MaxTeam
          /\ (nthr > 0 => Threads(nthr) = nthr)
      BY <2>1, TeamOfRequest
    <2>3. QED
      BY <1>0, <1>1, <2>1, <2>2
      DEF EnterSerial, Looping, Teaming, Pooling, Leaving
  <1>2. CASE EnterInline
    <2>1. /\ team = 0 /\ nthr \in Requests /\ nthr \in Int
          /\ Untouched /\ ithr = 0 /\ begun = {} /\ ended = {}
      BY <1>2 DEF EnterInline, Looping
    <2>2. Threads(nthr) \in Nat \ {0} /\ Threads(nthr) <= MaxTeam
          /\ (nthr > 0 => Threads(nthr) = nthr)
      BY <2>1, TeamOfRequest
    <2>3. QED
      BY <1>0, <1>2, <2>1, <2>2
      DEF EnterInline, Looping, Teaming, Pooling, Leaving
  <1>3. CASE CallFunc
    BY <1>0, <1>3 DEF CallFunc, Looping, Teaming, Pooling, Leaving
  <1>4. CASE FuncReturns
    BY <1>0, <1>4 DEF FuncReturns, Looping, Teaming, Pooling, Leaving
  <1>5. CASE LoopEnds
    BY <1>0, <1>5 DEF LoopEnds, Looping, Teaming, Pooling, Leaving
  <1>6. CASE EnterRegion
    <2>1. /\ team = 0 /\ nthr \in Requests /\ nthr \in Int
          /\ Untouched /\ ithr = 0 /\ begun = {} /\ ended = {}
      BY <1>6 DEF EnterRegion, Looping
    <2>2. Threads(nthr) \in Nat \ {0} /\ Threads(nthr) <= MaxTeam
          /\ (nthr > 0 => Threads(nthr) = nthr)
      BY <2>1, TeamOfRequest
    <2>3. QED
      BY <1>0, <1>6, <2>1, <2>2
      DEF EnterRegion, Looping, Teaming, Pooling, Leaving
  <1>7. CASE RegionEnds
    BY <1>0, <1>7 DEF RegionEnds, Looping, Teaming, Pooling, Leaving
  <1>8. CASE EnterPool
    BY <1>0, <1>8 DEF EnterPool, Looping, Teaming, Pooling, Leaving, Untouched
  <1>9. ASSUME NEW i \in 0..nthr-1, ThreadCalls(i) PROVE CallInv'
    BY <1>0, <1>9 DEF ThreadCalls, Looping, Teaming, Pooling, Leaving
  <1>10. ASSUME NEW i \in 0..nthr-1, ThreadDone(i) PROVE CallInv'
    BY <1>0, <1>10 DEF ThreadDone, Looping, Teaming, Pooling, Leaving
  <1>11. QED
    BY <1>1, <1>2, <1>3, <1>4, <1>5, <1>6, <1>7, <1>8, <1>9, <1>10

\* Steps of the caller that are steps of the pool's owner, and the workers'.
LEMMA InsidePool ==
    ASSUME CallInv, Facts!IInv,
           \/ ConstructPool \/ ConstructFails \/ ConstructTerminates
           \/ EnqueueCall \/ EnqueueFails \/ PoolOwnerStep \/ DestroyPool \/ PoolJoined
           \/ \E w \in PoolThread : PoolWorker(w) \/ PoolSpurious(w)
    PROVE  CallInv'
  <1> USE PoolTypes DEF CallInv, Typed
  <1>1. ASSUME ConstructPool, NEW w \in PoolThread, Pool!Spawn(w), at' = at,
               team' = team
        PROVE  CallInv'
    BY <1>1 DEF ConstructPool, Pool!Spawn, Looping, Teaming, Pooling, Leaving,
                Handing
  <1>2. CASE ConstructPool /\ Pool!Constructed /\ at' = "pool" /\ team' = nthr
    <2>1. at = "construct" /\ pc[CallingThread] = "ctor"
      BY <1>2 DEF ConstructPool, Pooling
    <2>2. Handed = {} /\ Handed' = {}
      BY <1>2, <2>1 DEF Pool!Constructed, Handed, Handing
    <2>3. QED
      BY <1>2, <2>1, <2>2
      DEF ConstructPool, Pool!Constructed, Looping, Teaming, Pooling, Leaving,
          Handing, PoolThread
  <1>3. CASE ConstructFails
    BY <1>3 DEF ConstructFails, Pool!SpawnFails, Looping, Teaming, Pooling,
                Leaving, Handing, PoolThread
  <1>4. CASE ConstructTerminates
    BY <1>4 DEF ConstructTerminates, Pool!Terminate, Looping, Teaming, Pooling,
                Leaving, Handing, PoolThread
  <1>5. CASE EnqueueCall
    <2>1. at = "pool" /\ ithr < nthr /\ Pool!Enqueue(CallingThread, ithr)
      BY <1>5 DEF EnqueueCall
    <2>2. pc[CallingThread] = "open" /\ pc' = [pc EXCEPT ![CallingThread] = "push"]
      BY <2>1 DEF Pool!Enqueue, Pool!MayEnqueue
    <2>3. Handed' = Handed \cup {ithr}
      <3>1. pending[CallingThread] = NoTask /\ pending'[CallingThread] = ithr
        BY <2>1, <2>2 DEF Pool!Enqueue
      <3>2. ithr # NoTask
        BY ParallelAssumption
      <3>3. QED
        BY <2>1, <3>1, <3>2 DEF Pool!Enqueue, Handed
    <2>4. Handed' = 0..ithr'-1
      BY <1>5, <2>1, <2>3 DEF EnqueueCall, Pooling
    <2>5. QED
      BY <1>5, <2>1, <2>2, <2>4
      DEF EnqueueCall, Pool!Enqueue, Looping, Teaming, Pooling, Leaving, Handing,
          PoolThread
  <1>6. CASE PoolOwnerStep
    <2>0. /\ at \in {"pool", "throwing"}
          /\ UNCHANGED <<build, nthr, at, ithr, team, begun, ended>>
      BY <1>6 DEF PoolOwnerStep
    <2>1. /\ Handed' = Handed /\ pc'[CallingThread] \in {"open", "notify",
                "notify_all", "join"}
          /\ \A w \in PoolThread : pc'[w] = pc[w] \/ pc'[w] = "lock"
          /\ pc'[CallingThread] \in {"notify_all", "join"}
               => pc[CallingThread] \in {"stop", "notify_all"}
          /\ pc'[CallingThread] = "notify" => pc[CallingThread] = "push"
      <3>1. CASE Pool!Push(CallingThread)
        BY <3>1 DEF Pool!Push, Handed
      <3>2. CASE Pool!NotifyOne(CallingThread)
        BY <3>2 DEF Pool!NotifyOne, Pool!Waiting, Pool!Caller, Handed, PoolThread
      <3>3. CASE Pool!SetStop
        BY <3>3 DEF Pool!SetStop, Handed
      <3>4. CASE Pool!NotifyAll
        BY <3>4 DEF Pool!NotifyAll, Pool!Thread, Pool!Waiting, Handed, PoolThread
      <3>5. QED
        BY <1>6, <3>1, <3>2, <3>3, <3>4 DEF PoolOwnerStep
    <2>2. QED
      BY <2>0, <2>1 DEF Looping, Teaming, Pooling, Leaving, Handing
  <1>7. CASE DestroyPool
    <2>1. Handed' = Handed
      BY <1>7 DEF DestroyPool, Pool!DestroyLock, Handed
    <2>2. QED
      BY <1>7, <2>1 DEF DestroyPool, Pool!DestroyLock, Looping, Teaming, Pooling,
           Leaving, Handing
  <1>8. CASE PoolJoined
    BY <1>8 DEF PoolJoined, Pool!Joined, Looping, Teaming, Pooling, Leaving,
                Handing, PoolThread
  <1>9. ASSUME NEW w \in PoolThread, PoolWorker(w) \/ PoolSpurious(w)
        PROVE  CallInv'
    <2>1. /\ Pool!WorkerStep(w) \/ Pool!SpuriousWake(w)
          /\ UNCHANGED <<build, nthr, at, ithr, team, begun, ended>>
      BY <1>9 DEF PoolWorker, PoolSpurious
    <2>2. /\ pc[w] \notin {"new", "exit"}
          /\ pc'[w] \notin {"new", "push", "notify", "terminated"}
          /\ pc' = [pc EXCEPT ![w] = pc'[w]]
          /\ UNCHANGED <<submitted, pending>>
      BY <2>1, WorkerEffect
    <2>3. Handed' = Handed /\ pc'[CallingThread] = pc[CallingThread]
          /\ (\A v \in PoolThread : v # w => pc'[v] = pc[v])
      BY <2>2 DEF Handed
    <2>4. ~Untouched /\ pc[CallingThread] # "closed"
      BY <2>2, JoinedAll DEF Untouched
    <2>5. at \notin {"entry", "loop", "func", "region", "threw"}
      BY <2>2, <2>4 DEF Looping, Teaming, Leaving
    <2>6. Typed' /\ Looping' /\ Teaming'
      BY <2>1, <2>5 DEF Looping, Teaming
    <2>7. Pooling'
      BY <2>1, <2>3 DEF Pooling
    <2>8. Leaving'
      BY <2>1, <2>3, <2>4, <2>5 DEF Leaving
    <2>9. Handing'
      BY <2>2, <2>3 DEF Handing
    <2>10. QED
      BY <2>6, <2>7, <2>8, <2>9
  <1>10. CASE EnqueueFails
    BY <1>10 DEF EnqueueFails, Pool!PushFails, Pool!Caller, Looping, Teaming,
                 Pooling, Leaving, Handing, PoolThread
  <1>11. QED
    BY <1>1, <1>2, <1>3, <1>4, <1>5, <1>6, <1>7, <1>8, <1>9, <1>10
    DEF ConstructPool, PoolThread

\* Every step keeps CallInv.
LEMMA CallInvNext == CallInv /\ Facts!IInv /\ [Next]_vars => CallInv'
  <1> SUFFICES ASSUME CallInv, Facts!IInv, [Next]_vars PROVE CallInv'
    OBVIOUS
  <1>1. CASE UNCHANGED vars
    BY <1>1 DEF vars, poolVars, CallInv, Typed, Looping, Teaming, Pooling, Leaving,
         Handing, Handed, Untouched
  <1>2. CASE \/ EnterSerial \/ EnterInline \/ CallFunc \/ FuncReturns
             \/ LoopEnds \/ EnterRegion \/ RegionEnds \/ EnterPool
             \/ \E i \in 0..nthr-1 : ThreadCalls(i) \/ ThreadDone(i)
    <2>1. UNCHANGED poolVars
      BY <1>2 DEF EnterSerial, EnterInline, CallFunc, FuncReturns, LoopEnds,
           EnterRegion, RegionEnds, EnterPool, ThreadCalls, ThreadDone
    <2>2. QED
      BY <1>2, <2>1, OutsidePool
  <1>3. QED
    BY <1>1, <1>2, InsidePool, StepCases

\* The invariant of the call and that of its pool.
LEMMA Composed == Safety => [](CallInv /\ Facts!IInv)
  <1>1. Init => CallInv /\ Facts!IInv
    BY CallInvInit, PoolStarts DEF Init
  <1>2. CallInv /\ Facts!IInv /\ [Next]_vars => (CallInv /\ Facts!IInv)'
    BY CallInvNext, PoolKept
  <1>3. QED
    BY <1>1, <1>2, PTL DEF Safety

-----------------------------------------------------------------------------
(* No call outlives the frame *)

\* A pool that was given nothing runs nothing.
LEMMA Idle ==
    ASSUME Facts!IInv, submitted = {}
    PROVE  Pool!Running = {} /\ done = {} /\ tasks = <<>>
  <1>1. Facts!Running = {} /\ done = {} /\ Facts!InQueue = {}
    BY DEF Facts!IInv, Facts!Accounted, Facts!Accounting
  <1>2. Pool!Running = Facts!Running
    BY DEF Pool!Running, Facts!Running, Pool!Executing, Facts!Executing
  <1>3. tasks \in Seq(0..PoolSize-1)
    BY DEF Facts!IInv, Facts!Typed, Facts!TypeOK
  <1>4. tasks # <<>> => tasks[1] \in Facts!InQueue
    BY <1>3 DEF Facts!InQueue
  <1>5. QED
    BY <1>1, <1>2, <1>4

\* Nor does one whose workers have all left.
LEMMA Drained ==
    ASSUME Facts!IInv, \A w \in PoolThread : pc[w] = "exit"
    PROVE  Pool!Running = {} /\ submitted = done /\ tasks = <<>>
  <1>1. submitted = done
    BY PoolInstance, Facts!AllLeft DEF Facts!AllLeft, Facts!PoolAssumption, PoolThread
  <1>2. tasks = <<>>
    BY DEF Facts!IInv, Facts!QueueServed, PoolThread
  <1>3. Pool!Executing = {}
    BY DEF Facts!IInv, Facts!Typed, Facts!Positions, Pool!Executing, PoolThread
  <1>4. QED
    BY <1>1, <1>2, <1>3 DEF Pool!Running

\* Without a pool, or before its construction is over, no task runs.
LEMMA NothingHanded ==
    ASSUME CallInv, Facts!IInv,
           pc[CallingThread] \in {"ctor", "threw", "unwind", "terminated"}
    PROVE  Pool!Running = {} /\ done = {} /\ tasks = <<>>
  BY Idle DEF CallInv, Handing

\* parallel_nt is left, normally or by an exception, only when no call of func
\* is queued or running, whichever build made them: the locals func captures
\* by reference outlive its calls.
THEOREM FrameSafe == Safety => []FrameOutlivesCalls
  <1>1. CallInv /\ Facts!IInv => FrameOutlivesCalls
    <2> SUFFICES ASSUME CallInv, Facts!IInv, at \in {"returned", "threw"}
                 PROVE  /\ Begun = Ended
                        /\ tasks = <<>>
                        /\ \A w \in PoolThread : pc[w] \in {"new", "exit"}
      BY DEF FrameOutlivesCalls, PoolThread
    <2>1. CASE at = "threw" /\ pc[CallingThread] = "threw"
      <3>1. team = 0 /\ \A w \in PoolThread : pc[w] = "new"
        BY <2>1 DEF CallInv, Leaving
      <3>2. begun = {} /\ ended = {}
        BY <3>1 DEF CallInv, Typed
      <3>3. QED
        BY <2>1, <3>1, <3>2, NothingHanded DEF Begun, Ended
    <2>2. CASE at = "returned" /\ Untouched
      <3>1. begun = ended /\ pc[CallingThread] = "ctor"
        BY <2>2 DEF CallInv, Leaving, Untouched
      <3>2. QED
        BY <2>2, <3>1, NothingHanded DEF Begun, Ended, Untouched
    <2>3. CASE pc[CallingThread] = "closed"
      <3>1. begun = ended
        BY <2>3 DEF CallInv, Typed, Leaving
      <3>2. QED
        BY <2>3, <3>1, JoinedAll, Drained DEF Begun, Ended
    <2>4. QED
      BY <2>1, <2>2, <2>3 DEF CallInv, Leaving
  <1>2. QED
    BY <1>1, Composed, PTL

-----------------------------------------------------------------------------
(* Each build forks and joins *)

\* The pool starts with nobody in the middle of an enqueue.
LEMMA EntitledStarts == Pool!Init => Facts!Entitled
  BY DEF Pool!Init, Facts!Entitled, Pool!Thread, Facts!Thread

\* Whoever is in the middle of an enqueue was entitled to it.
LEMMA EntitledKept ==
    Facts!IInv /\ Facts!IInv' /\ Facts!Entitled /\ CallInv /\ [Next]_vars
      => Facts!Entitled'
  <1>1. Facts!IInv => Facts!Typed
    BY DEF Facts!IInv
  <1>2. Facts!IInv' => Facts!Typed'
    BY DEF Facts!IInv
  <1>3. Facts!Typed /\ Facts!Typed' /\ Facts!Entitled /\ [Facts!Next]_(Facts!vars)
          => Facts!Entitled'
    BY PoolInstance, Facts!EntitledNext DEF Facts!EntitledNext, Facts!PoolAssumption
  <1>4. QED
    BY <1>1, <1>2, <1>3, PoolSteps

\* What a step does to the calls the pool runs: nothing, the start of one that
\* was handed over, or the end of one that runs.
PoolEffect ==
    \/ UNCHANGED <<Pool!Running, done>>
    \/ \E t \in submitted \ (Pool!Running \cup done) :
          Pool!Running' = Pool!Running \cup {t} /\ UNCHANGED done
    \/ \E t \in Pool!Running :
          Pool!Running' = Pool!Running \ {t} /\ done' = done \cup {t}

\* It is what the refinement of the pool says of it.
LEMMA PoolEffects ==
    ASSUME Facts!IInv, Facts!IInv', Facts!Entitled, CallInv, [Next]_vars
    PROVE  PoolEffect
  <1>1. [Facts!Next]_(Facts!vars)
    BY PoolSteps
  <1>2. [Facts!Pool!Next]_(Facts!Pool!vars)
    BY <1>1, PoolInstance, Facts!RefinementNext
    DEF Facts!RefinementNext, Facts!PoolAssumption
  <1>3. Pool!Running = Facts!Running /\ Pool!Running' = Facts!Running'
    BY DEF Pool!Running, Facts!Running, Pool!Executing, Facts!Executing
  <1>4. QED
    BY <1>2, <1>3
    DEF PoolEffect, Facts!Pool!Next, Facts!Pool!vars, Facts!Pool!Open,
        Facts!Pool!Fail, Facts!Pool!Close, Facts!Pool!Closed, Facts!Pool!Submit,
        Facts!Pool!Start, Facts!Pool!Finish

\* The call starts as a fork that has not happened.
LEMMA RefinementInit == Init => Region!Init
  <1> SUFFICES ASSUME Init PROVE Region!Init
    OBVIOUS
  <1>1. Pool!Running = {} /\ done = {}
    BY DEF Init, Pool!Init, Pool!Running, Pool!Executing
  <1>2. QED
    BY <1>1 DEF Init, Region!Init, Begun, Ended, Outcome

\* Steps that leave the pool alone are those of the loop, of the region, or
\* not seen.
LEMMA OutsideRefines ==
    ASSUME CallInv, Facts!IInv, UNCHANGED poolVars,
           \/ EnterSerial \/ EnterInline \/ CallFunc \/ FuncReturns
           \/ LoopEnds \/ EnterRegion \/ RegionEnds \/ EnterPool
           \/ \E i \in 0..nthr-1 : ThreadCalls(i) \/ ThreadDone(i)
    PROVE  Region!Next \/ UNCHANGED Region!vars
  <1> USE DEF Outcome, Region!Next
  <1>0. Typed /\ Looping /\ Teaming
    BY DEF CallInv
  <1>1. at \in {"entry", "loop", "func", "region"}
    BY DEF EnterSerial, EnterInline, CallFunc, FuncReturns, LoopEnds,
           EnterRegion, RegionEnds, EnterPool, ThreadCalls, ThreadDone
  <1>2. pc[CallingThread] = "ctor"
    BY <1>0, <1>1 DEF Looping, Teaming, Untouched
  <1>3. Pool!Running = {} /\ done = {}
    BY <1>2, NothingHanded
  <1>4. Pool!Running' = {} /\ done' = {}
    BY <1>3 DEF poolVars, Pool!Running, Pool!Executing
  <1>5. /\ Begun = begun /\ Ended = ended
        /\ Begun' = begun' /\ Ended' = ended'
    BY <1>3, <1>4 DEF Begun, Ended
  <1>6. CASE EnterSerial \/ EnterInline \/ EnterRegion
    <2>1. /\ team = 0 /\ nthr \in Requests /\ nthr \in Int
          /\ at = "entry" /\ at' \in {"loop", "region"}
          /\ UNCHANGED <<begun, ended>>
      BY <1>0, <1>6 DEF EnterSerial, EnterInline, EnterRegion, Looping, Typed
    <2>2. Threads(nthr) \in Nat \ {0} /\ Threads(nthr) <= MaxTeam
          /\ (nthr > 0 => Threads(nthr) = nthr)
      BY <2>1, TeamOfRequest
    <2>3. team' \in 1..MaxTeam
      <3>1. CASE EnterSerial
        BY <3>1, <1>0, <2>1, <2>2 DEF EnterSerial, Looping
      <3>2. CASE EnterInline
        BY <3>2, <2>1, <2>2, ParallelAssumption DEF EnterInline
      <3>3. CASE EnterRegion
        BY <3>3, <2>1, <2>2, ParallelAssumption DEF EnterRegion
      <3>4. QED
        BY <1>6, <3>1, <3>2, <3>3
    <2>4. Region!Fork(team')
      BY <1>5, <2>1, <2>3 DEF Region!Fork
    <2>5. QED
      BY <2>3, <2>4
  <1>7. CASE CallFunc
    <2>1. ithr \in 0..team-1 /\ ithr \notin begun
      BY <1>0, <1>7, ParallelAssumption DEF CallFunc, Looping, Typed
    <2>2. Region!Begin(ithr)
      BY <1>5, <1>7, <2>1 DEF CallFunc, Region!Begin
    <2>3. QED
      BY <1>0, <2>1, <2>2, ParallelAssumption DEF Typed
  <1>8. CASE FuncReturns
    <2>1. ithr \in begun \ ended
      BY <1>0, <1>8 DEF FuncReturns, Looping, Typed
    <2>2. Region!End(ithr)
      BY <1>5, <1>8, <2>1 DEF FuncReturns, Region!End
    <2>3. QED
      BY <1>0, <2>1, <2>2, ParallelAssumption DEF Typed
  <1>9. CASE LoopEnds \/ RegionEnds
    <2>1. team > 0 /\ ended = 0..team-1
      <3>1. CASE LoopEnds
        BY <1>0, <3>1 DEF LoopEnds, Looping, Typed
      <3>2. CASE RegionEnds
        BY <1>0, <3>2 DEF RegionEnds, Teaming
      <3>3. QED
        BY <1>9, <3>1, <3>2
    <2>2. Region!Return
      BY <1>5, <1>9, <2>1 DEF LoopEnds, RegionEnds, Region!Return
    <2>3. QED
      BY <2>2
  <1>10. CASE EnterPool
    BY <1>5, <1>10 DEF EnterPool, Region!vars
  <1>11. ASSUME NEW i \in 0..nthr-1, ThreadCalls(i)
         PROVE  Region!Next
    <2>1. Region!Begin(i) /\ i \in 0..team-1
      BY <1>5, <1>11 DEF ThreadCalls, Region!Begin
    <2>2. QED
      BY <1>0, <2>1, ParallelAssumption DEF Typed
  <1>12. ASSUME NEW i \in 0..nthr-1, ThreadDone(i)
         PROVE  Region!Next
    <2>1. Region!End(i) /\ i \in 0..team-1
      BY <1>0, <1>5, <1>12 DEF ThreadDone, Region!End, Typed
    <2>2. QED
      BY <1>0, <2>1, ParallelAssumption DEF Typed
  <1>13. QED
    BY <1>6, <1>7, <1>8, <1>9, <1>10, <1>11, <1>12

\* While there is a pool, the calls are those its workers make.
LEMMA PoolRefines ==
    ASSUME CallInv, Facts!IInv, PoolEffect, UNCHANGED <<team, begun, ended>>,
           Outcome' = Outcome, begun = {},
           submitted # {} => team = PoolSize /\ Outcome = "pending"
    PROVE  Region!Next \/ UNCHANGED Region!vars
  <1> USE DEF Region!Next, Region!vars, Begun, Ended
  <1>1. ended = {} /\ PoolSize \in Nat /\ team \in 0..MaxTeam
    BY ParallelAssumption DEF CallInv, Typed
  <1>2. submitted \subseteq 0..PoolSize-1
    BY DEF Facts!IInv, Facts!Typed, Facts!TypeOK
  <1>3. Pool!Running \subseteq submitted /\ Pool!Running \cap done = {}
    <2>1. Facts!Running = Pool!Running
      BY DEF Pool!Running, Facts!Running, Pool!Executing, Facts!Executing
    <2>2. QED
      BY <2>1 DEF Facts!IInv, Facts!Accounted, Facts!Accounting
  <1>4. CASE UNCHANGED <<Pool!Running, done>>
    BY <1>4
  <1>5. ASSUME NEW t \in submitted \ (Pool!Running \cup done),
               Pool!Running' = Pool!Running \cup {t}, UNCHANGED done
        PROVE  Region!Next
    <2>1. t \in 0..team-1 /\ t \in 0..MaxTeam-1 /\ Outcome = "pending"
      BY <1>1, <1>2, ParallelAssumption
    <2>2. Region!Begin(t)
      BY <1>1, <1>5, <2>1 DEF Region!Begin
    <2>3. QED
      BY <2>1, <2>2
  <1>6. ASSUME NEW t \in Pool!Running,
               Pool!Running' = Pool!Running \ {t}, done' = done \cup {t}
        PROVE  Region!Next
    <2>1. t \in 0..MaxTeam-1
      BY <1>1, <1>2, <1>3, ParallelAssumption
    <2>2. Region!End(t)
      BY <1>1, <1>3, <1>6 DEF Region!End
    <2>3. QED
      BY <2>1, <2>2
  <1>7. QED
    BY <1>4, <1>5, <1>6 DEF PoolEffect

\* Steps of the owner and of the workers: the construction of the pool forks,
\* its failure throws, the join returns.
LEMMA InsideRefines ==
    ASSUME CallInv, Facts!IInv, PoolEffect,
           \/ ConstructPool \/ ConstructFails \/ ConstructTerminates
           \/ EnqueueCall \/ EnqueueFails \/ PoolOwnerStep \/ DestroyPool \/ PoolJoined
           \/ \E w \in PoolThread : PoolWorker(w) \/ PoolSpurious(w)
    PROVE  Region!Next \/ UNCHANGED Region!vars
  <1>0. Typed /\ Looping /\ Pooling /\ Leaving /\ Handing
    BY DEF CallInv
  <1> DEFINE Here == UNCHANGED <<at, team, begun, ended>>
  <1>1. CASE Here /\ at = "construct"
    <2>1. begun = {} /\ submitted = {}
      BY <1>0, <1>1 DEF Pooling, Handing
    <2>2. QED
      BY <1>1, <2>1, PoolRefines DEF Outcome
  <1>2. CASE Here /\ at \in {"pool", "throwing"}
    <2>1. begun = {} /\ team = PoolSize
      BY <1>0, <1>2 DEF Pooling
    <2>2. QED
      BY <1>2, <2>1, PoolRefines DEF Outcome
  <1>2a. CASE EnqueueFails
    <2>1. /\ at = "pool" /\ at' = "throwing" /\ UNCHANGED <<team, begun, ended>>
          /\ begun = {} /\ team = PoolSize
      BY <1>0, <1>2a DEF EnqueueFails, Pooling
    <2>2. QED
      BY <2>1, PoolRefines DEF Outcome
  <1>3. CASE ConstructPool /\ Pool!Constructed /\ at' = "pool" /\ team' = nthr
    <2>1. /\ at = "construct" /\ team = 0 /\ team' \in 1..MaxTeam
          /\ UNCHANGED <<begun, ended>>
      BY <1>0, <1>3, ParallelAssumption DEF ConstructPool, Pooling
    <2>2. UNCHANGED <<Pool!Running, done>>
      BY <1>3 DEF Pool!Constructed, Pool!Running, Pool!Executing
    <2>3. Region!Fork(team')
      BY <1>3, <2>1, <2>2 DEF Region!Fork, Begun, Ended, Outcome
    <2>4. QED
      BY <2>1, <2>3 DEF Region!Next
  <1>4. CASE ConstructFails \/ ConstructTerminates
    <2>1. /\ team = 0 /\ at \in {"construct", "unwind"}
          /\ UNCHANGED <<team, begun, ended>>
      BY <1>0, <1>4 DEF ConstructFails, ConstructTerminates, Pooling, Leaving
    <2>2. UNCHANGED <<Pool!Running, done>>
      BY <1>4 DEF ConstructFails, ConstructTerminates, Pool!SpawnFails,
           Pool!Terminate, Pool!Running, Pool!Executing
    <2>3. \/ at = "construct" /\ at' \in {"threw", "unwind"}
          \/ at = "unwind" /\ at' = "terminated"
      BY <1>4, PoolTypes DEF ConstructFails, ConstructTerminates, Pool!SpawnFails
    <2>4. CASE at = "construct" /\ at' = "threw"
      <3>1. Begun = {} /\ Ended = {}
        BY <1>0, <2>4, NothingHanded DEF Pooling, Typed, Begun, Ended
      <3>2. Region!Throw
        BY <2>1, <2>2, <2>4, <3>1 DEF Region!Throw, Begun, Ended, Outcome
      <3>3. QED
        BY <3>2 DEF Region!Next
    <2>5. CASE at = "construct" /\ at' = "unwind"
      BY <2>1, <2>2, <2>5 DEF Region!Fail, Region!Next, Begun, Ended, Outcome
    <2>6. CASE at = "unwind" /\ at' = "terminated"
      BY <2>1, <2>2, <2>6 DEF Region!vars, Begun, Ended, Outcome
    <2>7. QED
      BY <2>3, <2>4, <2>5, <2>6
  <1>5. CASE PoolJoined
    <2>1. /\ \/ at = "pool" /\ at' = "returned"
             \/ at = "throwing" /\ at' = "threw"
          /\ UNCHANGED <<team, begun, ended>> /\ pc[CallingThread] = "join"
          /\ \A w \in PoolThread : pc[w] = "exit"
          /\ UNCHANGED <<holding, done>>
      BY <1>5 DEF PoolJoined, Pool!Joined, PoolThread
    <2>2. Pool!Running = {} /\ submitted = done
      BY <2>1, Drained
    <2>3. UNCHANGED <<Pool!Running, done>>
      BY <2>1 DEF Pool!Running, Pool!Executing
    <2>4. pending[CallingThread] = NoTask
      BY <2>1, PoolTypes
    <2>5. begun = {} /\ ended = {} /\ team = PoolSize
      BY <1>0, <2>1 DEF Pooling, Typed
    <2>6. CASE at = "pool"
      <3>1. submitted = 0..PoolSize-1
        BY <1>0, <2>1, <2>4, <2>6 DEF Pooling, Handed
      <3>2. Region!Return
        BY <2>1, <2>2, <2>3, <2>5, <2>6, <3>1, PoolTypes
        DEF Region!Return, Begun, Ended, Outcome
      <3>3. QED
        BY <3>2 DEF Region!Next
    <2>7. CASE at = "throwing"
      <3>1. Region!Throw
        BY <2>1, <2>2, <2>3, <2>5, <2>7 DEF Region!Throw, Begun, Ended, Outcome
      <3>2. QED
        BY <3>1 DEF Region!Next
    <2>8. QED
      BY <2>1, <2>6, <2>7
  <1>6. ASSUME NEW w \in PoolThread, PoolWorker(w) \/ PoolSpurious(w)
        PROVE  Region!Next \/ UNCHANGED Region!vars
    <2>1. /\ Here
          /\ Pool!WorkerStep(w) \/ Pool!SpuriousWake(w)
      BY <1>6 DEF PoolWorker, PoolSpurious
    <2>2. pc[w] # "new"
      BY <1>0, <2>1, WorkerEffect
    <2>3. pc[w] # "exit"
      BY <1>0, <2>1 DEF Pool!WorkerStep, Pool!SpuriousWake, Pool!Lock, Pool!Wait,
         Pool!Exit, Pool!Take, Pool!Return, Pool!Push, Pool!NotifyOne
    <2>4. ~Untouched /\ pc[CallingThread] # "closed"
      BY <2>2, <2>3, JoinedAll DEF Untouched
    <2>5. at \in {"construct", "pool", "throwing", "unwind", "terminated"}
      BY <1>0, <2>2, <2>4 DEF Typed, Looping, Teaming, CallInv, Leaving
    <2>6. CASE at \in {"unwind", "terminated"}
      <3>1. submitted = {} /\ team = 0 /\ begun = {}
        BY <1>0, <2>6 DEF Leaving, Handing, Typed
      <3>2. QED
        BY <2>1, <2>6, <3>1, PoolRefines DEF Outcome
    <2>7. QED
      BY <1>1, <1>2, <2>1, <2>5, <2>6
  <1>7. CASE EnqueueCall \/ PoolOwnerStep \/ DestroyPool
    BY <1>2, <1>7 DEF EnqueueCall, PoolOwnerStep, DestroyPool
  <1>8. QED
    BY <1>1, <1>2a, <1>3, <1>4, <1>5, <1>6, <1>7 DEF ConstructPool

\* Every step is one of ForkJoin, or not seen.
LEMMA RefinementNext ==
    CallInv /\ Facts!IInv /\ Facts!IInv' /\ Facts!Entitled /\ [Next]_vars
      => [Region!Next]_(Region!vars)
  <1> SUFFICES ASSUME CallInv, Facts!IInv, Facts!IInv', Facts!Entitled,
                      [Next]_vars
               PROVE  Region!Next \/ UNCHANGED Region!vars
    OBVIOUS
  <1>1. CASE UNCHANGED vars
    BY <1>1 DEF vars, poolVars, Region!vars, Begun, Ended, Outcome,
         Pool!Running, Pool!Executing
  <1>2. CASE \/ EnterSerial \/ EnterInline \/ CallFunc \/ FuncReturns
             \/ LoopEnds \/ EnterRegion \/ RegionEnds \/ EnterPool
             \/ \E i \in 0..nthr-1 : ThreadCalls(i) \/ ThreadDone(i)
    <2>1. UNCHANGED poolVars
      BY <1>2 DEF EnterSerial, EnterInline, CallFunc, FuncReturns, LoopEnds,
           EnterRegion, RegionEnds, EnterPool, ThreadCalls, ThreadDone
    <2>2. QED
      BY <1>2, <2>1, OutsideRefines
  <1>3. QED
    BY <1>1, <1>2, InsideRefines, PoolEffects, StepCases

\* Each of the three builds makes each call of one team exactly once, and
\* returns when all of them have: parallel_nt implements ForkJoin.
THEOREM ParallelRefinement == Safety => Region!Safety
  <1> DEFINE Inv == CallInv /\ Facts!IInv /\ Facts!Entitled
  <1>1. Init => Inv
    BY CallInvInit, PoolStarts, EntitledStarts DEF Init
  <1>2. Inv /\ [Next]_vars => Inv'
    BY CallInvNext, PoolKept, EntitledKept
  <1>3. Inv /\ Inv' /\ [Next]_vars => [Region!Next]_(Region!vars)
    BY RefinementNext
  <1>4. QED
    BY <1>1, <1>2, <1>3, RefinementInit, PTL DEF Safety, Region!Safety
=============================================================================
