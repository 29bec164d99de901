----------------------------- MODULE ThreadPool -----------------------------
(***************************************************************************)
(* llm_bricks::ThreadPool (include/threadpool.hpp): worker threads that    *)
(* share a FIFO queue guarded by queueMutex and a condition variable, an   *)
(* owner that constructs the pool, enqueues and destroys it, and tasks     *)
(* that may enqueue further tasks while they run (enqueue is public and    *)
(* takes any callable).  One action per step between two points where      *)
(* another thread can interfere: acquiring the mutex, the critical section *)
(* up to its release, the notification after it, the call of the task.     *)
(***************************************************************************)
EXTENDS Naturals, Sequences, FiniteSets

CONSTANTS Worker,       \* the threads the constructor starts (numThreads many)
          Owner,        \* the thread that owns the pool object
          Task,         \* the callables that can be enqueued
          Parent,       \* who enqueues a task: Owner, or the task that does
          NoThread,     \* the mutex is free
          NoTask,       \* the thread holds no task
          MaxSpurious   \* bound on spurious returns of condition.wait

ASSUME PoolAssumption ==
    /\ IsFiniteSet(Worker) /\ Worker # {} /\ Owner \notin Worker
    /\ NoThread \notin Worker \cup {Owner}
    /\ NoTask \notin Task /\ Owner \notin Task
    /\ Parent \in [Task -> Task \cup {Owner}]
    /\ MaxSpurious \in Nat

VARIABLES pc,         \* where each thread is
          tasks,      \* the queue
          queueMutex, \* its holder
          stop,
          holding,    \* the task a worker executes
          pending,    \* the task whose enqueue call holds the mutex, per thread
          spurious,   \* spurious wake-ups left
          submitted,  \* history: tasks pushed so far
          refused,    \* history: tasks whose enqueue threw
          done        \* history: tasks that returned

vars == <<pc, tasks, queueMutex, stop, holding, pending, spurious,
          submitted, refused, done>>

Thread == Worker \cup {Owner}
Waiting == {w \in Worker : pc[w] = "wait"}
InQueue == {tasks[i] : i \in DOMAIN tasks}
Executing == {w \in Worker : holding[w] # NoTask}
Running == {holding[w] : w \in Executing}

Init ==
    /\ pc = [p \in Thread |-> IF p = Owner THEN "ctor" ELSE "new"]
    /\ tasks = <<>>
    /\ queueMutex = NoThread
    /\ stop = FALSE
    /\ holding = [w \in Worker |-> NoTask]
    /\ pending = [p \in Thread |-> NoTask]
    /\ spurious = MaxSpurious
    /\ submitted = {} /\ refused = {}
    /\ done = {}

-----------------------------------------------------------------------------
(* The constructor *)

\* workers.emplace_back starts one more thread.
Spawn(w) ==
    /\ pc[Owner] = "ctor" /\ pc[w] = "new"
    /\ pc' = [pc EXCEPT ![w] = "lock"]
    /\ UNCHANGED <<tasks, queueMutex, stop, holding, pending, spurious,
                   submitted, refused, done>>

Constructed ==
    /\ pc[Owner] = "ctor"
    /\ \A w \in Worker : pc[w] # "new"
    /\ pc' = [pc EXCEPT ![Owner] = "open"]
    /\ UNCHANGED <<tasks, queueMutex, stop, holding, pending, spurious,
                   submitted, refused, done>>

\* std::thread cannot be created and the exception destroys the members: with
\* no thread in the vector the constructor throws.
SpawnFails ==
    /\ pc[Owner] = "ctor"
    /\ \E w \in Worker : pc[w] = "new"
    /\ pc' = [pc EXCEPT ![Owner] = IF \A w \in Worker : pc[w] = "new"
                                   THEN "threw" ELSE "unwind"]
    /\ UNCHANGED <<tasks, queueMutex, stop, holding, pending, spurious,
                   submitted, refused, done>>

\* With a thread in it, condition is destroyed while that thread waits or will
\* wait on it, which is undefined (glibc blocks until nobody waits); if that
\* returns, the destructor of the joinable thread calls std::terminate.
Terminate ==
    /\ pc[Owner] = "unwind"
    /\ pc' = [pc EXCEPT ![Owner] = "terminated"]
    /\ UNCHANGED <<tasks, queueMutex, stop, holding, pending, spurious,
                   submitted, refused, done>>

-----------------------------------------------------------------------------
(* The worker loop *)

\* unique_lock at the top of the loop, and again after condition.wait returns.
Lock(w) ==
    /\ pc[w] = "lock" /\ queueMutex = NoThread
    /\ queueMutex' = w
    /\ pc' = [pc EXCEPT ![w] = "test"]
    /\ UNCHANGED <<tasks, stop, holding, pending, spurious, submitted, refused,
                   done>>

\* Mutant of Wait: the predicate forgets "|| stop".
WaitIgnoringStop(w) ==
    /\ pc[w] = "test"
    /\ tasks = <<>>
    /\ queueMutex' = NoThread
    /\ pc' = [pc EXCEPT ![w] = "wait"]
    /\ UNCHANGED <<tasks, stop, holding, pending, spurious, submitted, refused,
                   done>>

\* The predicate is false: release the mutex and block, in one step.
Wait(w) ==
    /\ pc[w] = "test"
    /\ tasks = <<>> /\ ~stop
    /\ queueMutex' = NoThread
    /\ pc' = [pc EXCEPT ![w] = "wait"]
    /\ UNCHANGED <<tasks, stop, holding, pending, spurious, submitted, refused,
                   done>>

\* Mutant of Exit: if (stop) return;
ExitOnStop(w) ==
    /\ pc[w] = "test"
    /\ stop
    /\ queueMutex' = NoThread
    /\ pc' = [pc EXCEPT ![w] = "exit"]
    /\ UNCHANGED <<tasks, stop, holding, pending, spurious, submitted, refused,
                   done>>

\* if (stop && tasks.empty()) return;
Exit(w) ==
    /\ pc[w] = "test"
    /\ stop /\ tasks = <<>>
    /\ queueMutex' = NoThread
    /\ pc' = [pc EXCEPT ![w] = "exit"]
    /\ UNCHANGED <<tasks, stop, holding, pending, spurious, submitted, refused,
                   done>>

\* Mutant of Take: tasks.pop() is forgotten.
TakeWithoutPop(w) ==
    /\ pc[w] = "test" /\ tasks # <<>>
    /\ holding' = [holding EXCEPT ![w] = Head(tasks)]
    /\ queueMutex' = NoThread
    /\ pc' = [pc EXCEPT ![w] = "run"]
    /\ UNCHANGED <<tasks, stop, pending, spurious, submitted, refused, done>>

\* task = std::move(tasks.front()); tasks.pop(); the lock goes out of scope.
Take(w) ==
    /\ pc[w] = "test" /\ tasks # <<>>
    /\ holding' = [holding EXCEPT ![w] = Head(tasks)]
    /\ tasks' = Tail(tasks)
    /\ queueMutex' = NoThread
    /\ pc' = [pc EXCEPT ![w] = "run"]
    /\ UNCHANGED <<stop, pending, spurious, submitted, refused, done>>

\* task() returns and the loop starts again.
Return(w) ==
    /\ pc[w] = "run"
    /\ done' = done \cup {holding[w]}
    /\ holding' = [holding EXCEPT ![w] = NoTask]
    /\ pc' = [pc EXCEPT ![w] = "lock"]
    /\ UNCHANGED <<tasks, queueMutex, stop, pending, spurious, submitted,
                   refused>>

\* condition.wait may return without a notification; the predicate is tested
\* again.
SpuriousWake(w) ==
    /\ pc[w] = "wait" /\ spurious > 0
    /\ spurious' = spurious - 1
    /\ pc' = [pc EXCEPT ![w] = "lock"]
    /\ UNCHANGED <<tasks, queueMutex, stop, holding, pending, submitted,
                   refused, done>>

-----------------------------------------------------------------------------
(* enqueue, called by the owner or by a running task *)

MayEnqueue(p, t) ==
    /\ t \notin submitted \cup refused
    /\ \A q \in Thread : pending[q] # t
    /\ IF p = Owner THEN pc[p] = "open" /\ Parent[t] = Owner
                    ELSE pc[p] = "run" /\ Parent[t] = holding[p]

\* Mutant of Enqueue: the queue is used without the mutex.
EnqueueUnlocked(p, t) ==
    /\ MayEnqueue(p, t)
    /\ pending' = [pending EXCEPT ![p] = t]
    /\ pc' = [pc EXCEPT ![p] = "push"]
    /\ UNCHANGED <<tasks, queueMutex, stop, holding, spurious, submitted,
                   refused, done>>

Enqueue(p, t) ==
    /\ MayEnqueue(p, t)
    /\ queueMutex = NoThread
    /\ queueMutex' = p
    /\ pending' = [pending EXCEPT ![p] = t]
    /\ pc' = [pc EXCEPT ![p] = "push"]
    /\ UNCHANGED <<tasks, stop, holding, spurious, submitted, refused, done>>

\* Mutant of Push: the callable is moved from before it is queued.
PushMovedFrom(p) ==
    /\ pc[p] = "push"
    /\ pending' = [pending EXCEPT ![p] = NoTask]
    /\ tasks' = Append(tasks, pending'[p])
    /\ submitted' = submitted \cup {pending[p]}
    /\ queueMutex' = NoThread
    /\ pc' = [pc EXCEPT ![p] = "notify"]
    /\ UNCHANGED <<stop, holding, spurious, refused, done>>

\* Where enqueue returns to.
Caller(p) == IF p = Owner THEN "open" ELSE "run"

\* Mutant of Push: only the first task of an empty queue is announced.
PushNotifyIfEmpty(p) ==
    /\ pc[p] = "push"
    /\ tasks' = Append(tasks, pending[p])
    /\ submitted' = submitted \cup {pending[p]}
    /\ pending' = [pending EXCEPT ![p] = NoTask]
    /\ queueMutex' = NoThread
    /\ pc' = [pc EXCEPT ![p] = IF tasks = <<>> THEN "notify" ELSE Caller(p)]
    /\ UNCHANGED <<stop, holding, spurious, refused, done>>

\* tasks.push(...), then the lock goes out of scope.
Push(p) ==
    /\ pc[p] = "push"
    /\ tasks' = Append(tasks, pending[p])
    /\ submitted' = submitted \cup {pending[p]}
    /\ pending' = [pending EXCEPT ![p] = NoTask]
    /\ queueMutex' = NoThread
    /\ pc' = [pc EXCEPT ![p] = "notify"]
    /\ UNCHANGED <<stop, holding, spurious, refused, done>>

\* Building the std::function or growing the queue throws bad_alloc: the lock
\* is released and the exception leaves enqueue.  The owner has it to handle,
\* or unwinds through the pool's destructor; a task may handle it, or it leaves
\* the function of the thread, which calls std::terminate.
PushFails(p) ==
    /\ pc[p] = "push"
    /\ refused' = refused \cup {pending[p]}
    /\ pending' = [pending EXCEPT ![p] = NoTask]
    /\ queueMutex' = NoThread
    /\ \/ pc' = [pc EXCEPT ![p] = Caller(p)]
       \/ p # Owner /\ pc' = [pc EXCEPT ![p] = "terminated"]
    /\ UNCHANGED <<tasks, stop, holding, spurious, submitted, done>>

\* condition.notify_one() wakes one waiting worker, if there is one.
NotifyOne(p) ==
    /\ pc[p] = "notify"
    /\ IF Waiting = {}
       THEN pc' = [pc EXCEPT ![p] = Caller(p)]
       ELSE \E w \in Waiting :
              pc' = [pc EXCEPT ![p] = Caller(p), ![w] = "lock"]
    /\ UNCHANGED <<tasks, queueMutex, stop, holding, pending, spurious,
                   submitted, refused, done>>

-----------------------------------------------------------------------------
(* The destructor *)

DestroyLock ==
    /\ pc[Owner] = "open" /\ queueMutex = NoThread
    /\ queueMutex' = Owner
    /\ pc' = [pc EXCEPT ![Owner] = "stop"]
    /\ UNCHANGED <<tasks, stop, holding, pending, spurious, submitted, refused,
                   done>>

SetStop ==
    /\ pc[Owner] = "stop"
    /\ stop' = TRUE
    /\ queueMutex' = NoThread
    /\ pc' = [pc EXCEPT ![Owner] = "notify_all"]
    /\ UNCHANGED <<tasks, holding, pending, spurious, submitted, refused,
                   done>>

\* Mutant of NotifyAll: notify_one instead of notify_all.
NotifyOneOnStop ==
    /\ pc[Owner] = "notify_all"
    /\ IF Waiting = {}
       THEN pc' = [pc EXCEPT ![Owner] = "join"]
       ELSE \E w \in Waiting :
              pc' = [pc EXCEPT ![Owner] = "join", ![w] = "lock"]
    /\ UNCHANGED <<tasks, queueMutex, stop, holding, pending, spurious,
                   submitted, refused, done>>

NotifyAll ==
    /\ pc[Owner] = "notify_all"
    /\ pc' = [p \in Thread |-> IF p = Owner THEN "join"
                               ELSE IF p \in Waiting THEN "lock" ELSE pc[p]]
    /\ UNCHANGED <<tasks, queueMutex, stop, holding, pending, spurious,
                   submitted, refused, done>>

\* Mutant of Joined: only one worker is joined.
JoinedOne ==
    /\ pc[Owner] = "join"
    /\ \E w \in Worker : pc[w] = "exit"
    /\ pc' = [pc EXCEPT ![Owner] = "closed"]
    /\ UNCHANGED <<tasks, queueMutex, stop, holding, pending, spurious,
                   submitted, refused, done>>

\* Every worker.join() has returned.
Joined ==
    /\ pc[Owner] = "join"
    /\ \A w \in Worker : pc[w] = "exit"
    /\ pc' = [pc EXCEPT ![Owner] = "closed"]
    /\ UNCHANGED <<tasks, queueMutex, stop, holding, pending, spurious,
                   submitted, refused, done>>

-----------------------------------------------------------------------------
WorkerStep(w) ==
    \/ Lock(w) \/ Wait(w) \/ Exit(w) \/ Take(w) \/ Return(w)
    \/ Push(w) \/ NotifyOne(w)

OwnerStep ==
    \/ \E w \in Worker : Spawn(w)
    \/ Constructed
    \/ Push(Owner) \/ NotifyOne(Owner)
    \/ SetStop \/ NotifyAll \/ Joined

\* std::terminate stops every thread.
Terminated == \E p \in Thread : pc[p] = "terminated"

Next ==
    /\ ~Terminated
    /\ \/ OwnerStep \/ DestroyLock
       \/ SpawnFails \/ Terminate
       \/ \E w \in Worker : WorkerStep(w) \/ SpuriousWake(w)
       \/ \E p \in Thread : PushFails(p)
       \/ \E p \in Thread, t \in Task : Enqueue(p, t)

Safety == Init /\ [][Next]_vars

\* The operating system schedules every thread that can run, and a mutex that
\* is released goes to one of the threads that ask for it; calls are finite in
\* number, so weak fairness is enough.  Nothing obliges the owner or a task to
\* enqueue, the owner to destroy the pool, a thread or an allocation to fail,
\* wait to return spuriously, or a failed constructor to get past the
\* destruction of condition.
Fairness ==
    /\ WF_vars(~Terminated /\ OwnerStep)
    /\ \A w \in Worker : WF_vars(~Terminated /\ WorkerStep(w))

Spec == Safety /\ Fairness

-----------------------------------------------------------------------------
(* Properties *)

WorkerPC == {"new", "lock", "test", "wait", "run", "push", "notify", "exit",
             "terminated"}
OwnerPC == {"ctor", "open", "push", "notify", "stop", "notify_all", "join",
            "closed", "threw", "unwind", "terminated"}

\* The values the state can take.
TypeOK ==
    /\ pc \in [Thread -> WorkerPC \cup OwnerPC]
    /\ pc[Owner] \in OwnerPC /\ \A w \in Worker : pc[w] \in WorkerPC
    /\ tasks \in Seq(Task)
    /\ queueMutex \in Thread \cup {NoThread}
    /\ stop \in BOOLEAN
    /\ holding \in [Worker -> Task \cup {NoTask}]
    /\ pending \in [Thread -> Task \cup {NoTask}]
    /\ spurious \in Nat
    /\ submitted \subseteq Task /\ refused \subseteq Task
    /\ done \subseteq Task

\* The queue, the workers and the past partition what was enqueued: a task is
\* neither lost by the swap of front() and pop() nor handed to two workers, and
\* one whose enqueue threw is not run after all.
Accounting ==
    /\ submitted \cap refused = {}
    /\ submitted = InQueue \cup Running \cup done
    /\ InQueue \cap Running = {} /\ (InQueue \cup Running) \cap done = {}
    /\ \A i, j \in DOMAIN tasks : tasks[i] = tasks[j] => i = j
    /\ \A v, w \in Executing : holding[v] = holding[w] => v = w

\* tasks and stop are only touched under queueMutex: a thread between the
\* acquisition and the release of the lock is its holder, and nobody else is.
MutexHeld ==
    \A p \in Thread :
        queueMutex = p <=> pc[p] \in {"test", "push", "stop"}

\* Workers on their way to the queue, and notifications not yet sent.
Awake == {w \in Worker : pc[w] \in {"lock", "test"}}
Notifying == {p \in Thread : pc[p] = "notify"}

\* notify_one is called after the lock is released, and still no wake-up is
\* lost: as long as a worker sleeps, every queued task has a worker on its way
\* to the queue, or a notification that is about to be sent.
WorkConserving ==
    Waiting # {} =>
        Len(tasks) <= Cardinality(Awake) + Cardinality(Notifying)

\* Nobody sleeps through the destructor's broadcast, and no worker leaves
\* before the destructor asked for it.
StopSeen ==
    /\ stop /\ Waiting # {} => pc[Owner] = "notify_all"
    /\ (\E w \in Worker : pc[w] = "exit") => stop

\* A task that runs when the last other worker has left can still enqueue:
\* the queue is never left behind by the workers.
QueueServed ==
    tasks # <<>> => \E w \in Worker : pc[w] # "exit"

\* When the destructor has returned, nothing the pool was given is unfinished:
\* callables capture locals of the frame that owns the pool by reference.
DrainedOnDestroy ==
    pc[Owner] = "closed" => submitted = done /\ pending[Owner] = NoTask

\* The pool as its user sees it.
Phase == IF Terminated \/ pc[Owner] \in {"threw", "unwind"} THEN "failed"
         ELSE CASE pc[Owner] = "ctor" -> "starting"
                [] pc[Owner] = "closed" -> "closed"
                [] stop /\ pc[Owner] # "closed" -> "closing"
                [] OTHER -> "open"

Pool == INSTANCE TaskPool WITH phase <- Phase, running <- Running

\* The queue, mutex and condition variable implement the promise of TaskPool,
\* its progress included: every task enqueued is executed and returns, and a
\* destructor that set stop returns.
ImplementsTaskPool == Pool!Spec
=============================================================================
