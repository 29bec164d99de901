-------------------------- MODULE ThreadPoolProofs --------------------------
(***************************************************************************)
(* What ThreadPool guarantees for any number of workers and tasks, whoever *)
(* enqueues them.  The properties are not inductive by themselves: they    *)
(* are proved together with Positions, the link between a thread's place   *)
(* in the code and what it holds, and Fresh, which says that a task about  *)
(* to be pushed is new.                                                    *)
(***************************************************************************)
EXTENDS ThreadPool, SequenceTheorems, FiniteSetTheorems, TLAPS

\* Every disjunct of Next, one case each.
LEMMA NextCases ==
    ASSUME Next
    PROVE  \/ \E w \in Worker : Spawn(w)
           \/ Constructed
           \/ SpawnFails
           \/ Terminate
           \/ \E w \in Worker :
                 Lock(w) \/ Wait(w) \/ Exit(w) \/ Take(w) \/ Return(w)
                 \/ SpuriousWake(w)
           \/ \E p \in Thread, t \in Task : Enqueue(p, t)
           \/ \E p \in Thread : Push(p) \/ PushFails(p) \/ NotifyOne(p)
           \/ DestroyLock \/ SetStop \/ NotifyAll \/ Joined
  BY DEF Next, OwnerStep, WorkerStep, Thread

-----------------------------------------------------------------------------
(* Types and positions *)

\* What a thread's place in the code says about the rest of the state.
Positions ==
    /\ \A w \in Worker :
         holding[w] # NoTask <=>
           pc[w] \in {"run", "push", "notify", "terminated"}
    /\ \A p \in Thread : pending[p] # NoTask <=> pc[p] = "push"
    /\ stop <=> pc[Owner] \in {"notify_all", "join", "closed"}
    /\ \A w \in Worker :
         pc[w] = "new" => pc[Owner] \in {"ctor", "threw", "unwind",
                                         "terminated"}
    /\ pc[Owner] = "closed" => \A w \in Worker : pc[w] = "exit"

Typed == TypeOK /\ Positions

\* The constructor starts with typed variables.
LEMMA TypedInit == Init => Typed
  <1> SUFFICES ASSUME Init PROVE Typed
    OBVIOUS
  <1> USE PoolAssumption DEF Init
  <1>1. TypeOK
    <2>1. pc \in [Thread -> WorkerPC \cup OwnerPC]
      BY DEF Thread, WorkerPC, OwnerPC
    <2>2. pc[Owner] \in OwnerPC /\ \A w \in Worker : pc[w] \in WorkerPC
      BY DEF Thread, WorkerPC, OwnerPC
    <2>3. stop \in BOOLEAN /\ queueMutex \in Thread \cup {NoThread}
      OBVIOUS
    <2>4. /\ holding \in [Worker -> Task \cup {NoTask}]
          /\ pending \in [Thread -> Task \cup {NoTask}]
      OBVIOUS
    <2>5. tasks \in Seq(Task) /\ spurious \in Nat
      OBVIOUS
    <2>6. QED
      BY <2>1, <2>2, <2>3, <2>4, <2>5 DEF TypeOK
  <1>2. Positions
    BY DEF Positions, Thread
  <1>3. QED
    BY <1>1, <1>2 DEF Typed

\* Types and positions are kept by every step.
LEMMA TypedNext == Typed /\ [Next]_vars => Typed'
  <1> SUFFICES ASSUME Typed, [Next]_vars PROVE Typed'
    OBVIOUS
  <1> USE PoolAssumption DEF Typed, TypeOK, Positions, Thread, WorkerPC, OwnerPC
  <1>1. ASSUME NEW w \in Worker, Spawn(w) PROVE Typed'
    BY <1>1 DEF Spawn
  <1>2. CASE Constructed
    BY <1>2 DEF Constructed
  <1>3. CASE SpawnFails
    BY <1>3 DEF SpawnFails
  <1>4. CASE Terminate
    BY <1>4 DEF Terminate
  <1>5. ASSUME NEW w \in Worker, Lock(w) PROVE Typed'
    BY <1>5 DEF Lock
  <1>6. ASSUME NEW w \in Worker, Wait(w) PROVE Typed'
    BY <1>6 DEF Wait
  <1>7. ASSUME NEW w \in Worker, Exit(w) PROVE Typed'
    BY <1>7 DEF Exit
  <1>8. ASSUME NEW w \in Worker, Take(w) PROVE Typed'
    <2>1. Head(tasks) \in Task /\ Tail(tasks) \in Seq(Task)
      BY <1>8, HeadTailProperties DEF Take
    <2>2. QED
      BY <1>8, <2>1 DEF Take
  <1>9. ASSUME NEW w \in Worker, Return(w) PROVE Typed'
    BY <1>9 DEF Return
  <1>10. ASSUME NEW w \in Worker, SpuriousWake(w) PROVE Typed'
    BY <1>10 DEF SpuriousWake
  <1>11. ASSUME NEW p \in Thread, NEW t \in Task, Enqueue(p, t)
         PROVE  Typed'
    BY <1>11 DEF Enqueue, MayEnqueue
  <1>12. ASSUME NEW p \in Thread, Push(p) PROVE Typed'
    BY <1>12 DEF Push
  <1>12a. ASSUME NEW p \in Thread, PushFails(p) PROVE Typed'
    BY <1>12a DEF PushFails, Caller
  <1>13. ASSUME NEW p \in Thread, NotifyOne(p) PROVE Typed'
    BY <1>13 DEF NotifyOne, Waiting, Caller
  <1>14. CASE DestroyLock
    BY <1>14 DEF DestroyLock
  <1>15. CASE SetStop
    BY <1>15 DEF SetStop
  <1>16. CASE NotifyAll
    BY <1>16 DEF NotifyAll, Waiting
  <1>17. CASE Joined
    BY <1>17 DEF Joined
  <1>18. CASE UNCHANGED vars
    BY <1>18 DEF vars
  <1>19. QED
    BY NextCases, <1>1, <1>2, <1>3, <1>4, <1>5, <1>6, <1>7, <1>8, <1>9,
       <1>10, <1>11, <1>12, <1>12a, <1>13, <1>14, <1>15, <1>16, <1>17, <1>18

-----------------------------------------------------------------------------
(* The mutex *)

\* Every step keeps the critical sections apart.
LEMMA MutexNext == Typed /\ Typed' /\ MutexHeld /\ [Next]_vars => MutexHeld'
  <1> SUFFICES ASSUME Typed, Typed', MutexHeld, [Next]_vars PROVE MutexHeld'
    OBVIOUS
  <1> USE PoolAssumption DEF Typed, MutexHeld, TypeOK, Positions, Thread, WorkerPC, OwnerPC
  <1>1. ASSUME NEW w \in Worker, Spawn(w) PROVE MutexHeld'
    BY <1>1 DEF Spawn
  <1>2. CASE Constructed
    BY <1>2 DEF Constructed
  <1>3. CASE SpawnFails
    BY <1>3 DEF SpawnFails
  <1>4. CASE Terminate
    BY <1>4 DEF Terminate
  <1>5. ASSUME NEW w \in Worker, Lock(w) PROVE MutexHeld'
    BY <1>5 DEF Lock
  <1>6. ASSUME NEW w \in Worker, Wait(w) PROVE MutexHeld'
    BY <1>6 DEF Wait
  <1>7. ASSUME NEW w \in Worker, Exit(w) PROVE MutexHeld'
    BY <1>7 DEF Exit
  <1>8. ASSUME NEW w \in Worker, Take(w) PROVE MutexHeld'
    BY <1>8 DEF Take
  <1>9. ASSUME NEW w \in Worker, Return(w) PROVE MutexHeld'
    BY <1>9 DEF Return
  <1>10. ASSUME NEW w \in Worker, SpuriousWake(w) PROVE MutexHeld'
    BY <1>10 DEF SpuriousWake
  <1>11. ASSUME NEW p \in Thread, NEW t \in Task, Enqueue(p, t)
         PROVE  MutexHeld'
    BY <1>11 DEF Enqueue, MayEnqueue
  <1>12. ASSUME NEW p \in Thread, Push(p) PROVE MutexHeld'
    BY <1>12 DEF Push
  <1>12a. ASSUME NEW p \in Thread, PushFails(p) PROVE MutexHeld'
    BY <1>12a DEF PushFails, Caller
  <1>13. ASSUME NEW p \in Thread, NotifyOne(p) PROVE MutexHeld'
    BY <1>13 DEF NotifyOne, Waiting, Caller
  <1>14. CASE DestroyLock
    BY <1>14 DEF DestroyLock
  <1>15. CASE SetStop
    BY <1>15 DEF SetStop
  <1>16. CASE NotifyAll
    BY <1>16 DEF NotifyAll, Waiting
  <1>17. CASE Joined
    BY <1>17 DEF Joined
  <1>18. CASE UNCHANGED vars
    BY <1>18 DEF vars
  <1>19. QED
    BY NextCases, <1>1, <1>2, <1>3, <1>4, <1>5, <1>6, <1>7, <1>8, <1>9,
       <1>10, <1>11, <1>12, <1>12a, <1>13, <1>14, <1>15, <1>16, <1>17, <1>18

-----------------------------------------------------------------------------
(* Sleeping and leaving *)

\* Every step keeps the sleepers reachable by the stop.
LEMMA StopNext == Typed /\ Typed' /\ StopSeen /\ [Next]_vars => StopSeen'
  <1> SUFFICES ASSUME Typed, Typed', StopSeen, [Next]_vars PROVE StopSeen'
    OBVIOUS
  <1> USE PoolAssumption DEF Typed, StopSeen, Waiting, TypeOK, Positions, Thread, WorkerPC, OwnerPC
  <1>1. ASSUME NEW w \in Worker, Spawn(w) PROVE StopSeen'
    BY <1>1 DEF Spawn
  <1>2. CASE Constructed
    BY <1>2 DEF Constructed
  <1>3. CASE SpawnFails
    BY <1>3 DEF SpawnFails
  <1>4. CASE Terminate
    BY <1>4 DEF Terminate
  <1>5. ASSUME NEW w \in Worker, Lock(w) PROVE StopSeen'
    BY <1>5 DEF Lock
  <1>6. ASSUME NEW w \in Worker, Wait(w) PROVE StopSeen'
    BY <1>6 DEF Wait
  <1>7. ASSUME NEW w \in Worker, Exit(w) PROVE StopSeen'
    BY <1>7 DEF Exit
  <1>8. ASSUME NEW w \in Worker, Take(w) PROVE StopSeen'
    BY <1>8 DEF Take
  <1>9. ASSUME NEW w \in Worker, Return(w) PROVE StopSeen'
    BY <1>9 DEF Return
  <1>10. ASSUME NEW w \in Worker, SpuriousWake(w) PROVE StopSeen'
    BY <1>10 DEF SpuriousWake
  <1>11. ASSUME NEW p \in Thread, NEW t \in Task, Enqueue(p, t)
         PROVE  StopSeen'
    BY <1>11 DEF Enqueue, MayEnqueue
  <1>12. ASSUME NEW p \in Thread, Push(p) PROVE StopSeen'
    BY <1>12 DEF Push
  <1>12a. ASSUME NEW p \in Thread, PushFails(p) PROVE StopSeen'
    BY <1>12a DEF PushFails, Caller
  <1>13. ASSUME NEW p \in Thread, NotifyOne(p) PROVE StopSeen'
    BY <1>13 DEF NotifyOne, Caller
  <1>14. CASE DestroyLock
    BY <1>14 DEF DestroyLock
  <1>15. CASE SetStop
    BY <1>15 DEF SetStop
  <1>16. CASE NotifyAll
    BY <1>16 DEF NotifyAll
  <1>17. CASE Joined
    BY <1>17 DEF Joined
  <1>18. CASE UNCHANGED vars
    BY <1>18 DEF vars
  <1>19. QED
    BY NextCases, <1>1, <1>2, <1>3, <1>4, <1>5, <1>6, <1>7, <1>8, <1>9,
       <1>10, <1>11, <1>12, <1>12a, <1>13, <1>14, <1>15, <1>16, <1>17, <1>18

\* Every step keeps a worker for the tasks that are left.
LEMMA ServedNext == Typed /\ Typed' /\ StopSeen /\ QueueServed /\ [Next]_vars => QueueServed'
  <1> SUFFICES ASSUME Typed, Typed', StopSeen, QueueServed, [Next]_vars PROVE QueueServed'
    OBVIOUS
  <1> USE PoolAssumption DEF Typed, StopSeen, QueueServed, TypeOK, Positions, Thread, WorkerPC, OwnerPC
  <1>1. ASSUME NEW w \in Worker, Spawn(w) PROVE QueueServed'
    BY <1>1 DEF Spawn
  <1>2. CASE Constructed
    BY <1>2 DEF Constructed
  <1>3. CASE SpawnFails
    BY <1>3 DEF SpawnFails
  <1>4. CASE Terminate
    BY <1>4 DEF Terminate
  <1>5. ASSUME NEW w \in Worker, Lock(w) PROVE QueueServed'
    BY <1>5 DEF Lock
  <1>6. ASSUME NEW w \in Worker, Wait(w) PROVE QueueServed'
    BY <1>6 DEF Wait
  <1>7. ASSUME NEW w \in Worker, Exit(w) PROVE QueueServed'
    BY <1>7 DEF Exit
  <1>8. ASSUME NEW w \in Worker, Take(w) PROVE QueueServed'
    BY <1>8 DEF Take
  <1>9. ASSUME NEW w \in Worker, Return(w) PROVE QueueServed'
    BY <1>9 DEF Return
  <1>10. ASSUME NEW w \in Worker, SpuriousWake(w) PROVE QueueServed'
    BY <1>10 DEF SpuriousWake
  <1>11. ASSUME NEW p \in Thread, NEW t \in Task, Enqueue(p, t)
         PROVE  QueueServed'
    BY <1>11 DEF Enqueue, MayEnqueue
  <1>12. ASSUME NEW p \in Thread, Push(p) PROVE QueueServed'
    BY <1>12 DEF Push
  <1>12a. ASSUME NEW p \in Thread, PushFails(p) PROVE QueueServed'
    BY <1>12a DEF PushFails, Caller
  <1>13. ASSUME NEW p \in Thread, NotifyOne(p) PROVE QueueServed'
    BY <1>13 DEF NotifyOne, Caller, Waiting
  <1>14. CASE DestroyLock
    BY <1>14 DEF DestroyLock
  <1>15. CASE SetStop
    BY <1>15 DEF SetStop
  <1>16. CASE NotifyAll
    BY <1>16 DEF NotifyAll, Waiting
  <1>17. CASE Joined
    BY <1>17 DEF Joined
  <1>18. CASE UNCHANGED vars
    BY <1>18 DEF vars
  <1>19. QED
    BY NextCases, <1>1, <1>2, <1>3, <1>4, <1>5, <1>6, <1>7, <1>8, <1>9,
       <1>10, <1>11, <1>12, <1>12a, <1>13, <1>14, <1>15, <1>16, <1>17, <1>18

-----------------------------------------------------------------------------
(* Accounting *)

\* A task about to be pushed has not been pushed or refused before.
Fresh == \A p \in Thread :
            pc[p] = "push" => pending[p] \notin submitted \cup refused

Distinct(s) == \A i, j \in DOMAIN s : s[i] = s[j] => i = j
Elements(s) == {s[i] : i \in DOMAIN s}

\* What push does to the queue's tasks.
LEMMA AppendElements ==
    ASSUME NEW S, NEW s \in Seq(S), NEW x \in S
    PROVE  /\ Elements(Append(s, x)) = Elements(s) \cup {x}
           /\ Distinct(s) /\ x \notin Elements(s) => Distinct(Append(s, x))
  <1> DEFINE a == Append(s, x)
  <1>1. /\ a \in Seq(S) /\ Len(a) = Len(s) + 1 /\ Len(s) \in Nat
        /\ \A k \in 1..Len(s) : a[k] = s[k]
        /\ a[Len(s) + 1] = x
        /\ DOMAIN s = 1..Len(s) /\ DOMAIN a = 1..Len(s) + 1
    BY AppendProperties, LenProperties
  <1>2. Elements(a) = Elements(s) \cup {x}
    BY <1>1 DEF Elements
  <1>3. ASSUME Distinct(s), x \notin Elements(s) PROVE Distinct(a)
    BY <1>1, <1>3 DEF Distinct, Elements
  <1>4. QED
    BY <1>2, <1>3

\* What front and pop do to the queue's tasks.
LEMMA TailElements ==
    ASSUME NEW S, NEW s \in Seq(S), s # <<>>, Distinct(s)
    PROVE  /\ Distinct(Tail(s))
           /\ Elements(Tail(s)) = Elements(s) \ {Head(s)}
           /\ Head(s) \in Elements(s)
  <1> DEFINE r == Tail(s)
  <1>1. /\ Len(s) \in Nat \ {0} /\ DOMAIN s = 1..Len(s)
        /\ Head(s) = s[1]
    BY EmptySeq, LenProperties
  <1>2. /\ Len(r) = Len(s) - 1 /\ DOMAIN r = 1..Len(s) - 1
        /\ \A k \in 1..Len(s) - 1 : r[k] = s[k + 1]
    BY HeadTailProperties, LenProperties, <1>1
  <1>3. Distinct(r)
    BY <1>1, <1>2 DEF Distinct
  <1>4. Elements(r) = Elements(s) \ {s[1]}
    <2>1. ASSUME NEW k \in DOMAIN r
          PROVE  r[k] \in Elements(s) \ {s[1]}
      BY <1>1, <1>2 DEF Distinct, Elements
    <2>2. ASSUME NEW k \in DOMAIN s, s[k] # s[1]
          PROVE  s[k] \in Elements(r)
      <3>1. k - 1 \in DOMAIN r /\ r[k - 1] = s[k]
        BY <2>2, <1>1, <1>2
      <3>2. QED
        BY <3>1 DEF Elements
    <2>3. QED
      BY <2>1, <2>2 DEF Elements
  <1>5. s[1] \in Elements(s)
    BY <1>1 DEF Elements
  <1>6. QED
    BY <1>1, <1>3, <1>4, <1>5

Accounted == Accounting /\ Fresh

\* Accounting, in terms of the elements of a sequence.
Partitioned ==
    /\ submitted \cap refused = {}
    /\ submitted = Elements(tasks) \cup Running \cup done
    /\ Elements(tasks) \cap Running = {}
    /\ (Elements(tasks) \cup Running) \cap done = {}
    /\ Distinct(tasks)
    /\ \A v, w \in Executing : holding[v] = holding[w] => v = w

\* The property in the form the proof uses.
LEMMA AccountingRestated == Accounting <=> Partitioned
  BY DEF Accounting, Partitioned, InQueue, Elements, Distinct

\* Nothing the accounting is about changes.
LEMMA AccountingKept ==
    ASSUME Accounting,
           UNCHANGED <<tasks, holding, submitted, refused, done>>
    PROVE  Accounting'
  BY DEF Accounting, InQueue, Running, Executing

\* Every step keeps each task in one place.
LEMMA AccountedNext == Typed /\ Typed' /\ MutexHeld /\ Accounted /\ [Next]_vars => Accounted'
  <1> SUFFICES ASSUME Typed, Typed', MutexHeld, Accounted, [Next]_vars PROVE Accounted'
    OBVIOUS
  <1> USE PoolAssumption DEF Typed, TypeOK, Positions, Accounted, Fresh, Thread, WorkerPC, OwnerPC
  <1>1. ASSUME NEW w \in Worker, Spawn(w) PROVE Accounted'
    <2>1. Accounting'
      BY <1>1, AccountingKept DEF Spawn
    <2>2. Fresh'
      BY <1>1 DEF Spawn
    <2>3. QED
      BY <2>1, <2>2 DEF Accounted
  <1>2. CASE Constructed
    <2>1. Accounting'
      BY <1>2, AccountingKept DEF Constructed
    <2>2. Fresh'
      BY <1>2 DEF Constructed
    <2>3. QED
      BY <2>1, <2>2 DEF Accounted
  <1>3. CASE SpawnFails
    <2>1. Accounting'
      BY <1>3, AccountingKept DEF SpawnFails
    <2>2. Fresh'
      BY <1>3 DEF SpawnFails
    <2>3. QED
      BY <2>1, <2>2 DEF Accounted
  <1>4. CASE Terminate
    <2>1. Accounting'
      BY <1>4, AccountingKept DEF Terminate
    <2>2. Fresh'
      BY <1>4 DEF Terminate
    <2>3. QED
      BY <2>1, <2>2 DEF Accounted
  <1>5. ASSUME NEW w \in Worker, Lock(w) PROVE Accounted'
    <2>1. Accounting'
      BY <1>5, AccountingKept DEF Lock
    <2>2. Fresh'
      BY <1>5 DEF Lock
    <2>3. QED
      BY <2>1, <2>2 DEF Accounted
  <1>6. ASSUME NEW w \in Worker, Wait(w) PROVE Accounted'
    <2>1. Accounting'
      BY <1>6, AccountingKept DEF Wait
    <2>2. Fresh'
      BY <1>6 DEF Wait
    <2>3. QED
      BY <2>1, <2>2 DEF Accounted
  <1>7. ASSUME NEW w \in Worker, Exit(w) PROVE Accounted'
    <2>1. Accounting'
      BY <1>7, AccountingKept DEF Exit
    <2>2. Fresh'
      BY <1>7 DEF Exit
    <2>3. QED
      BY <2>1, <2>2 DEF Accounted
  <1>8. ASSUME NEW w \in Worker, Take(w) PROVE Accounted'
    <2>1. /\ Elements(tasks') = Elements(tasks) \ {Head(tasks)}
          /\ Head(tasks) \in Elements(tasks) /\ Distinct(tasks')
      BY <1>8, TailElements, AccountingRestated DEF Partitioned, Take
    <2>2. Elements(tasks) \subseteq Task
      BY DEF Elements
    <2>3. Executing' = Executing \cup {w} /\ w \notin Executing
      BY <1>8, <2>1, <2>2 DEF Take, Executing
    <2>4. Running' = Running \cup {Head(tasks)}
      BY <1>8, <2>3 DEF Take, Running, Executing
    <2>5. ASSUME NEW u \in Executing', NEW v \in Executing',
                 holding'[u] = holding'[v]
          PROVE  u = v
      <3>1. \A x \in Executing : holding[x] # Head(tasks)
        BY <2>1, AccountingRestated DEF Partitioned, Running
      <3>2. /\ holding'[w] = Head(tasks)
            /\ \A x \in Executing : x # w /\ holding'[x] = holding[x]
        BY <1>8, <2>3 DEF Take, Executing
      <3>3. QED
        BY <2>3, <2>5, <3>1, <3>2, AccountingRestated DEF Partitioned
    <2>6. InQueue' = Elements(tasks) \ {Head(tasks)} /\ done' = done
      BY <1>8, <2>1 DEF Take, InQueue, Elements
    <2>7. /\ submitted' \cap refused' = {}
          /\ submitted' = InQueue' \cup Running' \cup done'
          /\ InQueue' \cap Running' = {}
          /\ (InQueue' \cup Running') \cap done' = {}
      BY <1>8, <2>1, <2>4, <2>6, AccountingRestated DEF Partitioned, Take
    <2>8. Accounting'
      BY <2>1, <2>5, <2>7 DEF Accounting, Distinct
    <2>9. Fresh'
      BY <1>8 DEF Take
    <2>10. QED
      BY <2>8, <2>9 DEF Accounted
  <1>9. ASSUME NEW w \in Worker, Return(w) PROVE Accounted'
    <2>1. w \in Executing /\ Executing' = Executing \ {w}
      BY <1>9 DEF Return, Executing
    <2>2. Running' = Running \ {holding[w]} /\ holding[w] \in Running
      BY <1>9, <2>1, AccountingRestated DEF Partitioned, Return, Running, Executing
    <2>3. \A u, v \in Executing' : holding'[u] = holding'[v] => u = v
      BY <1>9, <2>1, AccountingRestated DEF Partitioned, Return, Executing
    <2>4. Accounting'
      BY <1>9, <2>2, <2>3, AccountingRestated
      DEF Partitioned, Return, Accounting, InQueue, Elements, Distinct
    <2>5. Fresh'
      BY <1>9 DEF Return
    <2>6. QED
      BY <2>4, <2>5 DEF Accounted
  <1>10. ASSUME NEW w \in Worker, SpuriousWake(w) PROVE Accounted'
    <2>1. Accounting'
      BY <1>10, AccountingKept DEF SpuriousWake
    <2>2. Fresh'
      BY <1>10 DEF SpuriousWake
    <2>3. QED
      BY <2>1, <2>2 DEF Accounted
  <1>11. ASSUME NEW p \in Thread, NEW t \in Task, Enqueue(p, t)
         PROVE  Accounted'
    <2>1. Accounting'
      BY <1>11, AccountingKept DEF Enqueue
    <2>2. Fresh'
      BY <1>11 DEF Enqueue, MayEnqueue
    <2>3. QED
      BY <2>1, <2>2 DEF Accounted
  <1>12. ASSUME NEW p \in Thread, Push(p) PROVE Accounted'
    <2>1. pending[p] \in Task /\ pending[p] \notin submitted \cup refused
      BY <1>12 DEF Push
    <2>2. /\ Elements(tasks') = Elements(tasks) \cup {pending[p]}
          /\ Distinct(tasks')
      BY <1>12, <2>1, AppendElements, AccountingRestated DEF Partitioned, Push
    <2>3. Running' = Running /\ Executing' = Executing
      BY <1>12 DEF Push, Running, Executing
    <2>4. Accounting'
      <3>1. /\ Elements(tasks') \cap Running' = {}
            /\ (Elements(tasks') \cup Running') \cap done' = {}
            /\ submitted' = Elements(tasks') \cup Running' \cup done'
            /\ submitted' \cap refused' = {}
        BY <1>12, <2>1, <2>2, <2>3, AccountingRestated DEF Partitioned, Push
      <3>2. \A v, w \in Executing' : holding'[v] = holding'[w] => v = w
        BY <1>12, <2>3, AccountingRestated DEF Partitioned, Push
      <3>3. QED
        BY <2>2, <3>1, <3>2 DEF Accounting, InQueue, Elements, Distinct
    <2>5. Fresh'
      BY <1>12 DEF Push, MutexHeld
    <2>6. QED
      BY <2>4, <2>5 DEF Accounted
  <1>12a. ASSUME NEW p \in Thread, PushFails(p) PROVE Accounted'
    <2>1. pending[p] \in Task /\ pending[p] \notin submitted
      BY <1>12a DEF PushFails
    <2>2. Accounting'
      <3>1. InQueue' = InQueue /\ Running' = Running /\ Executing' = Executing
        BY <1>12a DEF PushFails, InQueue, Running, Executing
      <3>2. submitted' \cap refused' = {}
        BY <1>12a, <2>1 DEF PushFails, Accounting
      <3>3. QED
        BY <1>12a, <3>1, <3>2 DEF PushFails, Accounting
    <2>3. Fresh'
      BY <1>12a DEF PushFails, Caller, MutexHeld
    <2>4. QED
      BY <2>2, <2>3 DEF Accounted
  <1>13. ASSUME NEW p \in Thread, NotifyOne(p) PROVE Accounted'
    <2>1. Accounting'
      BY <1>13, AccountingKept DEF NotifyOne
    <2>2. Fresh'
      BY <1>13 DEF NotifyOne, Caller, Waiting
    <2>3. QED
      BY <2>1, <2>2 DEF Accounted
  <1>14. CASE DestroyLock
    <2>1. Accounting'
      BY <1>14, AccountingKept DEF DestroyLock
    <2>2. Fresh'
      BY <1>14 DEF DestroyLock
    <2>3. QED
      BY <2>1, <2>2 DEF Accounted
  <1>15. CASE SetStop
    <2>1. Accounting'
      BY <1>15, AccountingKept DEF SetStop
    <2>2. Fresh'
      BY <1>15 DEF SetStop
    <2>3. QED
      BY <2>1, <2>2 DEF Accounted
  <1>16. CASE NotifyAll
    <2>1. Accounting'
      BY <1>16, AccountingKept DEF NotifyAll
    <2>2. Fresh'
      BY <1>16 DEF NotifyAll, Waiting
    <2>3. QED
      BY <2>1, <2>2 DEF Accounted
  <1>17. CASE Joined
    <2>1. Accounting'
      BY <1>17, AccountingKept DEF Joined
    <2>2. Fresh'
      BY <1>17 DEF Joined
    <2>3. QED
      BY <2>1, <2>2 DEF Accounted
  <1>18. CASE UNCHANGED vars
    <2>1. Accounting'
      BY <1>18, AccountingKept DEF vars
    <2>2. Fresh'
      BY <1>18 DEF vars
    <2>3. QED
      BY <2>1, <2>2 DEF Accounted
  <1>19. QED
    BY NextCases, <1>1, <1>2, <1>3, <1>4, <1>5, <1>6, <1>7, <1>8, <1>9,
       <1>10, <1>11, <1>12, <1>12a, <1>13, <1>14, <1>15, <1>16, <1>17, <1>18

\* A pool that was not built has been handed nothing.
Unopened ==
    pc[Owner] \in {"ctor", "threw", "unwind", "terminated"} => submitted = {}

\* Every step keeps a pool that was not built unused.
LEMMA UnopenedNext ==
    Typed /\ Typed' /\ Accounted /\ Unopened /\ [Next]_vars => Unopened'
  <1> SUFFICES ASSUME Typed, Typed', Accounted, Unopened, [Next]_vars
               PROVE  Unopened'
    OBVIOUS
  <1> USE PoolAssumption DEF Typed, TypeOK, Positions, Unopened, Thread, WorkerPC, OwnerPC
  <1>1. ASSUME NEW w \in Worker, Spawn(w) PROVE Unopened'
    BY <1>1 DEF Spawn
  <1>2. CASE Constructed
    BY <1>2 DEF Constructed
  <1>3. CASE SpawnFails
    BY <1>3 DEF SpawnFails
  <1>4. CASE Terminate
    BY <1>4 DEF Terminate
  <1>5. ASSUME NEW w \in Worker, Lock(w) PROVE Unopened'
    BY <1>5 DEF Lock
  <1>6. ASSUME NEW w \in Worker, Wait(w) PROVE Unopened'
    BY <1>6 DEF Wait
  <1>7. ASSUME NEW w \in Worker, Exit(w) PROVE Unopened'
    BY <1>7 DEF Exit
  <1>8. ASSUME NEW w \in Worker, Take(w) PROVE Unopened'
    BY <1>8 DEF Take
  <1>9. ASSUME NEW w \in Worker, Return(w) PROVE Unopened'
    BY <1>9 DEF Return
  <1>10. ASSUME NEW w \in Worker, SpuriousWake(w) PROVE Unopened'
    BY <1>10 DEF SpuriousWake
  <1>11. ASSUME NEW p \in Thread, NEW t \in Task, Enqueue(p, t)
         PROVE  Unopened'
    BY <1>11 DEF Enqueue, MayEnqueue
  <1>12. ASSUME NEW p \in Thread, Push(p) PROVE Unopened'
    <2>1. CASE p = Owner
      BY <1>12, <2>1 DEF Push
    <2>2. CASE p \in Worker
      <3>1. holding[p] \in submitted
        BY <1>12, <2>2 DEF Push, Accounted, Accounting, Running, Executing
      <3>2. pc'[Owner] = pc[Owner]
        BY <1>12, <2>2 DEF Push
      <3>3. QED
        BY <3>1, <3>2
    <2>3. QED
      BY <2>1, <2>2
  <1>13. ASSUME NEW p \in Thread, PushFails(p) PROVE Unopened'
    BY <1>13 DEF PushFails, Caller
  <1>14. ASSUME NEW p \in Thread, NotifyOne(p) PROVE Unopened'
    BY <1>14 DEF NotifyOne, Caller, Waiting
  <1>15. CASE DestroyLock
    BY <1>15 DEF DestroyLock
  <1>16. CASE SetStop
    BY <1>16 DEF SetStop
  <1>17. CASE NotifyAll
    BY <1>17 DEF NotifyAll, Waiting
  <1>18. CASE Joined
    BY <1>18 DEF Joined
  <1>19. CASE UNCHANGED vars
    BY <1>19 DEF vars
  <1>20. QED
    BY NextCases, <1>1, <1>2, <1>3, <1>4, <1>5, <1>6, <1>7, <1>8, <1>9,
       <1>10, <1>11, <1>12, <1>13, <1>14, <1>15, <1>16, <1>17, <1>18, <1>19

\* What a worker executes was handed over, to a pool that was built.
LEMMA ExecutesHanded ==
    ASSUME Typed, Accounted, Unopened, NEW w \in Worker, holding[w] # NoTask
    PROVE  /\ holding[w] \in Running /\ holding[w] \in submitted
           /\ pc[Owner] \notin {"ctor", "threw", "unwind", "terminated"}
  <1>1. holding[w] \in Running
    BY DEF Running, Executing
  <1>2. holding[w] \in submitted
    BY <1>1 DEF Accounted, Accounting
  <1>3. QED
    BY <1>1, <1>2 DEF Unopened

-----------------------------------------------------------------------------
(* No wake-up is lost *)

\* The threads that can wake a sleeper can be counted.
LEMMA WakersFinite ==
    ASSUME NEW A \in SUBSET Worker, NEW B \in SUBSET Thread
    PROVE  /\ IsFiniteSet(A) /\ Cardinality(A) \in Nat
           /\ IsFiniteSet(B) /\ Cardinality(B) \in Nat
  <1>1. IsFiniteSet(Worker) /\ IsFiniteSet(Thread)
    BY PoolAssumption, FS_AddElement DEF Thread
  <1>2. QED
    BY <1>1, FS_Subset, FS_CardinalityType

\* A step that wakes or keeps everybody and leaves the queue alone.
LEMMA ConservingKept ==
    ASSUME Typed, Typed', WorkConserving, tasks' = tasks,
           Waiting' \subseteq Waiting, Awake \subseteq Awake',
           Notifying \subseteq Notifying'
    PROVE  WorkConserving'
  <1>1. Cardinality(Awake) <= Cardinality(Awake')
    BY WakersFinite, FS_Subset DEF Awake
  <1>2. Cardinality(Notifying) <= Cardinality(Notifying')
    BY WakersFinite, FS_Subset DEF Notifying
  <1>3. /\ Cardinality(Awake) \in Nat /\ Cardinality(Awake') \in Nat
        /\ Cardinality(Notifying) \in Nat /\ Cardinality(Notifying') \in Nat
    BY WakersFinite DEF Awake, Notifying
  <1>4. Len(tasks) \in Nat
    BY LenProperties DEF Typed, TypeOK
  <1>5. QED
    BY <1>1, <1>2, <1>3, <1>4 DEF WorkConserving

\* Nobody sleeps, or nothing is queued.
LEMMA ConservingTrivial ==
    ASSUME Typed', Waiting' = {} \/ tasks' = <<>>
    PROVE  WorkConserving'
  <1>1. Cardinality(Awake') \in Nat /\ Cardinality(Notifying') \in Nat
    BY WakersFinite DEF Awake, Notifying
  <1>2. tasks' = <<>> => Len(tasks') = 0
    BY EmptySeq
  <1>3. QED
    BY <1>1, <1>2 DEF WorkConserving

\* Every step keeps a waker for every queued task.
LEMMA ConservingNext == Typed /\ Typed' /\ WorkConserving /\ [Next]_vars => WorkConserving'
  <1> SUFFICES ASSUME Typed, Typed', WorkConserving, [Next]_vars PROVE WorkConserving'
    OBVIOUS
  <1> USE PoolAssumption DEF Typed, TypeOK, Positions, Thread, WorkerPC, OwnerPC
  <1>1. ASSUME NEW w \in Worker, Spawn(w) PROVE WorkConserving'
    <2>1. tasks' = tasks /\ Waiting' \subseteq Waiting
      BY <1>1 DEF Spawn, Waiting
    <2>2. Awake \subseteq Awake' /\ Notifying \subseteq Notifying'
      BY <1>1 DEF Spawn, Awake, Notifying
    <2>3. QED
      BY <2>1, <2>2, ConservingKept
  <1>2. CASE Constructed
    <2>1. tasks' = tasks /\ Waiting' \subseteq Waiting
      BY <1>2 DEF Constructed, Waiting
    <2>2. Awake \subseteq Awake' /\ Notifying \subseteq Notifying'
      BY <1>2 DEF Constructed, Awake, Notifying
    <2>3. QED
      BY <2>1, <2>2, ConservingKept
  <1>3. CASE SpawnFails
    <2>1. tasks' = tasks /\ Waiting' \subseteq Waiting
      BY <1>3 DEF SpawnFails, Waiting
    <2>2. Awake \subseteq Awake' /\ Notifying \subseteq Notifying'
      BY <1>3 DEF SpawnFails, Awake, Notifying
    <2>3. QED
      BY <2>1, <2>2, ConservingKept
  <1>4. CASE Terminate
    <2>1. tasks' = tasks /\ Waiting' \subseteq Waiting
      BY <1>4 DEF Terminate, Waiting
    <2>2. Awake \subseteq Awake' /\ Notifying \subseteq Notifying'
      BY <1>4 DEF Terminate, Awake, Notifying
    <2>3. QED
      BY <2>1, <2>2, ConservingKept
  <1>5. ASSUME NEW w \in Worker, Lock(w) PROVE WorkConserving'
    <2>1. tasks' = tasks /\ Waiting' \subseteq Waiting
      BY <1>5 DEF Lock, Waiting
    <2>2. Awake \subseteq Awake' /\ Notifying \subseteq Notifying'
      BY <1>5 DEF Lock, Awake, Notifying
    <2>3. QED
      BY <2>1, <2>2, ConservingKept
  <1>6. ASSUME NEW w \in Worker, Wait(w) PROVE WorkConserving'
    BY <1>6, ConservingTrivial DEF Wait
  <1>7. ASSUME NEW w \in Worker, Exit(w) PROVE WorkConserving'
    BY <1>7, ConservingTrivial DEF Exit
  <1>8. ASSUME NEW w \in Worker, Take(w) PROVE WorkConserving'
    <2>1. Waiting' = Waiting /\ Notifying' = Notifying
      BY <1>8 DEF Take, Waiting, Notifying
    <2>2. w \in Awake /\ Awake' = Awake \ {w}
      BY <1>8 DEF Take, Awake
    <2>3. Cardinality(Awake') = Cardinality(Awake) - 1
      <3>1. Awake \in SUBSET Worker /\ {} \in SUBSET Thread
        BY DEF Awake
      <3>2. IsFiniteSet(Awake)
        BY <3>1, WakersFinite
      <3>3. QED
        BY <2>2, <3>2, FS_RemoveElement
    <2>4. Len(tasks') = Len(tasks) - 1 /\ Len(tasks) \in Nat
      BY <1>8, HeadTailProperties, LenProperties DEF Take
    <2>5. Cardinality(Awake) \in Nat /\ Cardinality(Notifying) \in Nat
      BY WakersFinite DEF Awake, Notifying
    <2>6. QED
      BY <2>1, <2>3, <2>4, <2>5 DEF WorkConserving
  <1>9. ASSUME NEW w \in Worker, Return(w) PROVE WorkConserving'
    <2>1. tasks' = tasks /\ Waiting' \subseteq Waiting
      BY <1>9 DEF Return, Waiting
    <2>2. Awake \subseteq Awake' /\ Notifying \subseteq Notifying'
      BY <1>9 DEF Return, Awake, Notifying
    <2>3. QED
      BY <2>1, <2>2, ConservingKept
  <1>10. ASSUME NEW w \in Worker, SpuriousWake(w) PROVE WorkConserving'
    <2>1. tasks' = tasks /\ Waiting' \subseteq Waiting
      BY <1>10 DEF SpuriousWake, Waiting
    <2>2. Awake \subseteq Awake' /\ Notifying \subseteq Notifying'
      BY <1>10 DEF SpuriousWake, Awake, Notifying
    <2>3. QED
      BY <2>1, <2>2, ConservingKept
  <1>11. ASSUME NEW p \in Thread, NEW t \in Task, Enqueue(p, t)
         PROVE  WorkConserving'
    <2>1. tasks' = tasks /\ Waiting' \subseteq Waiting
      BY <1>11 DEF Enqueue, MayEnqueue, Waiting
    <2>2. Awake \subseteq Awake' /\ Notifying \subseteq Notifying'
      BY <1>11 DEF Enqueue, MayEnqueue, Awake, Notifying
    <2>3. QED
      BY <2>1, <2>2, ConservingKept
  <1>12. ASSUME NEW p \in Thread, Push(p) PROVE WorkConserving'
    <2>1. Waiting' = Waiting /\ Awake' = Awake
      BY <1>12 DEF Push, Waiting, Awake
    <2>2. p \notin Notifying /\ Notifying' = Notifying \cup {p}
      BY <1>12 DEF Push, Notifying
    <2>3. Cardinality(Notifying') = Cardinality(Notifying) + 1
      <3>1. IsFiniteSet(Notifying)
        BY WakersFinite DEF Notifying
      <3>2. QED
        BY <2>2, <3>1, FS_AddElement
    <2>4. Len(tasks') = Len(tasks) + 1 /\ Len(tasks) \in Nat
      <3>1. pending[p] \in Task
        BY <1>12 DEF Push
      <3>2. QED
        BY <1>12, <3>1, AppendProperties, LenProperties DEF Push
    <2>5. Cardinality(Awake) \in Nat /\ Cardinality(Notifying) \in Nat
      BY WakersFinite DEF Awake, Notifying
    <2>6. QED
      BY <2>1, <2>3, <2>4, <2>5 DEF WorkConserving
  <1>12a. ASSUME NEW p \in Thread, PushFails(p) PROVE WorkConserving'
    <2>1. tasks' = tasks /\ Waiting' \subseteq Waiting
      BY <1>12a DEF PushFails, Caller, Waiting
    <2>2. Awake \subseteq Awake' /\ Notifying \subseteq Notifying'
      BY <1>12a DEF PushFails, Caller, Awake, Notifying
    <2>3. QED
      BY <2>1, <2>2, ConservingKept
  <1>13. ASSUME NEW p \in Thread, NotifyOne(p) PROVE WorkConserving'
    <2>1. CASE Waiting = {}
      BY <1>13, <2>1, ConservingTrivial DEF NotifyOne, Waiting, Caller
    <2>2. CASE Waiting # {}
      <3>1. PICK w \in Waiting :
              pc' = [pc EXCEPT ![p] = Caller(p), ![w] = "lock"]
        BY <1>13, <2>2 DEF NotifyOne
      <3>2. w \in Worker /\ w # p /\ pc[w] = "wait"
        BY <1>13, <3>1 DEF NotifyOne, Waiting
      <3>3. Waiting' \subseteq Waiting
        BY <1>13, <3>1, <3>2 DEF Waiting, Caller
      <3>4. w \notin Awake /\ Awake' = Awake \cup {w}
        BY <1>13, <3>1, <3>2 DEF NotifyOne, Awake, Caller
      <3>5. p \in Notifying /\ Notifying' = Notifying \ {p}
        BY <1>13, <3>1, <3>2 DEF NotifyOne, Notifying, Caller
      <3>6. Cardinality(Awake') = Cardinality(Awake) + 1
        <4>1. IsFiniteSet(Awake)
          BY WakersFinite DEF Awake
        <4>2. QED
          BY <3>4, <4>1, FS_AddElement
      <3>7. Cardinality(Notifying') = Cardinality(Notifying) - 1
        <4>1. IsFiniteSet(Notifying)
          BY WakersFinite DEF Notifying
        <4>2. QED
          BY <3>5, <4>1, FS_RemoveElement
      <3>8. /\ Cardinality(Awake) \in Nat /\ Cardinality(Notifying) \in Nat
            /\ tasks' = tasks
        BY <1>13, WakersFinite DEF Awake, Notifying, NotifyOne
      <3>9. QED
        BY <2>2, <3>3, <3>6, <3>7, <3>8 DEF WorkConserving
    <2>3. QED
      BY <2>1, <2>2
  <1>14. CASE DestroyLock
    <2>1. tasks' = tasks /\ Waiting' \subseteq Waiting
      BY <1>14 DEF DestroyLock, Waiting
    <2>2. Awake \subseteq Awake' /\ Notifying \subseteq Notifying'
      BY <1>14 DEF DestroyLock, Awake, Notifying
    <2>3. QED
      BY <2>1, <2>2, ConservingKept
  <1>15. CASE SetStop
    <2>1. tasks' = tasks /\ Waiting' \subseteq Waiting
      BY <1>15 DEF SetStop, Waiting
    <2>2. Awake \subseteq Awake' /\ Notifying \subseteq Notifying'
      BY <1>15 DEF SetStop, Awake, Notifying
    <2>3. QED
      BY <2>1, <2>2, ConservingKept
  <1>16. CASE NotifyAll
    BY <1>16, ConservingTrivial DEF NotifyAll, Waiting
  <1>17. CASE Joined
    <2>1. tasks' = tasks /\ Waiting' \subseteq Waiting
      BY <1>17 DEF Joined, Waiting
    <2>2. Awake \subseteq Awake' /\ Notifying \subseteq Notifying'
      BY <1>17 DEF Joined, Awake, Notifying
    <2>3. QED
      BY <2>1, <2>2, ConservingKept
  <1>18. CASE UNCHANGED vars
    BY <1>18, ConservingKept DEF vars, Waiting, Awake, Notifying
  <1>19. QED
    BY NextCases, <1>1, <1>2, <1>3, <1>4, <1>5, <1>6, <1>7, <1>8, <1>9,
       <1>10, <1>11, <1>12, <1>12a, <1>13, <1>14, <1>15, <1>16, <1>17, <1>18

-----------------------------------------------------------------------------
(* The invariants *)

IInv ==
    /\ Typed /\ MutexHeld /\ Accounted /\ Unopened
    /\ WorkConserving /\ StopSeen /\ QueueServed

\* A pool about to be constructed satisfies the invariant.
LEMMA IInvInit == Init => IInv
  <1> SUFFICES ASSUME Init PROVE IInv
    OBVIOUS
  <1> USE PoolAssumption DEF Init
  <1>1. Typed
    BY TypedInit
  <1>2. MutexHeld /\ StopSeen
    BY DEF MutexHeld, StopSeen, Waiting, Thread
  <1>3. Running = {} /\ InQueue = {} /\ Executing = {} /\ DOMAIN tasks = {}
    BY DEF Running, Executing, InQueue
  <1>4. Accounted /\ Unopened
    BY <1>3 DEF Accounted, Accounting, Fresh, Unopened, Thread
  <1>5. Waiting = {}
    BY DEF Waiting, Thread
  <1>6. WorkConserving /\ QueueServed
    BY <1>5 DEF WorkConserving, QueueServed
  <1>7. QED
    BY <1>1, <1>2, <1>4, <1>6 DEF IInv

\* Every step keeps the invariant.
LEMMA IInvNext == IInv /\ [Next]_vars => IInv'
  BY TypedNext, MutexNext, StopNext, ServedNext, AccountedNext, UnopenedNext,
     ConservingNext
  DEF IInv

\* Every reachable state satisfies the invariant.
LEMMA Invariant == Safety => []IInv
  BY IInvInit, IInvNext, PTL DEF Safety

\* Every worker, the owner, the queue and the histories keep their types,
\* however many workers and tasks there are.
THEOREM TypeCorrect == Safety => []TypeOK
  <1>1. IInv => TypeOK
    BY DEF IInv, Typed
  <1>2. QED
    BY <1>1, Invariant, PTL

\* The critical sections of threadpool.hpp exclude one another.
THEOREM MutualExclusion == Safety => []MutexHeld
  <1>1. IInv => MutexHeld
    BY DEF IInv
  <1>2. QED
    BY <1>1, Invariant, PTL

\* No task is lost, and none is executed twice.
THEOREM TasksAccounted == Safety => []Accounting
  <1>1. IInv => Accounting
    BY DEF IInv, Accounted
  <1>2. QED
    BY <1>1, Invariant, PTL

\* Notifying after the release of the mutex loses no wake-up.
THEOREM NoLostWakeup == Safety => []WorkConserving
  <1>1. IInv => WorkConserving
    BY DEF IInv
  <1>2. QED
    BY <1>1, Invariant, PTL

\* The broadcast of the destructor reaches every sleeper, and nobody leaves
\* before it.
THEOREM StopReachesAll == Safety => []StopSeen
  <1>1. IInv => StopSeen
    BY DEF IInv
  <1>2. QED
    BY <1>1, Invariant, PTL

\* A worker leaves only with the queue empty, and a task it runs enqueues
\* before it comes back to leave: a queue that is not empty has a worker.
THEOREM QueueNeverAbandoned == Safety => []QueueServed
  <1>1. IInv => QueueServed
    BY DEF IInv
  <1>2. QED
    BY <1>1, Invariant, PTL

\* When every worker has left, nothing that was enqueued is unfinished.
LEMMA AllLeft ==
    ASSUME IInv, \A w \in Worker : pc[w] = "exit"
    PROVE  submitted = done
  <1>1. tasks = <<>>
    BY DEF IInv, QueueServed
  <1>2. InQueue = {} /\ Running = {}
    BY <1>1 DEF IInv, Typed, Positions, Running, Executing, InQueue
  <1>3. QED
    BY <1>2 DEF IInv, Accounted, Accounting

\* The destructor returns only when every task has returned, so a frame whose
\* locals the tasks capture outlives them.
THEOREM DestructorDrains == Safety => []DrainedOnDestroy
  <1>1. IInv => DrainedOnDestroy
    <2> SUFFICES ASSUME IInv, pc[Owner] = "closed"
                 PROVE  submitted = done /\ pending[Owner] = NoTask
      BY DEF DrainedOnDestroy
    <2>1. pending[Owner] = NoTask
      BY DEF IInv, Typed, Positions, Thread
    <2>2. QED
      BY <2>1, AllLeft DEF IInv, Typed, Positions
  <1>2. QED
    BY <1>1, Invariant, PTL

-----------------------------------------------------------------------------
(* The refinement of TaskPool *)

\* Who may enqueue the task about to be pushed.
Entitled ==
    \A p \in Thread : pc[p] = "push" =>
        Parent[pending[p]] = IF p = Owner THEN Owner ELSE holding[p]

\* A task about to be pushed stays one that its thread may enqueue.
LEMMA EntitledNext == Typed /\ Typed' /\ Entitled /\ [Next]_vars => Entitled'
  <1> SUFFICES ASSUME Typed, Typed', Entitled, [Next]_vars PROVE Entitled'
    OBVIOUS
  <1> USE PoolAssumption DEF Typed, TypeOK, Positions, Entitled, Thread, WorkerPC, OwnerPC
  <1>1. ASSUME NEW w \in Worker, Spawn(w) PROVE Entitled'
    BY <1>1 DEF Spawn
  <1>2. CASE Constructed
    BY <1>2 DEF Constructed
  <1>3. CASE SpawnFails
    BY <1>3 DEF SpawnFails
  <1>4. CASE Terminate
    BY <1>4 DEF Terminate
  <1>5. ASSUME NEW w \in Worker, Lock(w) PROVE Entitled'
    BY <1>5 DEF Lock
  <1>6. ASSUME NEW w \in Worker, Wait(w) PROVE Entitled'
    BY <1>6 DEF Wait
  <1>7. ASSUME NEW w \in Worker, Exit(w) PROVE Entitled'
    BY <1>7 DEF Exit
  <1>8. ASSUME NEW w \in Worker, Take(w) PROVE Entitled'
    BY <1>8 DEF Take
  <1>9. ASSUME NEW w \in Worker, Return(w) PROVE Entitled'
    BY <1>9 DEF Return
  <1>10. ASSUME NEW w \in Worker, SpuriousWake(w) PROVE Entitled'
    BY <1>10 DEF SpuriousWake
  <1>11. ASSUME NEW p \in Thread, NEW t \in Task, Enqueue(p, t)
         PROVE  Entitled'
    BY <1>11 DEF Enqueue, MayEnqueue
  <1>12. ASSUME NEW p \in Thread, Push(p) PROVE Entitled'
    BY <1>12 DEF Push
  <1>12a. ASSUME NEW p \in Thread, PushFails(p) PROVE Entitled'
    BY <1>12a DEF PushFails, Caller
  <1>13. ASSUME NEW p \in Thread, NotifyOne(p) PROVE Entitled'
    BY <1>13 DEF NotifyOne, Caller, Waiting
  <1>14. CASE DestroyLock
    BY <1>14 DEF DestroyLock
  <1>15. CASE SetStop
    BY <1>15 DEF SetStop
  <1>16. CASE NotifyAll
    BY <1>16 DEF NotifyAll, Waiting
  <1>17. CASE Joined
    BY <1>17 DEF Joined
  <1>18. CASE UNCHANGED vars
    BY <1>18 DEF vars
  <1>19. QED
    BY NextCases, <1>1, <1>2, <1>3, <1>4, <1>5, <1>6, <1>7, <1>8, <1>9,
       <1>10, <1>11, <1>12, <1>12a, <1>13, <1>14, <1>15, <1>16, <1>17, <1>18

\* The phase of a process that runs, by the owner's position.
PhaseTable ==
    /\ pc[Owner] = "ctor" => Phase = "starting"
    /\ pc[Owner] \in {"open", "push", "notify", "stop"} => Phase = "open"
    /\ pc[Owner] \in {"notify_all", "join"} => Phase = "closing"
    /\ pc[Owner] = "closed" => Phase = "closed"
    /\ pc[Owner] \in {"threw", "unwind"} => Phase = "failed"

\* The abstract phase is the owner's place.
LEMMA PhaseByPosition ==
    ASSUME Typed, Typed', ~Terminated, ~Terminated'
    PROVE  PhaseTable /\ PhaseTable'
  <1>1. PhaseTable
    BY DEF Typed, Positions, Phase, PhaseTable
  <1>2. PhaseTable'
    BY DEF Typed, Positions, Phase, PhaseTable
  <1>3. QED
    BY <1>1, <1>2

\* The phase stays where the owner does not move.
LEMMA PhaseKept ==
    ASSUME ~Terminated, ~Terminated', pc'[Owner] = pc[Owner], stop' = stop
    PROVE  Phase' = Phase
  BY DEF Phase

\* Only two actions end the process.
LEMMA Survives ==
    ASSUME Typed, Next, ~Terminate, \A p \in Thread : ~PushFails(p)
    PROVE  ~Terminated /\ ~Terminated'
  <1> USE PoolAssumption DEF Terminated, Thread, Typed, TypeOK
  <1>0. ~Terminated
    BY DEF Next
  <1>1. ASSUME NEW w \in Worker, Spawn(w) PROVE ~Terminated'
    BY <1>0, <1>1 DEF Spawn
  <1>2. ASSUME NEW w \in Worker, Lock(w) PROVE ~Terminated'
    BY <1>0, <1>2 DEF Lock
  <1>3. ASSUME NEW w \in Worker, Wait(w) PROVE ~Terminated'
    BY <1>0, <1>3 DEF Wait
  <1>4. ASSUME NEW w \in Worker, Exit(w) PROVE ~Terminated'
    BY <1>0, <1>4 DEF Exit
  <1>5. ASSUME NEW w \in Worker, Take(w) PROVE ~Terminated'
    BY <1>0, <1>5 DEF Take
  <1>6. ASSUME NEW w \in Worker, Return(w) PROVE ~Terminated'
    BY <1>0, <1>6 DEF Return
  <1>7. ASSUME NEW w \in Worker, SpuriousWake(w) PROVE ~Terminated'
    BY <1>0, <1>7 DEF SpuriousWake
  <1>8. ASSUME NEW p \in Thread, NEW t \in Task, Enqueue(p, t) PROVE ~Terminated'
    BY <1>0, <1>8 DEF Enqueue
  <1>9. ASSUME NEW p \in Thread, Push(p) PROVE ~Terminated'
    BY <1>0, <1>9 DEF Push
  <1>10. ASSUME NEW p \in Thread, NotifyOne(p) PROVE ~Terminated'
    BY <1>0, <1>10 DEF NotifyOne, Caller, Waiting
  <1>11. CASE Constructed \/ SpawnFails
    BY <1>0, <1>11 DEF Constructed, SpawnFails
  <1>12. CASE DestroyLock \/ SetStop \/ NotifyAll \/ Joined
    BY <1>0, <1>12 DEF DestroyLock, SetStop, NotifyAll, Joined, Waiting
  <1>13. QED
    BY NextCases, <1>0, <1>1, <1>2, <1>3, <1>4, <1>5, <1>6, <1>7, <1>8, <1>9,
       <1>10, <1>11, <1>12

\* The running tasks stay where no worker takes or ends one.
LEMMA RunningKept ==
    ASSUME holding' = holding
    PROVE  Running' = Running
  BY DEF Running, Executing

\* A pool about to be constructed is an open, empty abstract pool.
LEMMA RefinementInit == Init => Pool!Init
  <1> SUFFICES ASSUME Init PROVE Pool!Init
    OBVIOUS
  <1>1. ~Terminated /\ Running = {}
    BY PoolAssumption DEF Init, Terminated, Running, Executing, Thread
  <1>2. QED
    BY <1>1, PoolAssumption DEF Init, Pool!Init, Phase, Thread

\* Every step that does not end the process is one of the abstract pool, or
\* none.
LEMMA RefinementAlive ==
    ASSUME IInv, IInv', Entitled, Next, ~Terminate,
           \A p \in Thread : ~PushFails(p)
    PROVE  Pool!Next \/ UNCHANGED Pool!vars
  <1> DEFINE Goal == Pool!Next \/ UNCHANGED Pool!vars
  <1> USE PoolAssumption DEF Thread
  <1>0. /\ Typed /\ Typed' /\ MutexHeld /\ Accounted /\ Unopened
        /\ pc \in [Thread -> WorkerPC \cup OwnerPC]
        /\ holding \in [Worker -> Task \cup {NoTask}]
        /\ pending \in [Thread -> Task \cup {NoTask}]
        /\ tasks \in Seq(Task)
    BY DEF IInv, Typed, TypeOK
  <1> ~Terminated /\ ~Terminated'
    BY <1>0, Survives
  <1> PhaseTable /\ PhaseTable'
    BY <1>0, PhaseByPosition
  <1> USE DEF PhaseTable
  <1>1. ASSUME NEW w \in Worker, Spawn(w) PROVE Goal
    <2>1. Phase' = Phase
      BY <1>0, <1>1, PhaseKept DEF Spawn
    <2>2. QED
      BY <1>1, <2>1, RunningKept DEF Spawn, Pool!vars
  <1>2. CASE Constructed
    <2>1. Phase = "starting" /\ Phase' = "open"
      BY <1>0, <1>2 DEF Constructed
    <2>2. Pool!Open
      BY <1>2, <2>1, RunningKept DEF Constructed, Pool!Open
    <2>3. QED
      BY <2>2 DEF Pool!Next
  <1>3. CASE SpawnFails
    <2>1. Phase = "starting" /\ Phase' = "failed"
      BY <1>0, <1>3 DEF SpawnFails
    <2>2. Pool!Fail
      BY <1>3, <2>1, RunningKept DEF SpawnFails, Pool!Fail
    <2>3. QED
      BY <2>2 DEF Pool!Next
  <1>5. ASSUME NEW w \in Worker, Lock(w) PROVE Goal
    <2>1. Phase' = Phase
      BY <1>0, <1>5, PhaseKept DEF Lock
    <2>2. QED
      BY <1>5, <2>1, RunningKept DEF Lock, Pool!vars
  <1>6. ASSUME NEW w \in Worker, Wait(w) PROVE Goal
    <2>1. Phase' = Phase
      BY <1>0, <1>6, PhaseKept DEF Wait
    <2>2. QED
      BY <1>6, <2>1, RunningKept DEF Wait, Pool!vars
  <1>7. ASSUME NEW w \in Worker, Exit(w) PROVE Goal
    <2>1. Phase' = Phase
      BY <1>0, <1>7, PhaseKept DEF Exit
    <2>2. QED
      BY <1>7, <2>1, RunningKept DEF Exit, Pool!vars
  <1>8. ASSUME NEW w \in Worker, Take(w) PROVE Goal
    <2> DEFINE t == Head(tasks)
    <2>1. t \in Task /\ t \in InQueue
      <3>1. tasks # <<>> /\ 1 \in DOMAIN tasks /\ t = tasks[1]
        BY <1>0, <1>8, EmptySeq, LenProperties DEF Take
      <3>2. QED
        BY <1>0, <3>1 DEF InQueue
    <2>2. t \in submitted \ (Running \cup done)
      BY <1>0, <2>1 DEF Accounted, Accounting
    <2>3. Running' = Running \cup {t}
      <3>1. holding[w] = NoTask
        BY <1>0, <1>8 DEF Typed, Positions, Take
      <3>2. Executing' = Executing \cup {w}
        BY <1>0, <2>1, <3>1, <1>8 DEF Take, Executing
      <3>3. QED
        BY <1>0, <2>1, <3>1, <3>2, <1>8 DEF Take, Running, Executing
    <2>4. Phase' = Phase
      BY <1>0, <1>8, PhaseKept DEF Take
    <2>5. Pool!Start(t)
      <3>1. Phase # "failed"
        BY <1>0, <2>2 DEF Unopened, Typed, TypeOK, OwnerPC
      <3>2. QED
        BY <1>8, <2>2, <2>3, <2>4, <3>1 DEF Take, Pool!Start
    <2>6. QED
      BY <2>1, <2>5 DEF Pool!Next
  <1>9. ASSUME NEW w \in Worker, Return(w) PROVE Goal
    <2> DEFINE t == holding[w]
    <2>1. t \in Task /\ t \in Running
      BY <1>0, <1>9 DEF Typed, Positions, Return, Running, Executing
    <2>2. Running' = Running \ {t}
      <3>1. Executing' = Executing \ {w} /\ w \in Executing
        BY <1>0, <2>1, <1>9 DEF Return, Executing
      <3>2. \A v \in Executing \ {w} : holding[v] # t /\ holding'[v] = holding[v]
        BY <1>0, <3>1, <1>9 DEF Return, Accounted, Accounting, Executing
      <3>3. QED
        BY <3>1, <3>2 DEF Running
    <2>3. Phase' = Phase
      BY <1>0, <1>9, PhaseKept DEF Return
    <2>4. Pool!Finish(t)
      <3>1. Phase # "failed"
        BY <1>0, <1>9, ExecutesHanded
        DEF Typed, TypeOK, Positions, OwnerPC, Return
      <3>2. QED
        BY <1>9, <2>1, <2>2, <2>3, <3>1 DEF Return, Pool!Finish
    <2>5. QED
      BY <2>1, <2>4 DEF Pool!Next
  <1>10. ASSUME NEW w \in Worker, SpuriousWake(w) PROVE Goal
    <2>1. Phase' = Phase
      BY <1>0, <1>10, PhaseKept DEF SpuriousWake
    <2>2. QED
      BY <1>10, <2>1, RunningKept DEF SpuriousWake, Pool!vars
  <1>11. ASSUME NEW p \in Thread, NEW t \in Task, Enqueue(p, t)
         PROVE  Goal
    <2>1. Phase' = Phase
      BY <1>0, <1>11, PhaseKept DEF Enqueue, MayEnqueue
    <2>2. QED
      BY <1>11, <2>1, RunningKept DEF Enqueue, Pool!vars
  <1>12. ASSUME NEW p \in Thread, Push(p) PROVE Goal
    <2> DEFINE t == pending[p]
    <2>1. t \in Task /\ t \notin submitted
      BY <1>0, <1>12 DEF Typed, Positions, Push, Accounted, Fresh
    <2>2. Phase' = Phase
      BY <1>0, <1>12, PhaseKept DEF Push
    <2>3. \/ Parent[t] = Owner /\ Phase = "open"
          \/ Parent[t] \in Running /\ Phase # "failed"
      <3>1. CASE p = Owner
        BY <1>0, <3>1, <1>12 DEF Push, Entitled
      <3>2. CASE p \in Worker
        <4>1. holding[p] # NoTask
          BY <1>0, <3>2, <1>12 DEF Typed, Positions, Push
        <4>2. Parent[t] = holding[p]
          BY <3>2, <1>12 DEF Push, Entitled
        <4>3. QED
          BY <1>0, <3>2, <4>1, <4>2, ExecutesHanded
          DEF Typed, TypeOK, OwnerPC
      <3>3. QED
        BY <3>1, <3>2
    <2>4. Pool!Submit(t)
      BY <1>12, <2>1, <2>2, <2>3, RunningKept DEF Push, Pool!Submit
    <2>5. QED
      BY <2>1, <2>4 DEF Pool!Next
  <1>13. ASSUME NEW p \in Thread, NotifyOne(p) PROVE Goal
    <2>1. Phase' = Phase
      BY <1>0, <1>13, PhaseKept DEF NotifyOne, Caller, Waiting
    <2>2. QED
      BY <1>13, <2>1, RunningKept DEF NotifyOne, Pool!vars
  <1>14. CASE DestroyLock
    <2>1. Phase' = Phase
      BY <1>0, <1>14, PhaseKept DEF DestroyLock
    <2>2. QED
      BY <1>14, <2>1, RunningKept DEF DestroyLock, Pool!vars
  <1>15. CASE SetStop
    <2>1. Phase = "open" /\ Phase' = "closing"
      BY <1>0, <1>15 DEF SetStop
    <2>2. Pool!Close
      BY <1>15, <2>1, RunningKept DEF SetStop, Pool!Close
    <2>3. QED
      BY <2>2 DEF Pool!Next
  <1>16. CASE NotifyAll
    <2>1. Phase' = Phase
      BY <1>0, <1>16, PhaseKept DEF NotifyAll, Waiting
    <2>2. QED
      BY <1>16, <2>1, RunningKept DEF NotifyAll, Pool!vars
  <1>17. CASE Joined
    <2>1. Phase = "closing" /\ Phase' = "closed"
      BY <1>0, <1>17 DEF Joined
    <2>2. submitted = done
      BY <1>17, AllLeft DEF Joined
    <2>3. Pool!Closed
      BY <1>17, <2>1, <2>2, RunningKept DEF Joined, Pool!Closed
    <2>4. QED
      BY <2>3 DEF Pool!Next
  <1>18. QED
    BY NextCases, <1>1, <1>2, <1>3, <1>5, <1>6, <1>7, <1>8, <1>9, <1>10,
       <1>11, <1>12, <1>13, <1>14, <1>15, <1>16, <1>17

\* Every step of the pool is one of the abstract pool, or none.
LEMMA RefinementNext ==
    IInv /\ IInv' /\ Entitled /\ [Next]_vars => [Pool!Next]_(Pool!vars)
  <1> SUFFICES ASSUME IInv, IInv', Entitled, [Next]_vars
               PROVE  Pool!Next \/ UNCHANGED Pool!vars
    OBVIOUS
  <1> USE PoolAssumption DEF Thread
  <1>0. /\ Typed /\ Accounted /\ Unopened
        /\ pc \in [Thread -> WorkerPC \cup OwnerPC]
    BY DEF IInv, Typed, TypeOK
  <1>1. CASE Terminate
    <2>1. Phase = "failed" /\ Phase' = "failed"
      BY <1>0, <1>1 DEF Terminate, Phase, Terminated
    <2>2. QED
      BY <1>1, <2>1, RunningKept DEF Terminate, Pool!vars
  <1>2. ASSUME NEW p \in Thread, Next, PushFails(p)
        PROVE  Pool!Next \/ UNCHANGED Pool!vars
    <2>1. ~Terminated /\ Running' = Running
      BY <1>2, RunningKept DEF Next, PushFails
    <2>2. CASE Terminated'
      <3>1. p \in Worker
        BY <1>0, <1>2, <2>1, <2>2 DEF PushFails, Caller, Terminated
      <3>2. holding[p] \in Running /\ Phase' = "failed"
        BY <1>0, <1>2, <2>2, <3>1
        DEF Typed, Positions, PushFails, Running, Executing, Phase
      <3>3. Phase \notin {"closed", "failed"}
        <4>1. pc[Owner] \notin {"closed", "threw", "unwind"}
          BY <1>0, <1>2, <3>1, ExecutesHanded DEF Typed, Positions, PushFails
        <4>2. QED
          BY <2>1, <4>1 DEF Phase
      <3>4. Pool!Fail
        BY <1>2, <2>1, <3>2, <3>3 DEF PushFails, Pool!Fail
      <3>5. QED
        BY <3>4 DEF Pool!Next
    <2>3. CASE ~Terminated'
      <3>1. Phase' = Phase
        <4>1. CASE p = Owner
          BY <1>0, <1>2, <2>1, <2>3, <4>1
          DEF Typed, Positions, PushFails, Caller, Phase
        <4>2. CASE p # Owner
          BY <1>0, <1>2, <2>1, <2>3, <4>2, PhaseKept DEF PushFails
        <4>3. QED
          BY <4>1, <4>2
      <3>2. QED
        BY <1>2, <2>1, <3>1 DEF PushFails, Pool!vars
    <2>4. QED
      BY <2>2, <2>3
  <1>3. CASE UNCHANGED vars
    <2>1. Phase' = Phase /\ Running' = Running
      BY <1>3 DEF vars, Phase, Terminated, Running, Executing
    <2>2. QED
      BY <1>3, <2>1 DEF vars, Pool!vars
  <1>4. QED
    BY <1>1, <1>2, <1>3, RefinementAlive

\* The queue, the mutex and the condition variable implement the abstract pool:
\* tasks start at most once, only when they were handed over, by someone who
\* may, and the destructor returns when all are done.
THEOREM Refinement == Safety => Pool!Safety
  <1>1. Init => Entitled
    BY DEF Init, Entitled, Thread
  <1>2. IInv => Typed
    BY DEF IInv
  <1>3. IInv /\ IInv' /\ Entitled /\ [Next]_vars => Entitled'
    BY <1>2, EntitledNext DEF IInv
  <1>4. QED
    BY <1>1, <1>3, IInvInit, IInvNext, RefinementInit, RefinementNext, PTL
    DEF Safety, Pool!Safety
=============================================================================
