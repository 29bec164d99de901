\* Three workers, four tasks of which two are enqueued by running tasks.
CONSTANTS
    w1 = w1  w2 = w2  w3 = w3  owner = owner
    t1 = t1  t2 = t2  t3 = t3  t4 = t4
    Worker <- MCWorkers3
    Owner = owner
    Task <- MCTasks4
    Parent <- MCParent4
    NoThread = NoThread
    NoTask = NoTask
    MaxSpurious = 1
SPECIFICATION Spec
INVARIANTS
    TypeOK
    Accounting
    MutexHeld
    WorkConserving
    StopSeen
    QueueServed
    DrainedOnDestroy
PROPERTIES
    ImplementsTaskPool
\* The owner's program ends.
CHECK_DEADLOCK FALSE
