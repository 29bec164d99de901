\* The three builds, up to three threads; hardware_concurrency() = 3.
CONSTANTS
    Requests <- MCRequests
    Hardware = 3
    PoolSize = 3
    MaxTeam = 3
    CallingThread = CallingThread
    NoThread = NoThread
    NoTask = NoTask
    MaxSpurious = 1
SPECIFICATION Spec
INVARIANTS
    FrameOutlivesCalls
PROPERTIES
    ImplementsForkJoin
\* The call returns.
CHECK_DEADLOCK FALSE
