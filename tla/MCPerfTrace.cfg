\* Main and two other threads, up to two profiles each, dump=1 or no dump,
\* with and without the tracker and a cpus= mask.
CONSTANTS
    main = main  w1 = w1  w2 = w2
    Thread <- ThreeThreads
    Main = main
    Tracker = Tracker
    NoThread = NoThread
    DumpLimits = {0, 1}
    SwitchCpu = {FALSE, TRUE}
    CpuAllowed = {FALSE, TRUE}
    MaxProfiles = 2
SPECIFICATION Spec
SYMMETRY WorkerSymmetry
INVARIANTS
    SinksLive
    FirstProfilesRecorded
    RecordedOnce
    SoleThreadKeeps
    NobodyStuck
\* The process ends.
CHECK_DEADLOCK FALSE
