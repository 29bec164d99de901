\* One thread, dump=2 with switch-cpu.
CONSTANTS
    main = main  w1 = w1  w2 = w2
    Thread <- OneThread
    Main = main
    Tracker = Tracker
    NoThread = NoThread
    DumpLimits = {2}
    SwitchCpu = {TRUE}
    CpuAllowed = {TRUE}
    MaxProfiles = 3
SPECIFICATION Spec
INVARIANTS
    ProfilesKept
\* The process ends.
CHECK_DEADLOCK FALSE
