\* The third CPU makes the vector grow for the second time, after a thread may
\* have been given a number that the first growth closed.
CONSTANTS
    Thread = {t1, t2}
    Counters = 2
    Monitored = 3
    MaxFd = 7
SPECIFICATION Spec
INVARIANT GroupsNeverAbort
\* Every thread ends.
CHECK_DEADLOCK FALSE
