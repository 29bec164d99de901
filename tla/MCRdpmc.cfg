\* Counters of two bits in values of three, so that both wrap; two updates.
CONSTANTS
    Modulus = 8
    Half = 2
    Counters = 2
    MaxCount = 9
    MaxUpdates = 2
SPECIFICATION ReadSpec
INVARIANTS
    ReadsACount
    DeltaIsExact
\* The profile ends.
CHECK_DEADLOCK FALSE
