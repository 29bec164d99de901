\* Two threads, two tasks and the idle task, a ring of 11 words: exactly a LOST
\* and a SWITCH record.
CONSTANTS
    Thread = {d1, d2}
    NoThread = NoThread
    Tasks = {0, 1, 2}
    RingSize = 11
    Sizes = {0, 3}
    MaxTime = 7
SPECIFICATION Spec
SYMMETRY ThreadSymmetry
CONSTRAINT RaceBound
INVARIANTS
    ReadAsWritten
    SlicesTrue
    EndedDisjoint
PROPERTIES
    TailAdvances
\* Time is bounded.
CHECK_DEADLOCK FALSE
