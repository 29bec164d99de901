\* A smaller instance; the transpose flags are not respected.
CONSTANTS
    MC = 3
    KC = 2
    NC = 8
    MR = 2
    NR = 4
    Lanes = 2
    MaxM = 2
    MaxK = 2
    MaxN = 2
    NoParams = NoParams
    Contexts <- MCContexts
    Arguments <- MCArguments
SPECIFICATION Spec
INVARIANT
    FlagsRespected
\* infer returns.
CHECK_DEADLOCK FALSE
