\* Up to five rows (two blocks, the second with one whole tile), products of
\* up to three (two blocks) and nine columns (two blocks, one column in the
\* second).
CONSTANTS
    MC = 3
    KC = 2
    NC = 8
    MR = 2
    NR = 4
    Lanes = 2
    MaxM = 5
    MaxK = 3
    MaxN = 9
    NoParams = NoParams
    Contexts <- MCContexts
    Arguments <- MCArguments
SPECIFICATION Spec
INVARIANTS
    TypeOK
    AccumulatesInOrder
    CompleteWhenOk
    ErrorsChangeNothing
\* infer returns.
CHECK_DEADLOCK FALSE
