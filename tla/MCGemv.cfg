\* Up to four rows and nine columns, a team of up to three calls, blocks of
\* two accumulators of two lanes.
CONSTANTS
    NumThreads = 3
    Lanes = 2
    Accs = 2
    MaxRows = 4
    MaxCols = 9
    NoParams = NoParams
    Stale = Stale
    Contexts <- MCContexts
    Arguments <- MCArguments
SPECIFICATION Spec
INVARIANTS
    MatchesReference
    RowsApart
    ReadsInBounds
    AllOrNothing
PROPERTIES
    StoredOnce
    InferReturns
\* infer returns.
CHECK_DEADLOCK FALSE
