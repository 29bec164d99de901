\* Registers of three lanes and rows of up to seven: two registers and a tail
\* of one.  The 63 bytes of MaxSize hold 15 floats.  CPU 2 exists but is not
\* for this process.
CONSTANTS
    Lanes = 3
    MaxWidth = 7
    MaxSize = 63
    DefaultWarmup = 1
    DefaultIters = 1
    DefaultShape <- MCDefaultShape
    NoValue = NoValue
    Text = Text
    Forever = 100
    Cpu = {0, 1, 2}
    Affinity = {0, 1}
    Calls <- MCCalls
    Arguments <- MCArguments
    Environments <- MCEnvironments
SPECIFICATION BenchSpec
INVARIANTS
    MatchesReference
    ErrorsKeepPrefix
    PrintedIsOneRun
    TensorsFit
    
    TraceFollowsOptions
PROPERTY Ends
\* infer returns and main ends.
CHECK_DEADLOCK FALSE
