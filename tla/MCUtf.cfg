CONSTANTS
    Files <- MCFiles
    Source = "text"
    Before <- MCBefore
    Words <- MCWords
    NULL = NULL
    Commands <- MCCommands
    Stack <- MCStack
    MaxRuns = 2
SPECIFICATION Spec
CHECK_DEADLOCK FALSE
INVARIANTS
    TypeOK
    ConversionExact
    OutputComplete
    RoundTrip
    ArgsAreMeant
