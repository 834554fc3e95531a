CONSTANTS
    p1 = p1
    p2 = p2
    p3 = p3
    Pids = {p1, p2, p3}
    Shell = Shell
    NoPid = NoPid
    Lines <- MCLines
    MaxInputs = 3
SPECIFICATION FairSpec
CHECK_DEADLOCK FALSE
INVARIANTS
    TypeOK
    NothingOverlooked
    WaitsOnlyForTheRunning
    JobNumbersDistinct
    StoppedJobListed
    PipesEnd
    LineIsMeant
PROPERTIES
    EverySignalServed
