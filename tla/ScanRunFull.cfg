SPECIFICATION FairSpec
CONSTANTS
    w1 = w1
    w2 = w2
    Workers <- OneWorker
    N = 3
    Requests <- AnyCommand
    Faults <- Killed
    Straddling <- NoneStraddle
    MaxRuns = 2
INVARIANTS
    TypeOK
    CountedIsStored
PROPERTIES
    ImplementsCensus
    Terminates
