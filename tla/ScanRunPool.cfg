SPECIFICATION Spec
CONSTANTS
    w1 = w1
    w2 = w2
    Workers <- TwoWorkers
    N = 2
    Requests <- AnyCommand
    Faults <- Anything
    Straddling <- LastStraddles
    MaxRuns = 2
INVARIANTS
    OneOwner
    Accounted
    CompleteIsMeasured
    ResumePreserves
    ReturnCovers
PROPERTIES
    ReturnIsDurable
