SPECIFICATION Spec
CONSTANTS
    w1 = w1
    w2 = w2
    Workers <- OneWorker
    N = 1
    Requests <- PlainAndResumed
    Faults <- NoFault
    Straddling <- NoneStraddle
    MaxRuns = 2
INVARIANTS
    AbortedIsRetried
