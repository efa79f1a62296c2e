SPECIFICATION Spec
CONSTANTS
    N = 3
    Sites <- WorksOrNot
    Stalls <- Timeouts
    Tears <- HereAndThere
    Strides <- OneOrTwo
    MaxSpoilt = 1
    Restless <- TheMiddle
INVARIANTS
    SummaryAddsUp
    ReportedIsRechecked
    SampleIsExact
    SampleIsUniform
    DiffIsHonest
    DiffIsComplete
