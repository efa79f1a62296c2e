SPECIFICATION FairSpec
CONSTANTS
    MaxHops = 1
    Targets <- EveryTarget
    WildcardCheck = TRUE
    CheckDelegation = FALSE
    HTTPFallback = TRUE
INVARIANTS
    StallAgreesWithConclusive
    LadderIsClimbed
    FallbackKeepsReason
    BrokenIsExplained
    CohortsPartition
    CompleteIsUncut
    OneHostOneWinner
PROPERTIES
    Terminates
