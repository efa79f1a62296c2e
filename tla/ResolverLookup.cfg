SPECIFICATION FairSpec
CONSTANTS
    s1 = s1
    s2 = s2
    Servers = {s1, s2}
    Configs <- PooledAndLegacy
    NoServer = NoServer
INVARIANTS
    DoubtIsEarned
    MergeIsOptimistic
PROPERTIES
    AnswerIsFinal
    Terminates
