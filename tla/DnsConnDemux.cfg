SPECIFICATION FairSpec
CONSTANTS
    q1 = q1
    q2 = q2
    q3 = q3
    a = a
    aaaa = aaaa
    Queries = {q1, q2, q3}
    IDSpace = 2
    Questions = {a, aaaa}
    Asks <- OneAskedTwice
    Nobody = Nobody
INVARIANTS
    RightAnswer
    HandedOnce
    NoLeak
PROPERTIES
    Returns
