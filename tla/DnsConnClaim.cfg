SPECIFICATION Spec
CONSTANTS
    q1 = q1
    q2 = q2
    q3 = q3
    a = a
    aaaa = aaaa
    Queries = {q1, q2}
    IDSpace = 2
    Questions = {a, aaaa}
    Asks <- TwoAsked
    Nobody = Nobody
INVARIANTS
    ClaimStands
