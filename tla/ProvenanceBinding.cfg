SPECIFICATION Spec
CONSTANTS
    a = a
    b = b
    p1 = p1
    p2 = p2
    Lists <- Days
    Scanners <- One
    Absent = Absent
    Fragment = Fragment
    MaxFreezes = 2
    MaxRuns = 2
INVARIANTS
    ChecksumBinds
CHECK_DEADLOCK FALSE
