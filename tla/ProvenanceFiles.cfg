SPECIFICATION Spec
CONSTANTS
    a = a
    b = b
    p1 = p1
    p2 = p2
    Lists <- Days
    Scanners <- Two
    Absent = Absent
    Fragment = Fragment
    MaxFreezes = 2
    MaxRuns = 2
INVARIANTS
    ReportIsBound
    MetaDescribesTheFile
    SameWorkResumes
PROPERTIES
    FindingsAreKept
SYMMETRY Symmetry
CHECK_DEADLOCK FALSE
