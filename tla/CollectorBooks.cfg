SPECIFICATION Spec
CONSTANTS
    w1 = w1
    w2 = w2
    Workers = {w1, w2}
    Probes = 2
    NBuckets = 2
    Snapshots = 1
SYMMETRY Symmetry
INVARIANTS
    Balanced
    SnapshotMissesFew
    FinalSnapshotIsExact
    QuantileIsABucket
