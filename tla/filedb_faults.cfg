SPECIFICATION Spec
CONSTANTS
    Session = {s1, s2, s3}
    NoSession = NoSession
    Inode = {i1, i2, i3, i4, i5}
    NoInode = NoInode
    Kinds = {"edit", "read"}
    MaxVersion = 4
    MaxFaults = 2
SYMMETRY Symmetry
INVARIANTS SessionsExclusive AckedSurvives
PROPERTY ImplementsAtomicDocument
CHECK_DEADLOCK FALSE
