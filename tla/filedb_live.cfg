SPECIFICATION FairSpec
CONSTANTS
    Session = {s1, s2}
    NoSession = NoSession
    Inode = {i1, i2, i3, i4, i5}
    NoInode = NoInode
    Kinds = {"create", "edit", "put", "fetch"}
    MaxVersion = 2
    MaxFaults = 0
INVARIANTS FetchConsistent
PROPERTY SpinReleased
