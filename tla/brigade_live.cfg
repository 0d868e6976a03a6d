SPECIFICATION FairSpec
CONSTANTS
    UserId = {u1, u2, u3}
    Addr = {a1, a2}
    NoUser = NoUser
    NoAddr = NoAddr
    MaxUsers = 3
    Kinds = {"createbrigade", "create", "replace", "delete", "block", "unblock", "replayFresh", "destroy"}
    MaxFaults = 1
    MaxPatches = 0
PROPERTY SessionEnds
