SPECIFICATION Spec
CONSTANTS
    UserId = {u1, u2}
    Addr = {a1, a2}
    NoUser = NoUser
    NoAddr = NoAddr
    MaxUsers = 2
    Kinds = {"createbrigade", "create", "replace", "delete", "block", "unblock", "socketDelete", "socketBlock", "patch", "replay", "replayFresh", "replayPlain", "replayFreshPlain", "replayInterface", "replayDelayed", "destroy"}
    MaxFaults = 1
    MaxPatches = 2
SYMMETRY Symmetry
INVARIANTS FileAgreesWithEndpoint AddressesApart
PROPERTIES FreshReplayRepairs BrigadierKept
