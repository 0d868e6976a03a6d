SPECIFICATION Spec
CONSTANTS
    Users = {u1}
    Clerks = {c1}
    Tools = {t1, t2}
    Protocols = {"ovc", "outline"}
    Wishes <- TwoWishes
    MaxValues = 3
    MaxFaults = 2
INVARIANTS
    EndpointServes
    CloakThere
    PromisesKept
    PeersKnown
SYMMETRY Symmetry
