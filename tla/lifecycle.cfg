SPECIFICATION Spec
CONSTANTS
    Brigades = {b1, b2}
    Scripts = {s1, s2}
    short = short
    long = long
    Addresses <- TwoAddresses
    Matches <- PrefixMatches
    Jobs = {"create", "createVip", "destroy", "forceDestroy", "replace", "vipOn", "vipOff", "repair"}
    MaxJobs = 3
    MaxFaults = 1
    MaxOutages = 1
INVARIANTS CreatedWhole OneLivePerAddress CreationRepeatable VipMarked NothingLeft LockAttended RepairComplete
PROPERTIES VipProtected
SYMMETRY Symmetry
CHECK_DEADLOCK FALSE
