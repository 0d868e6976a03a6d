SPECIFICATION Spec
CONSTANTS
    User = {u1}
    Protocol = {wg, ipsec}
    Network = {n1}
    NoNetwork = NoNetwork
    MonthLengths <- ShortYear
    WeekLength = 3
    MaxInactive = 2
    EndpointsTTL = 2
    MaxDay = 4
    MaxCollections = 3
    MaxUses = 2
    MaxMishaps = 1
SYMMETRY Symmetry
INVARIANTS MarksExact ActivityAddsUp PastMonthsRight
PROPERTIES ActiveCounted NetworksVisited
CHECK_DEADLOCK FALSE
