SPECIFICATION Spec
CONSTANTS
    User = {u1}
    Protocol = {wg, ipsec}
    MonthLengths <- ShortYear
    WeekLength = 2
    Limit = 1
    MaxDay = 7
    MaxCollections = 4
    MaxTraffic = 2
    MaxMishaps = 1
SYMMETRY Symmetry
INVARIANTS TypeOK CountedOnce CountersAddUp PeriodsExact YesterdayKnown QuotaCharged
CHECK_DEADLOCK FALSE
