SPECIFICATION FairSpec
CONSTANTS
    Servers = {"http", "shuffler"}
    Requests = {q1}
    MaxCommits = 3
    MaxFaults = 2
    MaxStarts = 2
INVARIANTS
    StatsPublished
    NoFalseAlarm
PROPERTIES
    StopEnds
CHECK_DEADLOCK FALSE
