SPECIFICATION Spec
CONSTANTS
  KeepNoTtl = 2
  KeepAll = 4
  Month = 3
  Ttls <- SomeTtls
  MaxClock = 5
  MaxMessages = 6
INVARIANTS TypeOK GroupedAsPromised
PROPERTIES LimitsHold NothingComesBack
CHECK_DEADLOCK FALSE
