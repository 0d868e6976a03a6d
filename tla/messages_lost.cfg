SPECIFICATION Spec
CONSTANTS
  KeepNoTtl = 2
  KeepAll = 4
  Month = 3
  Ttls <- SomeTtls
  MaxClock = 5
  MaxMessages = 6
INVARIANT CollectedAsPromised
CHECK_DEADLOCK FALSE
