SPECIFICATION Spec
SYMMETRY Symmetric
CONSTANTS
  t1 = t1
  t2 = t2
  t3 = t3
  Tasks <- ThreeTasks
  MaxOrders = 2
  Requests <- MCAllRequests
  Books <- MCBooks
  Wirings <- BothWirings
  ClockSteps <- FineClock
  MaxFaults = 0
  MaxRestarts = 0
INVARIANTS
  TypeOK
  OpenIffWorking
  NeverOverfilled
  LiveOrdersAreCancellable
  CancelAllReachesEveryOrder
  JournalNeverAhead
  JournalAgreesInSQLite
  CacheAgreesInMemory
PROPERTIES
  SQLiteTerminalIsFinal
  VenueFollowsLifecycle
  CacheFollowsInMemory
