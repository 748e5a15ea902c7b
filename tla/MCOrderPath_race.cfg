SPECIFICATION Spec
CONSTANTS
  t1 = t1
  t2 = t2
  t3 = t3
  Tasks <- TwoTasks
  MaxOrders = 1
  Requests <- MCBigRequests
  Books <- MCThinBooks
  Wirings <- OnSQLite
  ClockSteps <- FineClock
  MaxFaults = 0
  MaxRestarts = 0
INVARIANT
  OpenInCacheIsLive
