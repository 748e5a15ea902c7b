SPECIFICATION FairSpec
CONSTANTS
  t1 = t1
  t2 = t2
  t3 = t3
  Tasks <- ThreeTasks
  MaxOrders = 1
  Requests <- MCBigRequests
  Books <- MCThinBooks
  Wirings <- OnSQLite
  ClockSteps <- FineClock
  MaxFaults = 1
  MaxRestarts = 1
INVARIANTS
  LiveOrdersAreCancellable
  FillRecordsCoverOrderRows
PROPERTIES
  CallsReturn
