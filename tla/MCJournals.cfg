SPECIFICATION Spec
CONSTANTS
  OrderTasks = {"fill"}
  Symbols = {"BTC", "ETH"}
  Reports <- MCReports
  MaxTime = 1
  MaxCalls = 4
  MaxRestarts = 1
INVARIANTS
  FillRowsFirst
PROPERTIES
  RowsDurable
  RestoresLastKnown
  WritesEnd
CHECK_DEADLOCK FALSE
