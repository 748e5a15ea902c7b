SPECIFICATION Spec
CONSTANTS
  s1 = s1
  s2 = s2
  o1 = o1
  o2 = o2
  Symbols <- TwoSymbols
  Orders <- TwoOrders
  Reports <- MCReports
  Wirings <- MCWirings
  MaxFailures = 1
PROPERTIES
  GateFollowsVenue
  OrdersGoWhileTripped
