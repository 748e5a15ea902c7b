SPECIFICATION Spec
CONSTANTS
  op1 = op1
  Breakers <- MCBreakers
  Action <- MCAction
  Latching <- MCLatching
  Operators <- OneOperator
  OperatorCalls <- Acknowledges
  MaxOrders = 2
  FaultKinds <- ReconcileFails
CHECK_DEADLOCK FALSE
INVARIANT
  FailedAckStaysQuarantined
