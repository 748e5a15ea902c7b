SPECIFICATION Spec
CONSTANTS
  op1 = op1
  Breakers <- MCBreakers
  Action <- MCAction
  Latching <- MCLatching
  Operators <- OneOperator
  OperatorCalls <- AllCalls
  MaxOrders = 2
  FaultKinds <- NoFaults
CHECK_DEADLOCK FALSE
PROPERTY
  ResumesOnlyByAck
