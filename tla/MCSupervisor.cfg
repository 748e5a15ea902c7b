SPECIFICATION FairSpec
CONSTANTS
  op1 = op1
  Breakers <- MCAllBreakers
  Action <- MCAllActions
  Latching <- MCLatching
  Operators <- OneOperator
  OperatorCalls <- AllCalls
  MaxOrders = 2
  FaultKinds <- AllFaults
CHECK_DEADLOCK FALSE
INVARIANTS
  TypeOK
  NoTickWhileStopping
  SubscribersAgree
PROPERTIES
  LatchedLeavesRunning
  LatchedClearsBook
  StopCompletes
  ReconcilingEnds
