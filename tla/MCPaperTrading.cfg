SPECIFICATION Spec
CONSTANTS
  InitialBooks <- MCInitialBooks
  Moves <- MCMoves
  MaxUpdates = 3
  MaxReconnects = 1
  MaxGaps = 1
  MaxRaises = 1
  InitialBalance = 1000
  Engines = {"orderbook", "immediate"}
  Intents <- MCIntents
  MaxOrders = 2
  MakerFee = 2
  TakerFee = 5
  FeeUnit = 100
INVARIANTS
  MoneyConserved
  BookExactUnlessGap
  FillsAreBest
  VenueWithinOneBook
PROPERTIES
  VenueCatchesUp
CHECK_DEADLOCK FALSE
