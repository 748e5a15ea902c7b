--------------------------- MODULE MCPaperTrading ---------------------------
(* Instances of PaperTrading for TLC. *)
EXTENDS PaperTrading

MCInitialBooks == {[bids |-> 97 :> 1, asks |-> 100 :> 1 @@ 103 :> 2]}

\* Levels that come, change and go, at the best price and behind it.
MCMoves ==
  {[side |-> "asks", price |-> 100, size |-> 0], [side |-> "asks", price |-> 105, size |-> 1],
   [side |-> "bids", price |-> 99, size |-> 2]}

\* A market order deeper than the best level, and a limit that may rest.
MCIntents == {[type |-> "MARKET", price |-> 0, quantity |-> 2],
              [type |-> "LIMIT", price |-> 100, quantity |-> 1]}

=============================================================================
