----------------------------- MODULE MCOrderPath -----------------------------
(***************************************************************************)
(* Instances of OrderPath for TLC.  One symbol.  Market orders of two and  *)
(* three units over books one and two deep are filled in part by several   *)
(* ticks; the limit order rests until the price comes to it; the post-only *)
(* one is refused on one of the books.                                     *)
(***************************************************************************)
EXTENDS OrderPath, FiniteSetsExt, TLC

CONSTANTS t1, t2, t3

MarketBuy(n) ==
  [side |-> "BUY", type |-> "MARKET", tif |-> "GTC", price |-> 0, quantity |-> n]
LimitSell(tif, n) ==
  [side |-> "SELL", type |-> "LIMIT", tif |-> tif, price |-> 5, quantity |-> n]

Book(askDepth, bid, bidDepth) ==
  [ask |-> [price |-> 6, depth |-> askDepth], bid |-> [price |-> bid, depth |-> bidDepth]]

MCRequests == {MarketBuy(2), LimitSell("POST_ONLY", 1)}
MCBigRequests == {MarketBuy(3)}
MCAllRequests == MCRequests \cup MCBigRequests
MCBooks == {Book(1, 4, 1), Book(2, 5, 1)}
MCThinBooks == {Book(1, 4, 1)}

TwoTasks == {t1, t2}
ThreeTasks == {t1, t2, t3}
FineClock == {1}

OnSQLite == {"sqlite"}
BothWirings == {"sqlite", "memory"}

Symmetric == Permutations(Tasks)

=============================================================================
