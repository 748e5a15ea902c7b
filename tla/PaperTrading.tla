---------------------------- MODULE PaperTrading ----------------------------
(***************************************************************************)
(* The paper stack on live market data, as scripts/paper_demo.py wires it: *)
(* BookFeed's source feeds a strategy and PaperVenue, the strategy's       *)
(* orders and the books meet in a fill engine (fill/orderbook.py,          *)
(* fill/immediate.py), and the fills change PaperAccount.                  *)
(*                                                                         *)
(* The journals are the in-memory ones, so a callback never suspends: the  *)
(* loop is busy with one at a time, while the receiver thread and the      *)
(* exchange go on.  A callback takes one step, and one more per fill.      *)
(***************************************************************************)
EXTENDS BookFeed, PaperAccount

CONSTANTS
  Engines,      \* the fill engines that may be wired
  Intents,      \* what the strategy may submit; it alternates the side
  MaxOrders,    \* bound: orders submitted
  MakerFee, TakerFee, FeeUnit   \* the fee is price * quantity * rate / FeeUnit

ASSUME PaperTradingAssumption ==
  /\ Engines \subseteq {"orderbook", "immediate"}
  /\ Intents \subseteq [type : {"MARKET", "LIMIT"}, price : Nat, quantity : Nat \ {0}]
  /\ MaxOrders \in Nat
  /\ MakerFee \in Nat /\ TakerFee \in Nat /\ FeeUnit \in Nat \ {0}

VARIABLES
  engine,     \* the fill engine of this process
  orders,     \* PaperVenue._all_orders, the id is the index; "open" as in _open_orders
  running,    \* the callback the loop is in, with the book it fills on and the
              \* orders it has yet to try
  handed      \* auxiliary: books handed to the strategy and to the venue

tradingVars == <<engine, orders, running, handed>>
vars == <<feedVars, accountVars, latestBook, tradingVars>>

Idle == [callback |-> "none", book |-> NoBook, rest |-> {}]

-----------------------------------------------------------------------------
(* The fill engines. *)

\* _walk: quantity and notional taken from successive levels.
Walk(levels, n) ==
  LET after[i \in 0 .. Len(levels)] ==
        IF i = 0 THEN [filled |-> 0, notional |-> 0]
        ELSE LET take == Lesser(n - after[i - 1].filled, levels[i].quantity)
             IN  [filled   |-> after[i - 1].filled + take,
                  notional |-> after[i - 1].notional + take * levels[i].price]
  IN  after[Len(levels)]

Opposite(side, b) == IF side = "BUY" THEN b.asks ELSE b.bids

Crossed(order, b) ==
  LET levels == Opposite(order.side, b)
  IN  /\ levels # <<>>
      /\ IF order.side = "BUY" THEN levels[1].price <= order.price
                               ELSE levels[1].price >= order.price

\* OrderbookFillEngine: a market order walks the book, a crossed limit fills
\* in full at its own price.
OrderbookFills(order, b) ==
  LET remaining == order.quantity - order.filled
      fill(price, n, rate) ==
        {[side |-> order.side, price |-> price, quantity |-> n,
          fee |-> Divided(price * n * rate, FeeUnit)]}
      walked == Walk(Opposite(order.side, b), remaining)
  IN  CASE order.type = "MARKET" ->
             IF walked.filled = 0 THEN {}
             ELSE fill(Divided(walked.notional, walked.filled), walked.filled, TakerFee)
        [] order.type = "LIMIT" ->
             IF Crossed(order, b) THEN fill(order.price, remaining, MakerFee) ELSE {}

\* ImmediateFillEngine: all of it at the top of the opposite side, no fee.
ImmediateFills(order, b) ==
  IF Opposite(order.side, b) # <<>> /\ (order.type = "MARKET" \/ Crossed(order, b))
  THEN {[side |-> order.side, price |-> Opposite(order.side, b)[1].price,
         quantity |-> order.quantity - order.filled, fee |-> 0]}
  ELSE {}

\* try_fill: the fill, or none.
TryFill(order, b) ==
  IF engine = "orderbook" THEN OrderbookFills(order, b) ELSE ImmediateFills(order, b)

-----------------------------------------------------------------------------
(* Callbacks, run by the loop in the order they were handed over. *)

OpenOrders == {o \in DOMAIN orders : orders[o].open}

\* Those of some orders that fill on a book.
Fillable(placed, tried, b) ==
  {o \in tried : placed[o].open /\ TryFill(placed[o], b) # {}}

\* The callback fills the first of them next, or returns.
Runs(callback, b, tried, placed) ==
  running' = IF Fillable(placed, tried, b) = {} THEN Idle
             ELSE [callback |-> callback, book |-> b, rest |-> tried]

Called(callback) ==
  /\ phase \in {"streaming", "stopped"} /\ running = Idle
  /\ queue # <<>> /\ Head(queue).callback = callback
  /\ queue' = Tail(queue)
  /\ handed' = [handed EXCEPT ![callback] = @ + 1]
  /\ UNCHANGED <<exchange, wire, phase, subs, book, faults, gap, accountVars, engine>>

\* AlternatingDemoStrategy.on_orderbook submits; no breaker is wired, the OMS
\* places the order, and the venue tries it on the book it has.
StrategySubmits(intent) ==
  /\ Called("strategy")
  /\ Len(orders) < MaxOrders
  /\ orders' = Append(orders,
                 [side |-> IF Len(orders) % 2 = 0 THEN "BUY" ELSE "SELL",
                  type |-> intent.type, price |-> intent.price,
                  quantity |-> intent.quantity, filled |-> 0, open |-> TRUE])
  /\ Runs("strategy", latestBook, {Len(orders')}, orders')
  /\ UNCHANGED latestBook

\* The interval since the last order has not passed.
StrategyWaits ==
  /\ Called("strategy")
  /\ orders # <<>>
  /\ UNCHANGED <<orders, running, latestBook>>

\* PaperVenue._on_orderbook: keep the book, try every open order on it.
VenueTicks ==
  /\ Called("venue")
  /\ latestBook' = Head(queue).event
  /\ Runs("venue", latestBook', OpenOrders, orders)
  /\ UNCHANGED orders

\* _try_fill_order and _apply_fill_to_order for the next order.  A fill
\* callback may raise: the fill stands, the orders behind it are not tried,
\* and what the strategy's call raises the OMS turns into SubmissionFailed.
FillNext(o) ==
  /\ LET fillable == Fillable(orders, running.rest, running.book)
     IN  o \in fillable /\ \A p \in fillable : o <= p
  /\ \E fill \in TryFill(orders[o], running.book) :
       LET filled == orders[o].filled + fill.quantity
       IN  /\ TakeFill(fill)
           /\ orders' = [orders EXCEPT ![o].filled = filled,
                                       ![o].open = filled < orders[o].quantity]
  /\ \/ /\ Runs(running.callback, running.book, {p \in running.rest : p > o}, orders)
        /\ UNCHANGED faults
     \/ /\ running.callback = "venue"
        /\ running' = Idle
        /\ CallbackRaises
  /\ UNCHANGED <<exchange, wire, phase, subs, book, queue, gap, latestBook, engine, handed>>

-----------------------------------------------------------------------------
(* The supervisor, as far as it concerns these components. *)

\* start: the venue subscribes, the source connects.
Start == StartFeed /\ UNCHANGED <<accountVars, latestBook, tradingVars>>

\* stop: the drain cancels what is open, then the source stops.
Stop ==
  /\ running = Idle
  /\ StopFeed
  /\ orders' = [o \in DOMAIN orders |-> [orders[o] EXCEPT !.open = FALSE]]
  /\ UNCHANGED <<accountVars, latestBook, engine, running, handed>>

LoopEnds ==
  /\ running = Idle
  /\ Exit
  /\ UNCHANGED <<accountVars, latestBook, tradingVars>>

Outside ==
  /\ \/ \E m \in Moves : Move(m)
     \/ Reconnect
     \/ Receive
  /\ UNCHANGED <<accountVars, latestBook, tradingVars>>

-----------------------------------------------------------------------------

Init ==
  /\ FeedInit
  /\ AccountInit
  /\ engine \in Engines
  /\ orders = <<>>
  /\ running = Idle
  /\ handed = [strategy |-> 0, venue |-> 0]

Loop ==
  \/ \E intent \in Intents : StrategySubmits(intent)
  \/ StrategyWaits
  \/ VenueTicks
  \/ \E o \in DOMAIN orders : FillNext(o)

Next == Outside \/ Loop \/ Start \/ Stop \/ LoopEnds

ReceiverRuns == Receive /\ UNCHANGED <<accountVars, latestBook, tradingVars>>

\* The operating system runs the receiver thread, asyncio runs the callbacks.
Fairness == WF_vars(ReceiverRuns) /\ WF_vars(Loop)

Spec == Init /\ [][Next]_vars /\ Fairness

-----------------------------------------------------------------------------
(* Properties. *)

\* What taking so much from each level takes in all, and for how much.
Tally(levels, taken) ==
  LET sum[i \in 0 .. Len(levels)] ==
        IF i = 0 THEN [filled |-> 0, notional |-> 0]
        ELSE [filled   |-> sum[i - 1].filled + taken[i],
              notional |-> sum[i - 1].notional + taken[i] * levels[i].price]
  IN  sum[Len(levels)]

\* Notionals of all the ways to take n out of a side.
Notionals(levels, n) ==
  LET ways == {taken \in [DOMAIN levels -> 0 .. n] :
                 /\ \A i \in DOMAIN levels : taken[i] <= levels[i].quantity
                 /\ Tally(levels, taken).filled = n}
  IN  {Tally(levels, taken).notional : taken \in ways}

\* A market order pays the least, or gets the most, that the venue's book has
\* for its quantity: the engine trusts the source to have sorted the levels of
\* every snapshot and delta (OrderbookFillEngine._walk, to_snapshot).
FillsAreBest ==
  \A n \in {intent.quantity : intent \in Intents} :
    LET bought == Walk(latestBook.asks, n)
        sold   == Walk(latestBook.bids, n)
    IN  /\ \A cost \in Notionals(latestBook.asks, bought.filled) : bought.notional <= cost
        /\ \A proceeds \in Notionals(latestBook.bids, sold.filled) : sold.notional >= proceeds

\* The venue is never ahead of the strategy and at most one book behind: an
\* order is tried on the book just before the one it was decided on, never an
\* older one, nor one the strategy has not seen (subscription order of
\* paper_demo.py and PaperVenue.start, _dispatch).
VenueWithinOneBook ==
  handed.venue <= handed.strategy /\ handed.strategy <= handed.venue + 1

\* The venue comes to hold the exchange's latest update while the stream runs
\* and no change of it was missed, through lost connections, callbacks that
\* raise and fills that go on meanwhile (_dispatch, _safe_call, _on_orderbook).
VenueCatchesUp ==
  <>[](phase = "streaming" /\ faults.gaps = 0 => latestBook.sequence = exchange.u)

=============================================================================
