---------------------------- MODULE PaperAccount ----------------------------
(***************************************************************************)
(* The account PaperVenue keeps (venues/paper.py): one symbol's net        *)
(* quantity, entry price and realized PnL, marked at the latest book.      *)
(*                                                                         *)
(* Money is a whole number of the last digit Decimal keeps, so a division  *)
(* rounds as Decimal's does.  "tape" is auxiliary: what the fills          *)
(* themselves say was paid and received.                                   *)
(***************************************************************************)
EXTENDS Integers, Sequences

CONSTANT InitialBalance

ASSUME PaperAccountAssumption == InitialBalance \in Int

VARIABLES
  position,     \* PaperVenue._positions[symbol]
  latestBook,   \* PaperVenue._latest_book[symbol]
  tape          \* cash: what the fills and fees brought in;
                \* rounding: quantities whose entry price was rounded

accountVars == <<position, tape>>

Position == [net_qty : Int, entry_price : Int, realized_pnl : Int]
Fill == [side : {"BUY", "SELL"}, price : Nat, quantity : Nat \ {0}, fee : Nat]

Level == [price : Nat, quantity : Nat]
Snapshot == [bids : Seq(Level), asks : Seq(Level), sequence : Nat]
NoBook == [bids |-> <<>>, asks |-> <<>>, sequence |-> 0]

Absolute(n) == IF n < 0 THEN -n ELSE n

Lesser(m, n) == IF m <= n THEN m ELSE n

\* Decimal's division of a by n > 0: to the nearest, a half to the even one.
Divided(a, n) ==
  LET q == a \div n
      r == a % n
  IN  IF 2 * r < n \/ (2 * r = n /\ q % 2 = 0) THEN q ELSE q + 1

-----------------------------------------------------------------------------
(* _apply_fill *)

Signed(fill) == IF fill.side = "BUY" THEN fill.quantity ELSE -fill.quantity

\* 1. Opening from flat; whatever entry price an earlier position left goes.
Opened(pos, fill) ==
  [net_qty |-> Signed(fill), entry_price |-> fill.price,
   realized_pnl |-> pos.realized_pnl - fill.fee]

SameDirection(pos, fill) ==
  \/ pos.net_qty > 0 /\ Signed(fill) > 0
  \/ pos.net_qty < 0 /\ Signed(fill) < 0

\* 2. Adding: the entry price is the average by quantity.
Added(pos, fill) ==
  LET new == pos.net_qty + Signed(fill)
  IN  [net_qty |-> new,
       entry_price |-> Divided(Absolute(pos.net_qty) * pos.entry_price
                                 + fill.quantity * fill.price, Absolute(new)),
       realized_pnl |-> pos.realized_pnl - fill.fee]

\* What closing part or all of the position realizes.
Profit(pos, fill) ==
  LET closed == Lesser(Absolute(pos.net_qty), fill.quantity)
  IN  IF pos.net_qty > 0 THEN (fill.price - pos.entry_price) * closed
                         ELSE (pos.entry_price - fill.price) * closed

ReducedOnly(pos, fill) ==   \* mutant: what is left over opens at the old entry price
  [net_qty |-> pos.net_qty + Signed(fill), entry_price |-> pos.entry_price,
   realized_pnl |-> pos.realized_pnl + Profit(pos, fill) - fill.fee]

\* 3. Reducing, closing or flipping.
Reduced(pos, fill) ==
  LET flipped == fill.quantity > Absolute(pos.net_qty)
  IN  [net_qty |-> pos.net_qty + Signed(fill),
       entry_price |-> IF flipped THEN fill.price ELSE pos.entry_price,
       realized_pnl |-> pos.realized_pnl + Profit(pos, fill) - fill.fee]

AfterFill(pos, fill) ==
  IF pos.net_qty = 0 THEN Opened(pos, fill)
  ELSE IF SameDirection(pos, fill) THEN Added(pos, fill)
  ELSE Reduced(pos, fill)

\* The part of _apply_fill_to_order that concerns the account.
TakeFill(fill) ==
  /\ position' = AfterFill(position, fill)
  /\ tape' = [cash     |-> tape.cash - Signed(fill) * fill.price - fill.fee,
              rounding |-> tape.rounding
                             + IF SameDirection(position, fill)
                                 THEN Absolute(position.net_qty + Signed(fill)) ELSE 0]

-----------------------------------------------------------------------------
(* What the venue reports. *)

\* _mark_price: the middle of the book, its one side, or the fallback.
MarkPrice(book, fallback) ==
  CASE book.bids # <<>> /\ book.asks # <<>> ->
         Divided(book.bids[1].price + book.asks[1].price, 2)
    [] book.bids # <<>> /\ book.asks = <<>> -> book.bids[1].price
    [] book.bids = <<>> /\ book.asks # <<>> -> book.asks[1].price
    [] OTHER -> fallback

\* _unrealized_pnl
Unrealized(pos, book) ==
  LET mark == MarkPrice(book, pos.entry_price)
  IN  IF pos.net_qty > 0 THEN (mark - pos.entry_price) * pos.net_qty
                         ELSE (pos.entry_price - mark) * Absolute(pos.net_qty)

\* get_balance: realized PnL counts for a symbol that is flat too.
GetBalance ==
  InitialBalance + position.realized_pnl
    + IF position.net_qty = 0 THEN 0 ELSE Unrealized(position, latestBook)

\* _build_position: the side of the net quantity, and its size.
BuildPosition(pos) ==
  [side           |-> IF pos.net_qty > 0 THEN "LONG" ELSE "SHORT",
   quantity       |-> Absolute(pos.net_qty),
   entry_price    |-> pos.entry_price,
   mark_price     |-> MarkPrice(latestBook, pos.entry_price),
   unrealized_pnl |-> Unrealized(pos, latestBook),
   realized_pnl   |-> pos.realized_pnl]

\* get_positions: a flat symbol is left out.
GetPositions == IF position.net_qty = 0 THEN {} ELSE {BuildPosition(position)}

-----------------------------------------------------------------------------

AccountInit ==
  /\ position = [net_qty |-> 0, entry_price |-> 0, realized_pnl |-> 0]
  /\ latestBook = NoBook
  /\ tape = [cash |-> 0, rounding |-> 0]

\* Any fill and any book: what the engines and the feed make of them is in
\* PaperTrading.
AccountNext ==
  \/ \E fill \in Fill : TakeFill(fill) /\ UNCHANGED latestBook
  \/ \E book \in Snapshot : latestBook' = book /\ UNCHANGED accountVars

AccountSpec == AccountInit /\ [][AccountNext]_<<accountVars, latestBook>>

-----------------------------------------------------------------------------
(* Properties. *)

\* Every field holds a number, and the tape's count of rounded quantities is
\* never negative.
AccountTypeOK ==
  /\ position \in Position
  /\ latestBook \in Snapshot
  /\ tape \in [cash : Int, rounding : Nat]

\* What the reported holding is worth.
Worths ==
  IF GetPositions = {} THEN {0}
  ELSE {IF p.side = "LONG" THEN p.quantity * p.mark_price
                           ELSE -(p.quantity * p.mark_price) : p \in GetPositions}

\* No money appears or vanishes: through openings, additions, reductions,
\* closings and flips, long or short, the balance the venue reports is the
\* initial one, plus what the fills paid and brought in, plus what the position
\* it reports is worth, up to half a last digit per unit whose entry price was
\* averaged (_apply_fill, get_balance, get_positions).
MoneyConserved ==
  \A worth \in Worths :
    LET drift == GetBalance - (InitialBalance + tape.cash + worth)
    IN  2 * drift <= tape.rounding /\ -(2 * drift) <= tape.rounding

=============================================================================
