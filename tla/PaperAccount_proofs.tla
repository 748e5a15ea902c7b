------------------------ MODULE PaperAccount_proofs ------------------------
(***************************************************************************)
(* Proofs about PaperAccount, for any fills, any books and any initial     *)
(* balance.                                                                *)
(***************************************************************************)
EXTENDS PaperAccount, TLAPS

\* Dividing rounds by at most half of the divisor.
LEMMA DividedIsNear ==
  ASSUME NEW a \in Int, NEW n \in Nat \ {0}
  PROVE  /\ Divided(a, n) \in Int
         /\ 2 * (a - n * Divided(a, n)) <= n
         /\ 2 * (n * Divided(a, n) - a) <= n
<1> DEFINE q == a \div n
           r == a % n
<1>1. q \in Int /\ r \in Int /\ a = n * q + r /\ 0 <= r /\ r < n
  BY SMT
<1>2. CASE Divided(a, n) = q /\ 2 * r <= n
  BY <1>1, <1>2, SMT
<1>3. CASE Divided(a, n) = q + 1 /\ 2 * r >= n
  <2>1. n * (q + 1) = n * q + n
    BY <1>1, SMT
  <2> QED
    BY <1>1, <1>3, <2>1, SMT
<1> QED
  BY <1>1, <1>2, <1>3, SMT DEF Divided

-----------------------------------------------------------------------------
(* Type correctness. *)

\* The fields of well-typed values.
LEMMA Fields ==
  /\ \A pos \in Position : pos.net_qty \in Int /\ pos.entry_price \in Int /\ pos.realized_pnl \in Int
  /\ \A fill \in Fill : /\ fill.side \in {"BUY", "SELL"} /\ fill.price \in Nat
                        /\ fill.quantity \in Nat /\ fill.quantity > 0 /\ fill.fee \in Nat
                        /\ Signed(fill) \in Int /\ Signed(fill) # 0
                        /\ Absolute(Signed(fill)) = fill.quantity
BY DEF Position, Fill, Signed, Absolute

\* A fill in the position's direction makes it larger.
LEMMA AddingGrows ==
  ASSUME NEW pos \in Position, NEW fill \in Fill, SameDirection(pos, fill)
  PROVE  /\ Absolute(pos.net_qty + Signed(fill)) \in Nat \ {0}
         /\ Absolute(pos.net_qty) \in Nat
BY Fields DEF SameDirection, Absolute

\* The average entry price is a number.
LEMMA AddedTyped ==
  ASSUME NEW pos \in Position, NEW fill \in Fill, SameDirection(pos, fill)
  PROVE  Added(pos, fill) \in Position
<1> DEFINE a == Absolute(pos.net_qty) * pos.entry_price + fill.quantity * fill.price
           n == Absolute(pos.net_qty + Signed(fill))
<1>1. a \in Int /\ n \in Nat \ {0}
  BY Fields, AddingGrows
<1>2. Divided(a, n) \in Int
  BY <1>1, DividedIsNear
<1> QED
  BY Fields, <1>2 DEF Added, Position

\* _apply_fill returns a position, whichever of its three cases applies.
LEMMA AfterFillTyped ==
  ASSUME NEW pos \in Position, NEW fill \in Fill
  PROVE  AfterFill(pos, fill) \in Position
<1>1. Opened(pos, fill) \in Position
  BY Fields DEF Opened, Position
<1>2. Reduced(pos, fill) \in Position
  <2>1. Profit(pos, fill) \in Int
    BY Fields DEF Profit, Lesser, Absolute
  <2> QED
    BY Fields, <2>1 DEF Reduced, Position
<1> QED
  BY <1>1, <1>2, AddedTyped DEF AfterFill

\* The type invariant is kept by every fill and every book.
THEOREM AccountTypeCorrect == AccountSpec => []AccountTypeOK
<1>1. AccountInit => AccountTypeOK
  BY PaperAccountAssumption DEF AccountInit, AccountTypeOK, Position, Snapshot, Level, NoBook
<1>2. AccountTypeOK /\ [AccountNext]_<<accountVars, latestBook>> => AccountTypeOK'
  <2> SUFFICES ASSUME AccountTypeOK, [AccountNext]_<<accountVars, latestBook>>
               PROVE  AccountTypeOK'
    OBVIOUS
  <2>1. ASSUME NEW fill \in Fill, TakeFill(fill), UNCHANGED latestBook
        PROVE  AccountTypeOK'
    <3>1. position' \in Position
      BY <2>1, AfterFillTyped DEF TakeFill, AccountTypeOK
    <3>2. tape' \in [cash : Int, rounding : Nat]
      <4>1. tape.cash \in Int /\ tape.rounding \in Nat /\ position \in Position
        BY DEF AccountTypeOK
      <4>2. SameDirection(position, fill) => Absolute(position.net_qty + Signed(fill)) \in Nat
        BY <2>1, <4>1, AddingGrows
      <4> QED
        BY <2>1, <4>1, <4>2, Fields DEF TakeFill
    <3> QED
      BY <2>1, <3>1, <3>2 DEF AccountTypeOK
  <2>2. ASSUME NEW b \in Snapshot, latestBook' = b, UNCHANGED accountVars
        PROVE  AccountTypeOK'
    BY <2>2 DEF AccountTypeOK, accountVars
  <2>3. ASSUME UNCHANGED <<accountVars, latestBook>> PROVE AccountTypeOK'
    BY <2>3 DEF AccountTypeOK, accountVars
  <2> QED
    BY <2>1, <2>2, <2>3 DEF AccountNext
<1> QED
  BY <1>1, <1>2, PTL DEF AccountSpec

-----------------------------------------------------------------------------
(* No money appears or vanishes. *)

\* By how much the position's realized PnL differs from what the fills brought
\* in and the holding cost at its entry price.
Gap(pos, tp) == pos.realized_pnl - pos.net_qty * pos.entry_price - tp.cash

\* Every unit averaged since the beginning accounts for half a last digit.
BooksBalance ==
  /\ 2 * Gap(position, tape) <= tape.rounding
  /\ -(2 * Gap(position, tape)) <= tape.rounding

\* The four ways of reducing, in numbers: n is the net quantity, c the cash.
LEMMA ReducingSums ==
  ASSUME NEW n \in Int, NEW e \in Int, NEW r \in Int, NEW c \in Int,
         NEW q \in Int, NEW p \in Int, NEW fee \in Int
  PROVE  /\ (r + (p - e) * q - fee) - (n - q) * e - (c - (-q) * p - fee) = r - n * e - c
         /\ (r + (p - e) * n - fee) - (n - q) * p - (c - (-q) * p - fee) = r - n * e - c
         /\ (r + (e - p) * q - fee) - (n + q) * e - (c - q * p - fee) = r - n * e - c
         /\ (r + (e - p) * (-n) - fee) - (n + q) * p - (c - q * p - fee) = r - n * e - c
         /\ (r - fee) - q * p - (c - q * p - fee) = r - c
BY SMT

\* Opening, reducing, closing and flipping are exact.
LEMMA ExactFills ==
  ASSUME NEW pos \in Position, NEW fill \in Fill, NEW tp, tp.cash \in Int,
         NEW new, new.cash = tp.cash - Signed(fill) * fill.price - fill.fee,
         ~SameDirection(pos, fill)
  PROVE  Gap(AfterFill(pos, fill), new) = Gap(pos, tp)
<1> DEFINE net == pos.net_qty
           e == pos.entry_price
           r == pos.realized_pnl
           q == fill.quantity
           p == fill.price
           fee == fill.fee
           c == tp.cash
           after == AfterFill(pos, fill)
<1>1. net \in Int /\ e \in Int /\ r \in Int /\ q \in Nat /\ q > 0 /\ p \in Nat /\ fee \in Nat /\ c \in Int
  BY Fields
<1>2. Gap(pos, tp) = r - net * e - c
  BY DEF Gap
<1>3. Gap(after, new) = after.realized_pnl - after.net_qty * after.entry_price - (c - Signed(fill) * p - fee)
  BY DEF Gap
<1>4. /\ net = 0 => after = [net_qty |-> Signed(fill), entry_price |-> p, realized_pnl |-> r - fee]
      /\ net # 0 => after = [net_qty |-> net + Signed(fill),
                             entry_price |-> IF q > Absolute(net) THEN p ELSE e,
                             realized_pnl |-> r + Profit(pos, fill) - fee]
  BY DEF AfterFill, Opened, Reduced
<1>5. Profit(pos, fill) = IF net > 0 THEN (p - e) * Lesser(Absolute(net), q)
                                     ELSE (e - p) * Lesser(Absolute(net), q)
  BY DEF Profit
<1>6. Signed(fill) \in {q, -q}
  BY DEF Signed
<1>7. net > 0 => Signed(fill) = -q
  BY <1>1, <1>6 DEF SameDirection
<1>8. net < 0 => Signed(fill) = q
  BY <1>1, <1>6 DEF SameDirection
<1> DEFINE s == Signed(fill)
<1> HIDE DEF net, e, r, q, p, fee, c, after, s
<1>9. CASE net = 0
  <2>1. after.net_qty = s /\ after.entry_price = p /\ after.realized_pnl = r - fee
    BY <1>4, <1>9 DEF s
  <2>2. s \in Int
    BY <1>1, <1>6 DEF s
  <2>3. Gap(after, new) = (r - fee) - s * p - (c - s * p - fee)
    BY <1>3, <2>1 DEF s
  <2>4. Gap(after, new) = r - c
    BY <1>1, <2>2, <2>3, ReducingSums
  <2>5. net * e = 0
    BY <1>1, <1>9
  <2> QED
    BY <1>1, <1>2, <2>4, <2>5 DEF after
<1>10. CASE net > 0
  <2>1. after.net_qty = net - q /\ Absolute(net) = net /\ s = -q
    BY <1>1, <1>4, <1>7, <1>10 DEF s, Absolute
  <2>2. CASE q > net
    <3>1. after.entry_price = p /\ after.realized_pnl = r + (p - e) * net - fee
      BY <1>1, <1>4, <1>5, <1>10, <2>1, <2>2 DEF Lesser
    <3>2. Gap(after, new) = (r + (p - e) * net - fee) - (net - q) * p - (c - (-q) * p - fee)
      BY <1>3, <2>1, <3>1 DEF s
    <3> QED
      BY <1>1, <1>2, <3>2, ReducingSums DEF after
  <2>3. CASE ~(q > net)
    <3>1. after.entry_price = e /\ Lesser(Absolute(net), q) = q
      BY <1>1, <1>4, <1>10, <2>1, <2>3 DEF Lesser
    <3>2. after.realized_pnl = r + (p - e) * q - fee
      BY <1>4, <1>5, <1>10, <3>1, <1>1
    <3>3. Gap(after, new) = (r + (p - e) * q - fee) - (net - q) * e - (c - (-q) * p - fee)
      BY <1>3, <2>1, <3>1, <3>2 DEF s
    <3> QED
      BY <1>1, <1>2, <3>3, ReducingSums DEF after
  <2> QED
    BY <2>2, <2>3
<1>11. CASE net < 0
  <2>1. after.net_qty = net + q /\ Absolute(net) = -net /\ s = q
    BY <1>1, <1>4, <1>8, <1>11 DEF s, Absolute
  <2>2. CASE q > -net
    <3>1. after.entry_price = p /\ after.realized_pnl = r + (e - p) * (-net) - fee
      BY <1>1, <1>4, <1>5, <1>11, <2>1, <2>2 DEF Lesser
    <3>2. Gap(after, new) = (r + (e - p) * (-net) - fee) - (net + q) * p - (c - q * p - fee)
      BY <1>3, <2>1, <3>1 DEF s
    <3> QED
      BY <1>1, <1>2, <3>2, ReducingSums DEF after
  <2>3. CASE ~(q > -net)
    <3>1. after.entry_price = e /\ Lesser(Absolute(net), q) = q
      BY <1>1, <1>4, <1>11, <2>1, <2>3 DEF Lesser
    <3>2. after.realized_pnl = r + (e - p) * q - fee
      BY <1>4, <1>5, <1>11, <3>1, <1>1
    <3>3. Gap(after, new) = (r + (e - p) * q - fee) - (net + q) * e - (c - q * p - fee)
      BY <1>3, <2>1, <3>1, <3>2 DEF s
    <3> QED
      BY <1>1, <1>2, <3>3, ReducingSums DEF after
  <2> QED
    BY <2>2, <2>3
<1> QED
  BY <1>1, <1>9, <1>10, <1>11

\* Adding in numbers: m is the larger quantity, d the new entry price.
LEMMA AddingSums ==
  ASSUME NEW n \in Int, NEW e \in Int, NEW r \in Int, NEW c \in Int, NEW q \in Int,
         NEW p \in Int, NEW fee \in Int, NEW d \in Int
  PROVE  /\ ((r - fee) - (n + q) * d - (c - q * p - fee)) - (r - n * e - c)
              = (n * e + q * p) - (n + q) * d
         /\ ((r - fee) - (n + (-q)) * d - (c - (-q) * p - fee)) - (r - n * e - c)
              = (-n + q) * d - ((-n) * e + q * p)
BY SMT

\* Adding is exact up to the rounding of the average.
LEMMA AddedFills ==
  ASSUME NEW pos \in Position, NEW fill \in Fill, NEW tp, tp.cash \in Int,
         NEW new, new.cash = tp.cash - Signed(fill) * fill.price - fill.fee,
         SameDirection(pos, fill)
  PROVE  /\ 2 * (Gap(AfterFill(pos, fill), new) - Gap(pos, tp))
              <= Absolute(pos.net_qty + Signed(fill))
         /\ 2 * (Gap(pos, tp) - Gap(AfterFill(pos, fill), new))
              <= Absolute(pos.net_qty + Signed(fill))
<1> DEFINE net == pos.net_qty
           e == pos.entry_price
           r == pos.realized_pnl
           q == fill.quantity
           p == fill.price
           fee == fill.fee
           c == tp.cash
           s == Signed(fill)
           m == Absolute(net + s)
           a == Absolute(net) * e + q * p
           d == Divided(a, m)
           after == AfterFill(pos, fill)
<1>1. net \in Int /\ e \in Int /\ r \in Int /\ q \in Nat /\ q > 0 /\ p \in Nat /\ fee \in Nat /\ c \in Int
  BY Fields
<1>2. m \in Nat \ {0} /\ Absolute(net) \in Nat
  BY AddingGrows
<1>3. a \in Int
  BY <1>1, <1>2
<1>4. d \in Int /\ 2 * (a - m * d) <= m /\ 2 * (m * d - a) <= m
  <2> HIDE DEF a, m
  <2> QED BY <1>2, <1>3, DividedIsNear
<1>5. after = [net_qty |-> net + s, entry_price |-> d, realized_pnl |-> r - fee]
  BY <1>1 DEF AfterFill, Added, SameDirection
<1>6. Gap(pos, tp) = r - net * e - c
  BY DEF Gap
<1>7. Gap(after, new) = (r - fee) - (net + s) * d - (c - s * p - fee)
  <2> HIDE DEF d, after, s
  <2>1. after.net_qty = net + s /\ after.entry_price = d /\ after.realized_pnl = r - fee
    BY <1>5
  <2>2. new.cash = c - s * p - fee
    BY DEF s
  <2>3. Gap(after, new) = after.realized_pnl - after.net_qty * after.entry_price - new.cash
    BY DEF Gap
  <2> QED BY <2>1, <2>2, <2>3
<1>8. s \in {q, -q}
  BY DEF Signed
<1>9. (net > 0 /\ s = q) \/ (net < 0 /\ s = -q)
  BY <1>1, <1>8 DEF SameDirection
<1>10. net > 0 /\ s = q => Absolute(net) = net /\ m = net + q
  <2> HIDE DEF net, q, s
  <2> QED BY <1>1 DEF Absolute
<1>11. net < 0 /\ s = -q => Absolute(net) = -net /\ m = -net + q
  <2> HIDE DEF net, q, s
  <2> QED BY <1>1 DEF Absolute
<1> HIDE DEF net, e, r, q, p, fee, c, s, m, d, after
<1>12. CASE net > 0 /\ s = q
  <2>1. Gap(after, new) - Gap(pos, tp) = (net * e + q * p) - (net + q) * d
    BY <1>1, <1>4, <1>6, <1>7, <1>12, AddingSums
  <2>2. Gap(after, new) - Gap(pos, tp) = a - m * d
    BY <2>1, <1>10, <1>12
  <2>3. Gap(pos, tp) \in Int /\ Gap(after, new) \in Int /\ m * d \in Int
    BY <1>1, <1>2, <1>4, <1>6, <1>7, <1>12
  <2> QED
    BY <1>2, <1>3, <1>4, <2>2, <2>3 DEF after, m, net, s
<1>13. CASE net < 0 /\ s = -q
  <2>1. Gap(after, new) - Gap(pos, tp) = (-net + q) * d - ((-net) * e + q * p)
    BY <1>1, <1>4, <1>6, <1>7, <1>13, AddingSums
  <2>2. Gap(after, new) - Gap(pos, tp) = m * d - a
    BY <2>1, <1>11, <1>13
  <2>3. Gap(pos, tp) \in Int /\ Gap(after, new) \in Int /\ m * d \in Int
    BY <1>1, <1>2, <1>4, <1>6, <1>7, <1>13
  <2> QED
    BY <1>2, <1>3, <1>4, <2>2, <2>3 DEF after, m, net, s
<1> QED
  BY <1>9, <1>12, <1>13

-----------------------------------------------------------------------------

\* The middle of a book, or one side of it, is a number.
LEMMA MarkTyped ==
  ASSUME NEW b \in Snapshot, NEW fallback \in Int
  PROVE  MarkPrice(b, fallback) \in Int
<1>1. b.bids \in Seq(Level) /\ b.asks \in Seq(Level)
  BY DEF Snapshot
<1>2. \A side \in Seq(Level) : side # <<>> => side[1].price \in Nat
  <2> HIDE DEF Level
  <2>1. ASSUME NEW side \in Seq(Level), side # <<>> PROVE side[1] \in Level
    <3>1. Len(side) \in Nat /\ Len(side) # 0
      BY <2>1
    <3>2. \A i \in 1 .. Len(side) : side[i] \in Level
      BY <2>1
    <3> QED BY <3>1, <3>2
  <2> QED BY <2>1 DEF Level
<1>3. /\ b.bids # <<>> => b.bids[1].price \in Nat
      /\ b.asks # <<>> => b.asks[1].price \in Nat
  BY <1>1, <1>2
<1>4. CASE b.bids # <<>> /\ b.asks # <<>>
  <2>1. b.bids[1].price + b.asks[1].price \in Int
    BY <1>3, <1>4
  <2>2. Divided(b.bids[1].price + b.asks[1].price, 2) \in Int
    BY <2>1, DividedIsNear
  <2> QED
    BY <1>4, <2>2 DEF MarkPrice
<1> QED
  BY <1>3, <1>4 DEF MarkPrice

\* The balance is what the tape and the reported holding say, up to Gap.
LEMMA DriftIsGap ==
  ASSUME AccountTypeOK, NEW worth \in Worths
  PROVE  GetBalance - (InitialBalance + tape.cash + worth) = Gap(position, tape)
<1> DEFINE net == position.net_qty
           e == position.entry_price
           r == position.realized_pnl
           mark == MarkPrice(latestBook, e)
<1>1. net \in Int /\ e \in Int /\ r \in Int /\ tape.cash \in Int /\ InitialBalance \in Int
  BY PaperAccountAssumption DEF AccountTypeOK, Position
<1>2. mark \in Int
  BY <1>1, MarkTyped DEF AccountTypeOK
<1>3. Gap(position, tape) = r - net * e - tape.cash
  BY DEF Gap
<1>4. Unrealized(position, latestBook) = IF net > 0 THEN (mark - e) * net ELSE (e - mark) * Absolute(net)
  BY DEF Unrealized
<1>5. CASE net = 0
  <2>1. GetBalance = InitialBalance + r + 0 /\ worth = 0
    BY <1>5 DEF GetBalance, Worths, GetPositions
  <2>2. net * e = 0
    BY <1>1, <1>5
  <2> QED
    BY <1>1, <1>3, <2>1, <2>2
<1>6. CASE net # 0
  <2> DEFINE held == [side           |-> IF net > 0 THEN "LONG" ELSE "SHORT",
                      quantity       |-> Absolute(net),
                      entry_price    |-> e,
                      mark_price     |-> mark,
                      unrealized_pnl |-> Unrealized(position, latestBook),
                      realized_pnl   |-> r]
  <2>1. GetPositions = {held}
    BY <1>6 DEF GetPositions, BuildPosition
  <2>2. worth = IF held.side = "LONG" THEN held.quantity * held.mark_price
                                      ELSE -(held.quantity * held.mark_price)
    <3> HIDE DEF held
    <3> QED BY <2>1 DEF Worths
  <2>3. worth = IF net > 0 THEN Absolute(net) * mark ELSE -(Absolute(net) * mark)
    BY <2>2
  <2>4. GetBalance = InitialBalance + r + Unrealized(position, latestBook)
    BY <1>6 DEF GetBalance
  <2> HIDE DEF mark, net, e, r
  <2>5. CASE net > 0
    <3>1. worth = net * mark /\ GetBalance = InitialBalance + r + (mark - e) * net
      BY <1>1, <1>4, <2>3, <2>4, <2>5 DEF Absolute
    <3> QED
      BY <1>1, <1>2, <1>3, <3>1
  <2>6. CASE net < 0
    <3>1. worth = -((-net) * mark) /\ GetBalance = InitialBalance + r + (e - mark) * (-net)
      BY <1>1, <1>4, <2>3, <2>4, <2>6 DEF Absolute
    <3> QED
      BY <1>1, <1>2, <1>3, <3>1
  <2> QED
    BY <1>1, <1>6, <2>5, <2>6
<1> QED
  BY <1>5, <1>6

\* A fill keeps the books balanced.
LEMMA FillKeepsBooks ==
  ASSUME AccountTypeOK, BooksBalance, NEW fill \in Fill, TakeFill(fill), AccountTypeOK'
  PROVE  BooksBalance'
<1> DEFINE before == Gap(position, tape)
           after == Gap(position', tape')
<1>1. position \in Position /\ tape.cash \in Int /\ tape.rounding \in Nat
  BY DEF AccountTypeOK
<1>2. /\ position' = AfterFill(position, fill)
      /\ tape'.cash = tape.cash - Signed(fill) * fill.price - fill.fee
      /\ tape'.rounding = tape.rounding
           + IF SameDirection(position, fill) THEN Absolute(position.net_qty + Signed(fill)) ELSE 0
  BY DEF TakeFill
<1>3. before \in Int
  BY <1>1 DEF Gap, Position
<1>4. after \in Int
  BY DEF Gap, Position, AccountTypeOK
<1>5. 2 * before <= tape.rounding /\ -(2 * before) <= tape.rounding
  BY DEF BooksBalance
<1>6. CASE ~SameDirection(position, fill)
  <2>1. after = before
    BY <1>1, <1>2, <1>6, ExactFills
  <2>2. tape'.rounding = tape.rounding
    BY <1>1, <1>2, <1>6
  <2> QED
    BY <1>5, <2>1, <2>2 DEF BooksBalance
<1>7. CASE SameDirection(position, fill)
  <2> DEFINE m == Absolute(position.net_qty + Signed(fill))
  <2>1. 2 * (after - before) <= m /\ 2 * (before - after) <= m
    BY <1>1, <1>2, <1>7, AddedFills
  <2>2. m \in Nat /\ tape'.rounding = tape.rounding + m
    BY <1>1, <1>2, <1>7, AddingGrows
  <2>3. 2 * after <= tape'.rounding /\ -(2 * after) <= tape'.rounding
    <3> HIDE DEF before, after, m
    <3> QED BY <1>1, <1>3, <1>4, <1>5, <2>1, <2>2
  <2> QED
    BY <2>3 DEF BooksBalance
<1> QED
  BY <1>6, <1>7

\* Through any fills and books, the balance PaperVenue reports is the initial
\* one, plus what the fills paid and brought in, plus the worth of the position
\* it reports, up to the rounding of averaged entry prices.
THEOREM MoneyIsConserved == AccountSpec => []MoneyConserved
<1>1. AccountInit => BooksBalance
  BY DEF AccountInit, BooksBalance, Gap
<1>2. AccountTypeOK /\ AccountTypeOK' /\ BooksBalance /\ [AccountNext]_<<accountVars, latestBook>>
        => BooksBalance'
  <2>1. AccountTypeOK /\ AccountTypeOK' /\ BooksBalance /\ UNCHANGED accountVars => BooksBalance'
    BY DEF BooksBalance, accountVars
  <2> QED
    BY <2>1, FillKeepsBooks DEF AccountNext, accountVars
<1>3. AccountTypeOK /\ BooksBalance => MoneyConserved
  <2> SUFFICES ASSUME AccountTypeOK, BooksBalance, NEW worth \in Worths
               PROVE  LET drift == GetBalance - (InitialBalance + tape.cash + worth)
                      IN  2 * drift <= tape.rounding /\ -(2 * drift) <= tape.rounding
    BY DEF MoneyConserved
  <2> QED
    BY DriftIsGap DEF BooksBalance
<1> QED
  BY <1>1, <1>2, <1>3, AccountTypeCorrect, PTL DEF AccountSpec

=============================================================================
