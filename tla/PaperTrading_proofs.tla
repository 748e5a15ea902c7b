------------------------- MODULE PaperTrading_proofs -------------------------
(***************************************************************************)
(* Proofs about PaperTrading, for any books, moves, intents and bounds:    *)
(* the book the receiver thread keeps is the exchange's, the venue is at   *)
(* most one book behind the strategy, a market order gets the best its     *)
(* book has, and the engines' fills conserve money.                        *)
(***************************************************************************)
EXTENDS PaperTrading, PaperAccount_proofs, FiniteSetTheorems, WellFoundedInduction, TLAPS

\* What the receiver thread and the exchange see.
streamVars == <<exchange, wire, phase, book, gap>>

LEMMA StepsOfTheStream ==
  ASSUME [Next]_vars
  PROVE  \/ \E m \in Moves : Move(m)
         \/ Reconnect \/ Receive \/ StartFeed \/ StopFeed \/ Exit
         \/ UNCHANGED streamVars
<1>1. CASE Loop
  BY <1>1 DEF Loop, StrategySubmits, StrategyWaits, VenueTicks, FillNext, Called, streamVars
<1>2. CASE UNCHANGED vars
  BY <1>2 DEF vars, feedVars, streamVars
<1> QED BY <1>1, <1>2 DEF Next, Outside, Start, Stop, LoopEnds

-----------------------------------------------------------------------------
(* Sides of a book, and what a message changes in them. *)

EmptySide == <<>>

LEMMA EmptyIsASide == IsSide(EmptySide) /\ DOMAIN EmptySide = {}
<1>1. DOMAIN EmptySide = {}
  BY DEF EmptySide
<1>2. EmptySide = [p \in DOMAIN EmptySide |-> EmptySide[p]]
  BY DEF EmptySide
<1> QED BY <1>1, <1>2, FS_EmptySet DEF IsSide

\* What a message may say of a side: new sizes, 0 for a level that is gone.
IsChange(changes) ==
  /\ DOMAIN changes \subseteq Nat /\ IsFiniteSet(DOMAIN changes)
  /\ \A p \in DOMAIN changes : changes[p] \in Size

LEMMA ApplyKeepsSide ==
  ASSUME NEW side, IsSide(side), NEW changes, IsChange(changes)
  PROVE  IsSide(ApplySide(side, changes))
<1> DEFINE size(p) == IF p \in DOMAIN changes THEN changes[p] ELSE side[p]
           all == DOMAIN side \cup DOMAIN changes
           left == {p \in all : size(p) > 0}
<1>1. all \subseteq Nat /\ IsFiniteSet(all)
  BY FS_Union DEF IsSide, IsChange
<1>2. left \subseteq Nat /\ IsFiniteSet(left)
  BY <1>1, FS_Subset
<1>3. \A p \in left : size(p) \in Size \ {0}
  BY DEF IsSide, IsChange, Size
<1>4. ApplySide(side, changes) = [p \in left |-> size(p)]
  BY DEF ApplySide
<1> HIDE DEF left, size
<1> QED BY <1>2, <1>3, <1>4 DEF IsSide

LEMMA ApplyNothing ==
  ASSUME NEW side, IsSide(side)
  PROVE  ApplySide(side, EmptySide) = side
<1>1. ApplySide(side, EmptySide) = [p \in {p \in DOMAIN side : side[p] > 0} |-> side[p]]
  BY EmptyIsASide DEF ApplySide
<1>2. {p \in DOMAIN side : side[p] > 0} = DOMAIN side
  BY DEF IsSide, Size
<1> QED BY <1>1, <1>2 DEF IsSide

\* What a whole side changes in a book just cleared is everything.
LEMMA ApplyToNothing ==
  ASSUME NEW side, IsSide(side)
  PROVE  ApplySide(EmptySide, side) = side
<1>1. ApplySide(EmptySide, side) = [p \in {p \in DOMAIN side : side[p] > 0} |-> side[p]]
  <2>1. DOMAIN EmptySide \cup DOMAIN side = DOMAIN side
    BY EmptyIsASide
  <2> QED BY <2>1 DEF ApplySide
<1>2. {p \in DOMAIN side : side[p] > 0} = DOMAIN side
  BY DEF IsSide, Size
<1> QED BY <1>1, <1>2 DEF IsSide

\* The exchange's change of a level is what the receiver makes of its message.
LEMMA ApplyOneLevel ==
  ASSUME NEW side, IsSide(side), NEW price \in Nat, NEW size \in Size
  PROVE  /\ ApplySide(side, [p \in {price} |-> size]) = Moved(side, price, size)
         /\ IsChange([p \in {price} |-> size])
         /\ IsSide(Moved(side, price, size))
<1> DEFINE after(p) == IF p = price THEN size ELSE side[p]
           left == (DOMAIN side \cup {price}) \ (IF size = 0 THEN {price} ELSE {})
<1>1. Moved(side, price, size) = [p \in left |-> after(p)]
  BY DEF Moved
<1>2. ApplySide(side, [p \in {price} |-> size])
        = [p \in {p \in DOMAIN side \cup {price} : after(p) > 0} |-> after(p)]
  BY DEF ApplySide
<1>3. \A p \in DOMAIN side \cup {price} : after(p) \in Nat /\ (p # price => after(p) > 0)
  BY DEF IsSide, Size
<1>4. {p \in DOMAIN side \cup {price} : after(p) > 0} = left
  BY <1>3 DEF Size
<1>5. IsChange([p \in {price} |-> size])
  BY FS_Singleton DEF IsChange
<1> HIDE DEF after, left
<1>6. ApplySide(side, [p \in {price} |-> size]) = Moved(side, price, size)
  BY <1>1, <1>2, <1>4
<1>7. IsSide(ApplySide(side, [p \in {price} |-> size]))
  BY <1>5, ApplyKeepsSide
<1> QED BY <1>5, <1>6, <1>7

-----------------------------------------------------------------------------
(* The stream. *)

\* A sequence of whatever.
IsSequence(s) == \E S : s \in Seq(S)

IsBook(b) == b = Sides(b) /\ IsSide(b.bids) /\ IsSide(b.asks)

\* A message knows the book the exchange had, and a snapshot message is it.
Tells(msg) ==
  /\ msg.type \in {"snapshot", "delta"} /\ msg.u \in Nat /\ IsBook(msg.truth)
  /\ msg.type = "snapshot" => msg.bids = msg.truth.bids /\ msg.asks = msg.truth.asks

\* A delta that comes just after a message tells what changed in between.
Follows(u, truth, msg) ==
  msg.type = "delta" /\ msg.u = u + 1 =>
    /\ msg.truth.bids = ApplySide(truth.bids, msg.bids)
    /\ msg.truth.asks = ApplySide(truth.asks, msg.asks)

\* The last update that was sent, and the book it was sent of.
LastU == IF wire = <<>> THEN book.lastUpdateId ELSE wire[Len(wire)].u
LastTruth == IF wire = <<>> THEN book.truth ELSE wire[Len(wire)].truth

IsExchange(e) ==
  /\ e = [bids |-> e.bids, asks |-> e.asks, u |-> e.u]
  /\ IsSide(e.bids) /\ IsSide(e.asks) /\ e.u \in Nat

WireFollows ==
  /\ \A i \in DOMAIN wire : Tells(wire[i])
  /\ \A i \in DOMAIN wire : i > 1 => Follows(wire[i - 1].u, wire[i - 1].truth, wire[i])
  /\ wire # <<>> => Follows(book.lastUpdateId, book.truth, wire[1])

StreamInv ==
  /\ IsExchange(exchange)
  /\ IsSequence(wire)
  /\ book.lastUpdateId \in Nat /\ IsBook(book.truth)
  /\ WireFollows
  /\ phase = "streaming" => /\ LastU <= exchange.u
                            /\ LastU = exchange.u => LastTruth = Sides(exchange)
  /\ phase # "streaming" => wire = <<>>
  /\ BookExactUnlessGap

LEMMA AppendedSequence ==
  ASSUME NEW s, NEW e, IsSequence(s)
  PROVE  /\ IsSequence(Append(s, e)) /\ Len(s) \in Nat /\ Len(Append(s, e)) = Len(s) + 1
         /\ DOMAIN s = 1 .. Len(s)
         /\ DOMAIN Append(s, e) = 1 .. Len(s) + 1
         /\ \A i \in 1 .. Len(s) : Append(s, e)[i] = s[i]
         /\ Append(s, e)[Len(s) + 1] = e
         /\ Append(s, e) # <<>>
<1>1. PICK S : s \in Seq(S)
  BY DEF IsSequence
<1>2. s \in Seq(S \cup {e})
  BY <1>1
<1>3. Append(s, e) \in Seq(S \cup {e}) /\ Len(Append(s, e)) = Len(s) + 1
  BY <1>2
<1>4. Append(s, e) # <<>>
  <2>1. Len(<<>>) = 0 /\ Len(s) \in Nat
    BY <1>2
  <2> QED BY <1>3, <2>1
<1> QED BY <1>2, <1>3, <1>4 DEF IsSequence

LEMMA TailSequence ==
  ASSUME NEW s, IsSequence(s), s # <<>>
  PROVE  /\ IsSequence(Tail(s)) /\ Len(s) \in Nat \ {0} /\ Len(Tail(s)) = Len(s) - 1
         /\ DOMAIN s = 1 .. Len(s) /\ DOMAIN Tail(s) = 1 .. Len(s) - 1
         /\ Head(s) = s[1] /\ \A i \in 1 .. Len(s) - 1 : Tail(s)[i] = s[i + 1]
         /\ Tail(s) = <<>> <=> Len(s) = 1
<1>1. PICK S : s \in Seq(S)
  BY DEF IsSequence
<1>2. Tail(s) \in Seq(S) /\ Len(Tail(s)) = Len(s) - 1 /\ Len(s) \in Nat \ {0}
  BY <1>1
<1>3. Tail(s) = <<>> <=> Len(s) = 1
  BY <1>1, <1>2
<1> QED BY <1>1, <1>2, <1>3 DEF IsSequence

LEMMA OneMessage ==
  ASSUME NEW e
  PROVE  /\ IsSequence(<<e>>) /\ Len(<<e>>) = 1 /\ DOMAIN <<e>> = {1} /\ <<e>>[1] = e
         /\ <<e>> # <<>>
<1>1. <<e>> \in Seq({e}) /\ Len(<<e>>) = 1 /\ <<e>>[1] = e
  OBVIOUS
<1>2. <<e>> # <<>>
  BY <1>1
<1> HIDE DEF IsSequence
<1>3. IsSequence(<<e>>)
  BY <1>1 DEF IsSequence
<1>4. DOMAIN <<e>> = 1 .. 1
  BY <1>1
<1> QED BY <1>1, <1>2, <1>3, <1>4

LEMMA AppendSecond ==
  ASSUME NEW a, NEW b
  PROVE  Append(<<a>>, b) = <<a, b>>
<1>1. <<a>> \in Seq({a, b}) /\ Len(<<a>>) = 1 /\ <<a>>[1] = a
  OBVIOUS
<1>2. Append(<<a>>, b) = [i \in 1 .. Len(<<a>>) + 1 |-> IF i <= Len(<<a>>) THEN <<a>>[i] ELSE b]
  BY <1>1
<1>3. Append(<<a>>, b) = [i \in 1 .. 2 |-> IF i <= 1 THEN a ELSE b]
  BY <1>1, <1>2
<1>4. <<a, b>> = [i \in 1 .. 2 |-> IF i <= 1 THEN a ELSE b]
  OBVIOUS
<1> QED BY <1>3, <1>4

LEMMA SnapshotTells ==
  ASSUME IsExchange(exchange)
  PROVE  Tells(SnapshotMessage) /\ \A u, truth : Follows(u, truth, SnapshotMessage)
BY DEF IsExchange, Tells, SnapshotMessage, Follows, IsBook, Sides

LEMMA ReconnectKeepsStream == StreamInv /\ Reconnect => StreamInv'
<1> SUFFICES ASSUME StreamInv, wire' = <<SnapshotMessage>>, phase = "streaming",
                    UNCHANGED <<exchange, book, gap, phase>>
             PROVE  StreamInv'
  BY DEF Reconnect
<1>1. IsExchange(exchange) /\ Tells(SnapshotMessage) /\ \A u, truth : Follows(u, truth, SnapshotMessage)
  BY SnapshotTells DEF StreamInv
<1>2. /\ IsSequence(wire') /\ Len(wire') = 1 /\ DOMAIN wire' = {1} /\ wire'[1] = SnapshotMessage
      /\ wire' # <<>>
  BY OneMessage
<1>3. WireFollows'
  BY <1>1, <1>2 DEF WireFollows
<1>4. LastU' = exchange.u /\ LastTruth' = Sides(exchange)
  BY <1>2 DEF LastU, LastTruth, SnapshotMessage
<1>5. BookExactUnlessGap'
  BY DEF StreamInv, BookExactUnlessGap, Sides
<1> QED BY <1>1, <1>2, <1>3, <1>4, <1>5 DEF StreamInv, IsExchange, Sides

LEMMA StartKeepsStream == StreamInv /\ StartFeed => StreamInv'
<1> SUFFICES ASSUME StreamInv, wire' = <<SnapshotMessage>>, phase' = "streaming",
                    UNCHANGED <<exchange, book, gap>>
             PROVE  StreamInv'
  BY DEF StartFeed
<1>1. IsExchange(exchange) /\ Tells(SnapshotMessage) /\ \A u, truth : Follows(u, truth, SnapshotMessage)
  BY SnapshotTells DEF StreamInv
<1>2. /\ IsSequence(wire') /\ Len(wire') = 1 /\ DOMAIN wire' = {1} /\ wire'[1] = SnapshotMessage
      /\ wire' # <<>>
  BY OneMessage
<1>3. WireFollows'
  BY <1>1, <1>2 DEF WireFollows
<1>4. LastU' = exchange.u /\ LastTruth' = Sides(exchange)
  BY <1>2 DEF LastU, LastTruth, SnapshotMessage
<1>5. BookExactUnlessGap'
  BY DEF StreamInv, BookExactUnlessGap, Sides
<1> QED BY <1>1, <1>2, <1>3, <1>4, <1>5 DEF StreamInv, IsExchange, Sides

LEMMA StopKeepsStream == StreamInv /\ (StopFeed \/ Exit \/ UNCHANGED streamVars) => StreamInv'
<1>1. ASSUME StreamInv, UNCHANGED <<exchange, book, gap>>, wire' = <<>>, phase' # "streaming"
      PROVE  StreamInv'
  <2>1. IsSequence(<<>>) /\ DOMAIN <<>> = {}
    <3>1. <<>> \in Seq({}) /\ DOMAIN <<>> = {}
      OBVIOUS
    <3> QED BY <3>1 DEF IsSequence
  <2>2. WireFollows'
    BY <1>1, <2>1 DEF WireFollows
  <2> QED BY <1>1, <2>1, <2>2 DEF StreamInv, BookExactUnlessGap, IsExchange, Sides
<1>2. ASSUME StreamInv, UNCHANGED streamVars
      PROVE  StreamInv'
  BY <1>2 DEF StreamInv, streamVars, BookExactUnlessGap, IsExchange, Sides, WireFollows, LastU, LastTruth
<1>3. StreamInv /\ StopFeed => StreamInv'
  BY <1>1 DEF StopFeed
<1>4. StreamInv /\ Exit => StreamInv'
  BY <1>1 DEF Exit, StreamInv
<1> QED BY <1>2, <1>3, <1>4

\* The book after a message: the message's own if it is a snapshot message or
\* comes next on a book that was exact.
LEMMA ReceiveKeepsStream == StreamInv /\ Receive => StreamInv'
<1> SUFFICES ASSUME StreamInv, Receive PROVE StreamInv'
  OBVIOUS
<1> DEFINE msg == Head(wire)
<1>1. /\ wire # <<>> /\ phase = "streaming" /\ book' = Apply(msg)
      /\ gap' = (msg.type = "delta" /\ (gap \/ msg.u # book.lastUpdateId + 1))
      /\ wire' = Tail(wire) /\ UNCHANGED <<exchange, phase>>
  BY DEF Receive
<1>2. /\ IsSequence(wire') /\ Len(wire) \in Nat \ {0} /\ Len(wire') = Len(wire) - 1
      /\ DOMAIN wire = 1 .. Len(wire) /\ DOMAIN wire' = 1 .. Len(wire) - 1
      /\ msg = wire[1] /\ \A i \in 1 .. Len(wire) - 1 : wire'[i] = wire[i + 1]
      /\ wire' = <<>> <=> Len(wire) = 1
  BY <1>1, TailSequence DEF StreamInv
<1>3. /\ Tells(msg) /\ Follows(book.lastUpdateId, book.truth, msg)
      /\ \A i \in DOMAIN wire : Tells(wire[i])
  BY <1>1, <1>2 DEF StreamInv, WireFollows
<1> DEFINE FollowsAt(i) == i > 1 => Follows(wire[i - 1].u, wire[i - 1].truth, wire[i])
<1>0. \A i \in DOMAIN wire : FollowsAt(i)
  BY DEF StreamInv, WireFollows
<1> HIDE DEF FollowsAt
<1>4. book'.lastUpdateId = msg.u /\ book'.truth = msg.truth
  BY <1>1 DEF Apply
<1>5. WireFollows'
  <2>1. ASSUME NEW i \in DOMAIN wire'
        PROVE  Tells(wire'[i])
    <3>1. i + 1 \in DOMAIN wire /\ wire'[i] = wire[i + 1]
      BY <1>2
    <3> QED BY <1>3, <3>1
  <2>2. ASSUME NEW i \in DOMAIN wire', i > 1
        PROVE  Follows(wire'[i - 1].u, wire'[i - 1].truth, wire'[i])
    <3>1. i \in 1 .. Len(wire) - 1 /\ i - 1 \in 1 .. Len(wire) - 1
      BY <1>2, <2>2
    <3>2. /\ i + 1 \in DOMAIN wire /\ i + 1 > 1 /\ i + 1 - 1 = i /\ i - 1 + 1 = i
      BY <1>2, <2>2, <3>1
    <3>3. wire'[i] = wire[i + 1] /\ wire'[i - 1] = wire[i]
      BY <1>2, <3>1, <3>2
    <3>4. Follows(wire[i].u, wire[i].truth, wire[i + 1])
      <4>1. PICK j \in DOMAIN wire : j = i + 1
        BY <3>2
      <4>2. j > 1 /\ j - 1 = i
        BY <1>2, <3>1, <3>2, <4>1
      <4>3. Follows(wire[j - 1].u, wire[j - 1].truth, wire[j])
        BY <1>0, <4>2 DEF FollowsAt
      <4> QED BY <4>1, <4>2, <4>3
    <3> QED BY <3>3, <3>4
  <2>3. ASSUME wire' # <<>>
        PROVE  Follows(book'.lastUpdateId, book'.truth, wire'[1])
    <3>1. 2 \in DOMAIN wire /\ wire'[1] = wire[2] /\ 2 - 1 = 1
      BY <1>2, <2>3
    <3>2. Follows(wire[2 - 1].u, wire[2 - 1].truth, wire[2])
      BY <1>0, <3>1 DEF FollowsAt
    <3> QED BY <1>2, <1>4, <3>1, <3>2
  <2> QED BY <2>1, <2>2, <2>3 DEF WireFollows
<1>6. BookExactUnlessGap'
  <2>1. Sides(book') = [bids |-> ApplySide(Base(msg).bids, msg.bids), asks |-> ApplySide(Base(msg).asks, msg.asks)]
    BY <1>1 DEF Apply, Sides
  <2>2. IsBook(msg.truth) /\ msg.type \in {"snapshot", "delta"}
    BY <1>3 DEF Tells
  <2>3. ASSUME msg.type = "snapshot"
        PROVE  Sides(book') = msg.truth
    <3>1. msg.bids = msg.truth.bids /\ msg.asks = msg.truth.asks
      BY <1>3, <2>3 DEF Tells
    <3>2. Base(msg).bids = EmptySide /\ Base(msg).asks = EmptySide
      BY <2>3 DEF Base, EmptySide
    <3>3. ApplySide(EmptySide, msg.bids) = msg.truth.bids /\ ApplySide(EmptySide, msg.asks) = msg.truth.asks
      BY <2>2, <3>1, ApplyToNothing DEF IsBook
    <3> HIDE DEF msg
    <3> QED BY <2>1, <2>2, <3>2, <3>3 DEF IsBook, Sides
  <2>4. ASSUME msg.type = "delta", ~gap, msg.u = book.lastUpdateId + 1
        PROVE  Sides(book') = msg.truth
    <3>1. Sides(book) = book.truth
      BY <2>4 DEF StreamInv, BookExactUnlessGap
    <3>2. /\ msg.truth.bids = ApplySide(book.truth.bids, msg.bids)
          /\ msg.truth.asks = ApplySide(book.truth.asks, msg.asks)
      BY <1>3, <2>4 DEF Follows
    <3>3. Base(msg) = Sides(book)
      BY <2>4 DEF Base
    <3> HIDE DEF msg
    <3> QED BY <2>1, <2>2, <3>1, <3>2, <3>3 DEF IsBook, Sides
  <2> QED BY <1>1, <1>4, <2>2, <2>3, <2>4 DEF BookExactUnlessGap
<1>7. LastU' = LastU /\ LastTruth' = LastTruth
  <2>1. CASE Len(wire) = 1
    BY <1>1, <1>2, <1>4, <2>1 DEF LastU, LastTruth
  <2>2. CASE Len(wire) # 1
    <3>1. wire' # <<>> /\ wire'[Len(wire')] = wire[Len(wire)]
      BY <1>2, <2>2
    <3> QED BY <1>1, <3>1 DEF LastU, LastTruth
  <2> QED BY <2>1, <2>2
<1>8. book'.lastUpdateId \in Nat /\ IsBook(book'.truth)
  BY <1>3, <1>4 DEF Tells
<1> HIDE DEF msg
<1> QED BY <1>1, <1>2, <1>5, <1>6, <1>7, <1>8 DEF StreamInv, IsExchange, Sides

\* A change of the exchange's book: what is sent of it, if it is, follows.
LEMMA MoveKeepsStream ==
  ASSUME StreamInv, NEW m \in Moves, Move(m)
  PROVE  StreamInv'
<1> DEFINE change(side) == IF m.side = side THEN [p \in {m.price} |-> m.size] ELSE <<>>
           delta == [type |-> "delta", u |-> exchange'.u, bids |-> change("bids"),
                     asks |-> change("asks"), truth |-> Sides(exchange')]
<1>1. /\ phase = "streaming" /\ UNCHANGED <<phase, book, gap>>
      /\ exchange' = [exchange EXCEPT ![m.side] = Moved(@, m.price, m.size), !.u = @ + 1]
      /\ wire' = Append(wire, delta) \/ wire' = wire
  BY DEF Move
<1>2. m.side \in {"bids", "asks"} /\ m.size \in Size /\ m.price \in Nat
  BY BookFeedAssumption
<1>3. IsExchange(exchange)
  BY DEF StreamInv
<1>4. /\ exchange'.bids = ApplySide(exchange.bids, change("bids"))
      /\ exchange'.asks = ApplySide(exchange.asks, change("asks"))
      /\ exchange'.u = exchange.u + 1
      /\ IsExchange(exchange')
  <2>1. CASE m.side = "bids"
    <3>1. exchange' = [bids |-> Moved(exchange.bids, m.price, m.size), asks |-> exchange.asks,
                       u |-> exchange.u + 1]
      BY <1>1, <1>3, <2>1 DEF IsExchange
    <3>2. change("asks") = EmptySide /\ change("bids") = [p \in {m.price} |-> m.size]
      BY <2>1 DEF EmptySide
    <3> HIDE DEF change
    <3>0. IsSide(exchange.bids) /\ IsSide(exchange.asks) /\ m.size \in Size /\ m.price \in Nat
      BY <1>2, <1>3 DEF IsExchange
    <3>3. /\ ApplySide(exchange.bids, change("bids")) = Moved(exchange.bids, m.price, m.size)
          /\ IsSide(Moved(exchange.bids, m.price, m.size))
      BY <3>0, <3>2, ApplyOneLevel
    <3>4. ApplySide(exchange.asks, change("asks")) = exchange.asks
      BY <3>0, <3>2, ApplyNothing
    <3> QED BY <1>3, <3>1, <3>3, <3>4 DEF IsExchange
  <2>2. CASE m.side = "asks"
    <3>1. exchange' = [bids |-> exchange.bids, asks |-> Moved(exchange.asks, m.price, m.size),
                       u |-> exchange.u + 1]
      BY <1>1, <1>3, <2>2 DEF IsExchange
    <3>2. change("bids") = EmptySide /\ change("asks") = [p \in {m.price} |-> m.size]
      BY <2>2 DEF EmptySide
    <3> HIDE DEF change
    <3>0. IsSide(exchange.bids) /\ IsSide(exchange.asks) /\ m.size \in Size /\ m.price \in Nat
      BY <1>2, <1>3 DEF IsExchange
    <3>3. /\ ApplySide(exchange.asks, change("asks")) = Moved(exchange.asks, m.price, m.size)
          /\ IsSide(Moved(exchange.asks, m.price, m.size))
      BY <3>0, <3>2, ApplyOneLevel
    <3>4. ApplySide(exchange.bids, change("bids")) = exchange.bids
      BY <3>0, <3>2, ApplyNothing
    <3> QED BY <1>3, <3>1, <3>3, <3>4 DEF IsExchange
  <2> QED BY <1>2, <2>1, <2>2
<1>5. BookExactUnlessGap' /\ book'.lastUpdateId \in Nat /\ IsBook(book'.truth) /\ phase' = "streaming"
  BY <1>1 DEF StreamInv, BookExactUnlessGap, Sides
<1>6. LastU <= exchange.u /\ (LastU = exchange.u => LastTruth = Sides(exchange)) /\ LastU \in Nat
  <2>1. LastU <= exchange.u /\ (LastU = exchange.u => LastTruth = Sides(exchange))
    BY <1>1 DEF StreamInv
  <2>2. LastU \in Nat
    <3>1. CASE wire = <<>>
      BY <3>1 DEF LastU, StreamInv
    <3>2. CASE wire # <<>>
      <4>1. Len(wire) \in DOMAIN wire
        BY <3>2, TailSequence DEF StreamInv
      <4>2. Tells(wire[Len(wire)])
        BY <4>1 DEF StreamInv, WireFollows
      <4> QED BY <3>2, <4>2 DEF LastU, Tells
    <3> QED BY <3>1, <3>2
  <2> QED BY <2>1, <2>2
<1>7. CASE wire' = wire
  <2>1. LastU' = LastU /\ LastTruth' = LastTruth
    BY <1>1, <1>7 DEF LastU, LastTruth
  <2>2. LastU' <= exchange'.u /\ LastU' # exchange'.u
    BY <1>3, <1>4, <1>6, <2>1 DEF IsExchange
  <2>3. WireFollows' /\ IsSequence(wire')
    BY <1>1, <1>7 DEF WireFollows, StreamInv
  <2> QED BY <1>4, <1>5, <2>2, <2>3 DEF StreamInv, IsExchange, Sides
<1>8. CASE wire' = Append(wire, delta)
  <2>1. /\ IsSequence(wire') /\ Len(wire) \in Nat /\ Len(wire') = Len(wire) + 1
        /\ DOMAIN wire = 1 .. Len(wire)
        /\ DOMAIN wire' = 1 .. Len(wire) + 1
        /\ \A i \in 1 .. Len(wire) : wire'[i] = wire[i]
        /\ wire'[Len(wire) + 1] = delta /\ wire' # <<>>
    BY <1>8, AppendedSequence DEF StreamInv
  <2>2. Tells(delta)
    BY <1>4 DEF Tells, IsExchange, IsBook, Sides
  <2>3. Follows(LastU, LastTruth, delta)
    <3>1. SUFFICES ASSUME delta.u = LastU + 1
                   PROVE  /\ delta.truth.bids = ApplySide(LastTruth.bids, delta.bids)
                          /\ delta.truth.asks = ApplySide(LastTruth.asks, delta.asks)
      BY DEF Follows
    <3>2. exchange.u + 1 = LastU + 1
      BY <1>4, <3>1
    <3>3. LastU = exchange.u
      BY <1>3, <1>6, <3>2 DEF IsExchange
    <3>4. LastTruth = Sides(exchange)
      BY <1>6, <3>3
    <3> QED BY <1>4, <3>4 DEF Sides
  <2> HIDE DEF delta
  <2>4. LastU' = delta.u /\ LastTruth' = delta.truth
    BY <2>1 DEF LastU, LastTruth
  <2>5. delta.u = exchange'.u /\ delta.truth = Sides(exchange')
    BY DEF delta
  <2>6. WireFollows'
    <3>1. /\ \A i \in DOMAIN wire : Tells(wire[i])
          /\ \A i \in DOMAIN wire : i > 1 => Follows(wire[i - 1].u, wire[i - 1].truth, wire[i])
          /\ wire # <<>> => Follows(book.lastUpdateId, book.truth, wire[1])
      BY DEF StreamInv, WireFollows
    <3>2. ASSUME NEW i \in DOMAIN wire'
          PROVE  Tells(wire'[i])
      <4>1. CASE i \in 1 .. Len(wire)
        BY <2>1, <3>1, <4>1
      <4>2. CASE i = Len(wire) + 1
        BY <2>1, <2>2, <4>2
      <4> QED BY <2>1, <4>1, <4>2
    <3>3. ASSUME NEW i \in DOMAIN wire', i > 1
          PROVE  Follows(wire'[i - 1].u, wire'[i - 1].truth, wire'[i])
      <4>1. CASE i \in 1 .. Len(wire)
        <5>1. i \in DOMAIN wire /\ wire'[i] = wire[i] /\ wire'[i - 1] = wire[i - 1]
          BY <2>1, <3>3, <4>1
        <5>2. Follows(wire[i - 1].u, wire[i - 1].truth, wire[i])
          BY <3>1, <3>3, <5>1
        <5> QED BY <5>1, <5>2
      <4>2. CASE i = Len(wire) + 1
        <5>1. i - 1 = Len(wire) /\ Len(wire) \in 1 .. Len(wire)
          BY <2>1, <3>3, <4>2
        <5>2. wire # <<>>
          BY <5>1
        <5>3. wire'[i] = delta /\ wire'[i - 1] = wire[Len(wire)]
          BY <2>1, <4>2, <5>1
        <5>4. LastU = wire[Len(wire)].u /\ LastTruth = wire[Len(wire)].truth
          BY <5>2 DEF LastU, LastTruth
        <5> QED BY <2>3, <5>3, <5>4
      <4> QED BY <2>1, <4>1, <4>2
    <3>4. Follows(book'.lastUpdateId, book'.truth, wire'[1])
      <4>1. CASE wire = <<>>
        <5>1. wire'[1] = delta /\ LastU = book.lastUpdateId /\ LastTruth = book.truth
          <6>1. Len(wire) = 0
            BY <4>1
          <6> QED BY <2>1, <4>1, <6>1 DEF LastU, LastTruth
        <5> QED BY <1>1, <2>3, <5>1
      <4>2. CASE wire # <<>>
        <5>1. wire'[1] = wire[1]
          <6>1. Len(wire) \in Nat \ {0}
            BY <4>2, TailSequence DEF StreamInv
          <6> QED BY <2>1, <6>1
        <5> QED BY <1>1, <3>1, <4>2, <5>1
      <4> QED BY <4>1, <4>2
    <3> QED BY <3>2, <3>3, <3>4 DEF WireFollows
  <2>7. LastU' <= exchange'.u /\ LastTruth' = Sides(exchange')
    BY <1>4, <2>4, <2>5 DEF IsExchange
  <2> QED BY <1>4, <1>5, <2>1, <2>6, <2>7 DEF StreamInv, IsExchange, Sides
<1> QED BY <1>1, <1>7, <1>8

LEMMA StreamInvHolds == Spec => []StreamInv
<1>1. Init => StreamInv
  <2> SUFFICES ASSUME Init PROVE StreamInv
    OBVIOUS
  <2>1. PICK b \in InitialBooks : exchange = [bids |-> b.bids, asks |-> b.asks, u |-> 1]
    BY DEF Init, FeedInit
  <2>2. IsExchange(exchange)
    BY <2>1, BookFeedAssumption DEF IsExchange
  <2>3. /\ wire = <<>> /\ phase = "wiring" /\ gap = FALSE /\ book.lastUpdateId = 0
        /\ book.bids = EmptySide /\ book.asks = EmptySide
        /\ book.truth = [bids |-> EmptySide, asks |-> EmptySide]
    BY DEF Init, FeedInit, EmptySide
  <2>4. IsBook(book.truth) /\ BookExactUnlessGap
    BY <2>3, EmptyIsASide DEF IsBook, BookExactUnlessGap, Sides
  <2>5. IsSequence(<<>>) /\ DOMAIN <<>> = {}
    <3>1. <<>> \in Seq({}) /\ DOMAIN <<>> = {}
      OBVIOUS
    <3> QED BY <3>1 DEF IsSequence
  <2>6. WireFollows
    BY <2>3, <2>5 DEF WireFollows
  <2> QED BY <2>2, <2>3, <2>4, <2>5, <2>6 DEF StreamInv
<1>2. StreamInv /\ [Next]_vars => StreamInv'
  BY StepsOfTheStream, MoveKeepsStream, ReconnectKeepsStream, ReceiveKeepsStream,
     StartKeepsStream, StopKeepsStream
<1> QED BY <1>1, <1>2, PTL DEF Spec

\* Unless a change was missed since the last snapshot message, the receiver
\* thread's book is the book the exchange had at the message's update id, for
\* any moves, and through any number of lost connections and of changes not
\* told.
THEOREM BookIsExact == Spec => []BookExactUnlessGap
<1>1. StreamInv => BookExactUnlessGap
  BY DEF StreamInv
<1> QED BY <1>1, StreamInvHolds, PTL

-----------------------------------------------------------------------------
(* The strategy and the venue. *)

\* Books the strategy has been handed and the venue has not.
Lead == handed.strategy - handed.venue

\* Who the i-th callback the loop has yet to run is for, when the first is
\* for the one whose turn it is.
InTurn(i) == IF (i + Lead) % 2 = 1 THEN "strategy" ELSE "venue"

InTurns == (Len(queue) + Lead) % 2 = 0 /\ \A i \in DOMAIN queue : queue[i].callback = InTurn(i)

Alternates ==
  /\ handed \in [strategy : Nat, venue : Nat] /\ Lead \in {0, 1}
  /\ phase \in {"wiring", "streaming", "stopped", "exited"}
  /\ IsSequence(queue)
  /\ phase = "wiring" => subs = <<"strategy">> /\ queue = <<>> /\ Lead = 0
  /\ phase \in {"streaming", "stopped"} => subs = <<"strategy", "venue">> /\ InTurns

loopVars == <<phase, subs, queue, handed>>

LEMMA StepsOfTheLoop ==
  ASSUME [Next]_vars
  PROVE  \/ Called("strategy") \/ Called("venue")
         \/ /\ Receive \/ StartFeed \/ StopFeed \/ Exit
            /\ UNCHANGED handed
         \/ UNCHANGED loopVars
<1>1. CASE Loop
  BY <1>1 DEF Loop, StrategySubmits, StrategyWaits, VenueTicks, FillNext, loopVars
<1>2. CASE UNCHANGED vars
  BY <1>2 DEF vars, feedVars, tradingVars, loopVars
<1>3. CASE Outside
  BY <1>3 DEF Outside, Move, Reconnect, loopVars, tradingVars
<1> QED BY <1>1, <1>2, <1>3 DEF Next, Start, Stop, LoopEnds, tradingVars

LEMMA CallsInTurn ==
  ASSUME Alternates, Called("strategy") \/ Called("venue")
  PROVE  Alternates'
<1>1. /\ phase \in {"streaming", "stopped"} /\ UNCHANGED <<phase, subs>>
      /\ queue # <<>> /\ queue' = Tail(queue)
  BY DEF Called
<1>2. /\ IsSequence(queue') /\ Len(queue) \in Nat \ {0} /\ Len(queue') = Len(queue) - 1
      /\ DOMAIN queue = 1 .. Len(queue) /\ DOMAIN queue' = 1 .. Len(queue) - 1
      /\ Head(queue) = queue[1] /\ \A i \in 1 .. Len(queue) - 1 : queue'[i] = queue[i + 1]
  BY <1>1, TailSequence DEF Alternates
<1>3. handed \in [strategy : Nat, venue : Nat] /\ Lead \in {0, 1}
  BY DEF Alternates
<1>4. (Len(queue) + Lead) % 2 = 0 /\ \A i \in DOMAIN queue : queue[i].callback = InTurn(i)
  BY <1>1 DEF Alternates, InTurns
<1>5. queue[1].callback = InTurn(1)
  BY <1>2, <1>4
<1>6. handed' \in [strategy : Nat, venue : Nat] /\ Lead' = 1 - Lead
  <2>1. CASE Called("strategy")
    <3>1. handed' = [handed EXCEPT !.strategy = @ + 1] /\ queue[1].callback = "strategy"
      BY <1>2, <2>1 DEF Called
    <3>2. Lead = 0
      BY <1>3, <1>5, <3>1 DEF InTurn
    <3> QED BY <1>3, <3>1, <3>2 DEF Lead
  <2>2. CASE Called("venue")
    <3>1. handed' = [handed EXCEPT !.venue = @ + 1] /\ queue[1].callback = "venue"
      BY <1>2, <2>2 DEF Called
    <3>2. Lead = 1
      BY <1>3, <1>5, <3>1 DEF InTurn
    <3> QED BY <1>3, <3>1, <3>2 DEF Lead
  <2> QED BY <2>1, <2>2
<1>7. InTurns'
  <2>1. (Len(queue') + Lead') % 2 = 0
    BY <1>2, <1>3, <1>4, <1>6
  <2>2. ASSUME NEW i \in DOMAIN queue'
        PROVE  queue'[i].callback = InTurn(i)'
    <3>1. i \in Int /\ i + 1 \in DOMAIN queue /\ queue'[i] = queue[i + 1]
      BY <1>2
    <3>2. queue[i + 1].callback = IF (i + 1 + Lead) % 2 = 1 THEN "strategy" ELSE "venue"
      BY <1>4, <3>1 DEF InTurn
    <3>3. (i + 1 + Lead) % 2 = (i + Lead') % 2
      BY <1>3, <1>6, <3>1
    <3> QED BY <3>1, <3>2, <3>3 DEF InTurn
  <2> QED BY <2>1, <2>2 DEF InTurns
<1>8. phase' \in {"streaming", "stopped"} /\ subs' = <<"strategy", "venue">>
  BY <1>1 DEF Alternates
<1> QED BY <1>2, <1>3, <1>6, <1>7, <1>8 DEF Alternates

LEMMA HandedOverInTurn ==
  ASSUME Alternates, Receive, UNCHANGED handed
  PROVE  Alternates'
<1> DEFINE event == ToSnapshot(book')
           calls == <<[callback |-> "strategy", event |-> event], [callback |-> "venue", event |-> event]>>
<1>1. phase = "streaming" /\ UNCHANGED <<phase, subs>> /\ queue' = queue \o Dispatch(event)
  BY DEF Receive
<1>2. /\ subs = <<"strategy", "venue">> /\ IsSequence(queue) /\ Lead \in {0, 1}
      /\ (Len(queue) + Lead) % 2 = 0 /\ \A i \in DOMAIN queue : queue[i].callback = InTurn(i)
  BY <1>1 DEF Alternates, InTurns
<1> HIDE DEF event
<1>3. Dispatch(event) = calls
  BY <1>2 DEF Dispatch
<1>4. PICK S : queue \in Seq(S)
  BY <1>2 DEF IsSequence
<1>5. queue \in Seq(S \cup {calls[1], calls[2]}) /\ calls \in Seq(S \cup {calls[1], calls[2]}) /\ Len(calls) = 2
  BY <1>4
<1>6. /\ queue' \in Seq(S \cup {calls[1], calls[2]}) /\ Len(queue') = Len(queue) + 2 /\ Len(queue) \in Nat
      /\ DOMAIN queue = 1 .. Len(queue) /\ DOMAIN queue' = 1 .. Len(queue) + 2
      /\ \A i \in 1 .. Len(queue) : queue'[i] = queue[i]
      /\ queue'[Len(queue) + 1] = calls[1] /\ queue'[Len(queue) + 2] = calls[2]
  BY <1>1, <1>3, <1>5
<1>7. calls[1].callback = "strategy" /\ calls[2].callback = "venue"
  OBVIOUS
<1> HIDE DEF calls
<1>8. Lead' = Lead /\ \A i : InTurn(i)' = InTurn(i)
  BY DEF Lead, InTurn
<1>9. ASSUME NEW i \in DOMAIN queue'
      PROVE  queue'[i].callback = InTurn(i)
  <2>1. CASE i \in 1 .. Len(queue)
    BY <1>2, <1>6, <2>1
  <2>2. CASE i = Len(queue) + 1
    <3>1. (i + Lead) % 2 = 1
      BY <1>2, <1>6, <2>2
    <3> QED BY <1>6, <1>7, <2>2, <3>1 DEF InTurn
  <2>3. CASE i = Len(queue) + 2
    BY <1>2, <1>6, <1>7, <2>3 DEF InTurn
  <2> QED BY <1>6, <2>1, <2>2, <2>3
<1>10. InTurns'
  <2>1. (Len(queue') + Lead') % 2 = 0
    BY <1>2, <1>6, <1>8
  <2> QED BY <1>8, <1>9, <2>1 DEF InTurns
<1>11. IsSequence(queue')
  BY <1>6 DEF IsSequence
<1> QED BY <1>1, <1>2, <1>8, <1>10, <1>11 DEF Alternates

LEMMA AlternatesStep == Alternates /\ [Next]_vars => Alternates'
<1> SUFFICES ASSUME Alternates, [Next]_vars PROVE Alternates'
  OBVIOUS
<1>1. CASE StartFeed /\ UNCHANGED handed
  <2>1. /\ phase' = "streaming" /\ phase = "wiring" /\ subs' = Append(subs, "venue")
        /\ UNCHANGED queue
    BY <1>1 DEF StartFeed, Subscribe
  <2>2. subs' = <<"strategy", "venue">> /\ Lead' = 0 /\ queue' = <<>>
    <3>1. subs = <<"strategy">> /\ Lead = 0 /\ queue = <<>>
      BY <2>1 DEF Alternates
    <3>2. Append(<<"strategy">>, "venue") = <<"strategy", "venue">>
      BY AppendSecond
    <3> QED BY <1>1, <2>1, <3>1, <3>2 DEF Lead
  <2>3. InTurns'
    <3>1. Len(<<>>) = 0 /\ DOMAIN <<>> = {}
      OBVIOUS
    <3> QED BY <2>2, <3>1 DEF InTurns
  <2> QED BY <1>1, <2>1, <2>2, <2>3 DEF Alternates, Lead
<1>2. CASE StopFeed /\ UNCHANGED handed
  BY <1>2 DEF StopFeed, Alternates, Lead, InTurns, InTurn
<1>3. CASE Exit /\ UNCHANGED handed
  <2>1. IsSequence(<<>>)
    <3>1. <<>> \in Seq({})
      OBVIOUS
    <3> QED BY <3>1 DEF IsSequence
  <2> QED BY <1>3, <2>1 DEF Exit, Alternates, Lead
<1>4. CASE UNCHANGED loopVars
  BY <1>4 DEF loopVars, Alternates, Lead, InTurns, InTurn
<1> QED BY <1>1, <1>2, <1>3, <1>4, StepsOfTheLoop, CallsInTurn, HandedOverInTurn

LEMMA AlternatesHolds == Spec => []Alternates
<1>1. Init => Alternates
  <2>1. IsSequence(<<>>)
    <3>1. <<>> \in Seq({})
      OBVIOUS
    <3> QED BY <3>1 DEF IsSequence
  <2> QED BY <2>1 DEF Init, FeedInit, Alternates, Lead
<1> QED BY <1>1, AlternatesStep, PTL DEF Spec

\* The venue is never ahead of the strategy and at most one book behind it.
THEOREM VenueKeepsUp == Spec => []VenueWithinOneBook
<1>1. Alternates => VenueWithinOneBook
  BY DEF Alternates, Lead, VenueWithinOneBook
<1> QED BY <1>1, AlternatesHolds, PTL

-----------------------------------------------------------------------------
(* Induction on naturals, for a set given: the least natural that is not in *)
(* it is contradicted.                                                      *)

Below == OpToRel(<, Nat)

LEMMA BelowIsLess == \A m, n \in Nat : <<m, n>> \in Below <=> m < n
BY DEF OpToRel, Below

\* Every set of naturals that is not empty has a least member.
LEMMA LeastNatural ==
  ASSUME NEW T, T \subseteq Nat, T # {}
  PROVE  \E n \in T : \A m \in T : n <= m
<1>1. IsWellFoundedOn(Below, Nat)
  BY NatLessThanWellFounded, Zenon DEF Below
<1>2. PICK n \in T : \A m \in T : ~ (<<m, n>> \in Below)
  BY <1>1, WFMin
<1>3. ASSUME NEW m \in T PROVE n <= m
  <2>1. m \in Nat /\ n \in Nat
    OBVIOUS
  <2>2. ~ (<<m, n>> \in Below)
    BY <1>2
  <2> QED BY <2>1, <2>2, BelowIsLess
<1> QED BY <1>3

\* What holds of 0, and of i whenever of i - 1, holds up to any bound.
LEMMA UpTo ==
  ASSUME NEW n \in Nat, NEW Holds, 0 \in Holds,
         \A i \in 1 .. n : i - 1 \in Holds => i \in Holds
  PROVE  0 .. n \subseteq Holds
<1> DEFINE T == (0 .. n) \ Holds
<1> SUFFICES ASSUME T # {} PROVE FALSE
  OBVIOUS
<1>1. T \subseteq Nat
  OBVIOUS
<1>2. PICK k \in T : \A m \in T : k <= m
  BY <1>1, LeastNatural
<1>3. k \in 1 .. n
  BY <1>2
<1>4. k - 1 \notin T
  BY <1>2, <1>3
<1>5. k - 1 \in Holds
  BY <1>3, <1>4
<1> QED BY <1>2, <1>3, <1>5

-----------------------------------------------------------------------------
(* The levels of a snapshot. *)

Ascending(S, s) ==
  /\ s \in [1 .. Cardinality(S) -> S]
  /\ \A i, j \in 1 .. Cardinality(S) : i < j => s[i] < s[j]

\* A finite set of prices can be put in ascending order.
LEMMA AscendingExists ==
  ASSUME NEW S, S \subseteq Nat, IsFiniteSet(S)
  PROVE  Cardinality(S) \in Nat /\ \E s : Ascending(S, s)
<1> DEFINE Enumerated(i) == \A T \in SUBSET Nat : IsFiniteSet(T) /\ Cardinality(T) = i => \E s : Ascending(T, s)
           Holds == {i \in Nat : Enumerated(i)}
<1>1. Cardinality(S) \in Nat
  BY FS_CardinalityType
<1>2. 0 \in Holds
  <2> SUFFICES ASSUME NEW T \in SUBSET Nat, Cardinality(T) = 0, IsFiniteSet(T) PROVE \E s : Ascending(T, s)
    OBVIOUS
  <2>1. 1 .. 0 = {}
    OBVIOUS
  <2>2. Ascending(T, [i \in {} |-> i])
    BY <2>1 DEF Ascending
  <2> QED BY <2>2
<1>3. ASSUME NEW i \in 1 .. Cardinality(S), i - 1 \in Holds
      PROVE  i \in Holds
  <2> SUFFICES ASSUME NEW T \in SUBSET Nat, Cardinality(T) = i, IsFiniteSet(T) PROVE \E s : Ascending(T, s)
    OBVIOUS
  <2>0. i \in Nat \ {0}
    BY <1>1
  <2>1. T # {}
    BY <2>0, FS_EmptySet
  <2>2. PICK least \in T : \A m \in T : least <= m
    BY <2>1, LeastNatural
  <2> DEFINE U == T \ {least}
  <2>3. IsFiniteSet(U) /\ Cardinality(U) = i - 1
    BY FS_RemoveElement
  <2>4. PICK r : Ascending(U, r)
    BY <1>3, <2>3
  <2> DEFINE s == [k \in 1 .. i |-> IF k = 1 THEN least ELSE r[k - 1]]
  <2>5. \A k \in 2 .. i : k - 1 \in 1 .. i - 1 /\ r[k - 1] \in U
    <3> HIDE DEF U
    <3>1. r \in [1 .. i - 1 -> U]
      BY <2>3, <2>4 DEF Ascending
    <3>2. \A k \in 2 .. i : k - 1 \in 1 .. i - 1
      BY <2>0
    <3> QED BY <3>1, <3>2
  <2>6. s \in [1 .. i -> T]
    BY <2>0, <2>5
  <2>7. ASSUME NEW j \in 1 .. i, NEW k \in 1 .. i, j < k PROVE s[j] < s[k]
    <3>1. k \in 2 .. i /\ s[k] = r[k - 1] /\ s[k] \in U
      BY <2>0, <2>5, <2>7
    <3>2. CASE j = 1
      <4>1. s[j] = least
        BY <3>2
      <4>2. least <= s[k] /\ least # s[k] /\ least \in Nat /\ s[k] \in Nat
        BY <2>2, <3>1
      <4> QED BY <4>1, <4>2
    <3>3. CASE j # 1
      <4>1. j \in 2 .. i /\ s[j] = r[j - 1]
        BY <2>0, <3>3
      <4>2. j - 1 \in 1 .. i - 1 /\ k - 1 \in 1 .. i - 1 /\ j - 1 < k - 1
        BY <2>0, <2>7, <3>1, <4>1
      <4> QED BY <2>3, <2>4, <3>1, <4>1, <4>2 DEF Ascending
    <3> QED BY <3>2, <3>3
  <2> HIDE DEF s
  <2> QED BY <2>6, <2>7 DEF Ascending
<1>4. 0 .. Cardinality(S) \subseteq Holds
  <2> HIDE DEF Holds
  <2> QED BY <1>1, <1>2, <1>3, UpTo
<1>5. Cardinality(S) \in Holds
  BY <1>1, <1>4
<1> QED BY <1>1, <1>5

\* The prices of a side are all there, each better than those behind it.
LEMMA PricesSorted ==
  ASSUME NEW side, IsSide(side), NEW descending \in BOOLEAN, NEW s, s = SortedPrices(side, descending)
  PROVE  /\ Cardinality(DOMAIN side) \in Nat
         /\ s \in [1 .. Cardinality(DOMAIN side) -> DOMAIN side]
         /\ \A i, j \in 1 .. Cardinality(DOMAIN side) :
              i < j => IF descending THEN s[i] > s[j] ELSE s[i] < s[j]
<1> DEFINE n == Cardinality(DOMAIN side)
           InOrder(r) == \A i, j \in DOMAIN r : i < j => IF descending THEN r[i] > r[j] ELSE r[i] < r[j]
<1>1. n \in Nat /\ \E r : Ascending(DOMAIN side, r)
  BY AscendingExists DEF IsSide
<1>2. PICK r : Ascending(DOMAIN side, r)
  BY <1>1
<1>3. \E r0 \in [1 .. n -> DOMAIN side] : InOrder(r0)
  <2>1. CASE descending = FALSE
    <3>1. r \in [1 .. n -> DOMAIN side] /\ InOrder(r)
      BY <1>2, <2>1 DEF Ascending
    <3> QED BY <3>1
  <2>2. CASE descending
    <3> DEFINE back == [i \in 1 .. n |-> r[n + 1 - i]]
    <3>0. DOMAIN side \subseteq Nat
      BY DEF IsSide
    <3>1. \A i \in 1 .. n : n + 1 - i \in 1 .. n
      BY <1>1
    <3>2. back \in [1 .. n -> DOMAIN side]
      BY <1>2, <3>1 DEF Ascending
    <3>3. ASSUME NEW i \in 1 .. n, NEW j \in 1 .. n, i < j PROVE back[i] > back[j]
      <4>1. n + 1 - j < n + 1 - i
        BY <1>1, <3>3
      <4>2. r[n + 1 - j] < r[n + 1 - i]
        BY <1>2, <3>1, <4>1 DEF Ascending
      <4>3. back[i] \in Nat /\ back[j] \in Nat
        BY <3>0, <3>2
      <4> QED BY <4>2, <4>3
    <3> HIDE DEF back
    <3>4. InOrder(back)
      BY <2>2, <3>2, <3>3
    <3> QED BY <3>2, <3>4
  <2> QED BY <2>1, <2>2
<1>4. s = CHOOSE r0 \in [1 .. n -> DOMAIN side] : InOrder(r0)
  BY DEF SortedPrices
<1>5. s \in [1 .. n -> DOMAIN side] /\ InOrder(s)
  BY <1>3, <1>4
<1> QED BY <1>1, <1>5

-----------------------------------------------------------------------------
(* Taking from the cheapest first is cheapest. *)

\* Quantities f and costs c after each of the levels, when g(i) is what is
\* taken from level i, at w[i] a unit.
Accumulates(f, c, g, w, L) ==
  /\ f \in [0 .. L -> Int] /\ c \in [0 .. L -> Int] /\ g \in [1 .. L -> Int] /\ w \in [1 .. L -> Int]
  /\ f[0] = 0 /\ c[0] = 0
  /\ \A i \in 1 .. L : f[i] = f[i - 1] + g[i] /\ c[i] = c[i - 1] + g[i] * w[i]

\* What is taken adds up to no less than it did at any earlier level.
LEMMA Grows ==
  ASSUME NEW L \in Nat, NEW f, NEW c, NEW g, NEW w, Accumulates(f, c, g, w, L),
         \A i \in 1 .. L : g[i] >= 0
  PROVE  \A i \in 0 .. L : 0 <= f[i] /\ f[i] <= f[L]
<1> DEFINE Holds == {k \in 0 .. L : \A i \in 0 .. k : 0 <= f[i] /\ f[i] <= f[k]}
<1>0. \A i \in 0 .. L : f[i] \in Int
  BY DEF Accumulates
<1>1. 0 \in Holds
  BY DEF Accumulates
<1>2. ASSUME NEW k \in 1 .. L, k - 1 \in Holds PROVE k \in Holds
  <2>1. f[k] = f[k - 1] + g[k] /\ g[k] \in Int /\ g[k] >= 0
    BY DEF Accumulates
  <2>2. k - 1 \in 0 .. L /\ f[k - 1] \in Int /\ f[k] \in Int
    BY <1>0
  <2>3. f[k - 1] <= f[k] /\ 0 <= f[k - 1]
    BY <1>2, <2>1, <2>2
  <2>4. ASSUME NEW i \in 0 .. k PROVE 0 <= f[i] /\ f[i] <= f[k]
    <3>1. CASE i = k
      BY <2>2, <2>3, <3>1
    <3>2. CASE i # k
      <4>1. i \in 0 .. k - 1 /\ i \in 0 .. L
        BY <3>2
      <4>2. 0 <= f[i] /\ f[i] <= f[k - 1] /\ f[i] \in Int
        BY <1>0, <1>2, <4>1
      <4> QED BY <2>2, <2>3, <4>2
    <3> QED BY <3>1, <3>2
  <2> QED BY <2>4
<1>3. 0 .. L \subseteq Holds
  <2> HIDE DEF Holds
  <2> QED BY <1>1, <1>2, UpTo
<1>4. L \in Holds
  BY <1>3
<1> QED BY <1>4

\* A difference of costs stays below a price times a difference of quantities.
LEMMA OneMoreLevel ==
  ASSUME NEW c \in Int, NEW s \in Int, NEW f \in Int, NEW t \in Int, NEW g \in Int, NEW h \in Int,
         NEW w \in Int, NEW p \in Int,
         c - s <= w * (f - t), w <= p, t + h <= f + g
  PROVE  (c + g * w) - (s + h * w) <= p * ((f + g) - (t + h))
<1>1. PICK e \in Nat : e = (f + g) - (t + h)
  OBVIOUS
<1>2. w * e <= p * e
  OBVIOUS
<1>3. g * w \in Int /\ h * w \in Int /\ w * e \in Int /\ p * e \in Int /\ w * (f - t) \in Int
  OBVIOUS
<1>4. g * w - h * w = w * (g - h) /\ w * (g - h) \in Int
  OBVIOUS
<1>5. w * (f - t) + w * (g - h) = w * ((f - t) + (g - h))
  OBVIOUS
<1>6. (f - t) + (g - h) = e
  BY <1>1
<1>7. (c + g * w) - (s + h * w) = (c - s) + w * (g - h)
  BY <1>3, <1>4
<1>8. (c - s) + w * (g - h) <= w * e
  BY <1>3, <1>4, <1>5, <1>6
<1> QED BY <1>1, <1>2, <1>3, <1>4, <1>7, <1>8

\* The walk stays full, or ahead of any other way to take.
LEMMA OneMoreTaken ==
  ASSUME NEW n \in Nat, NEW f \in Int, NEW t \in Int, NEW q \in Nat, NEW h \in Int,
         f <= n, f = n \/ t <= f, h <= q
  PROVE  LET f1 == f + Lesser(n - f, q)
         IN  f1 <= n /\ (f1 = n \/ t + h <= f1)
BY DEF Lesser

\* Level by level as much as is there, up to n in all.
TakesGreedily(f, c, g, w, L, n, q) ==
  /\ Accumulates(f, c, g, w, L)
  /\ \A i \in 1 .. L : g[i] = Lesser(n - f[i - 1], q[i])

\* No more of a level than is there.
TakesSome(f, c, g, w, L, q) ==
  /\ Accumulates(f, c, g, w, L)
  /\ \A i \in 1 .. L : 0 <= g[i] /\ g[i] <= q[i]

CheapestFirst(w, L) == \A i, j \in 1 .. L : i < j => w[i] <= w[j]

\* Of all the ways to take the same quantity, taking greedily from levels
\* sorted by price costs least.
LEMMA GreedyIsLeast ==
  ASSUME NEW L \in Nat, NEW n \in Nat, NEW q \in [1 .. L -> Nat], NEW w \in [1 .. L -> Int],
         CheapestFirst(w, L),
         NEW f, NEW c, NEW g, TakesGreedily(f, c, g, w, L, n, q),
         NEW t, NEW s, NEW h, TakesSome(t, s, h, w, L, q),
         t[L] = f[L]
  PROVE  c[L] <= s[L]
<1> USE DEF CheapestFirst, TakesGreedily, TakesSome
<1>0. /\ \A i \in 0 .. L : f[i] \in Int /\ c[i] \in Int /\ t[i] \in Int /\ s[i] \in Int
      /\ \A i \in 1 .. L : g[i] \in Int /\ h[i] \in Int /\ w[i] \in Int /\ q[i] \in Nat
  BY DEF Accumulates
<1>1. \A i \in 0 .. L : t[i] <= f[L]
  BY Grows
<1> DEFINE Full(i) == f[i] <= n /\ (f[i] = n \/ t[i] <= f[i])
           Close(i) == \A p \in Int : (\A j \in 1 .. i : w[j] <= p) => c[i] - s[i] <= p * (f[i] - t[i])
           Filled == {i \in 0 .. L : Full(i)}
           Closer == {i \in 0 .. L : Close(i)}
<1>2. 0 .. L \subseteq Filled
  <2>1. 0 \in Filled
    BY DEF Accumulates
  <2>2. ASSUME NEW i \in 1 .. L, i - 1 \in Filled PROVE i \in Filled
    <3>1. /\ f[i] = f[i - 1] + Lesser(n - f[i - 1], q[i]) /\ t[i] = t[i - 1] + h[i]
          /\ h[i] <= q[i] /\ f[i - 1] <= n /\ (f[i - 1] = n \/ t[i - 1] <= f[i - 1])
          /\ h[i] \in Int /\ q[i] \in Nat /\ i \in 0 .. L
          /\ f[i - 1] \in Int /\ t[i - 1] \in Int /\ f[i] \in Int /\ t[i] \in Int
      <4>1. i - 1 \in 0 .. L /\ i \in 0 .. L
        OBVIOUS
      <4> QED BY <1>0, <2>2, <4>1 DEF Accumulates
    <3> HIDE DEF Filled
    <3>2. Full(i)
      BY <3>1, OneMoreTaken
    <3> QED BY <3>2 DEF Filled
  <2> HIDE DEF Filled
  <2> QED BY <2>1, <2>2, UpTo
<1>3. \A i \in 0 .. L : t[i] <= f[i]
  <2> TAKE i \in 0 .. L
  <2>1. f[i] = n \/ t[i] <= f[i]
    BY <1>2
  <2>2. L \in 0 .. L /\ f[L] <= n
    BY <1>2
  <2> QED BY <1>0, <1>1, <2>1, <2>2
<1>4. 0 .. L \subseteq Closer
  <2>1. 0 \in Closer
    <3>1. \A p \in Int : 0 - 0 <= p * (0 - 0)
      OBVIOUS
    <3>2. c[0] = 0 /\ s[0] = 0 /\ f[0] = 0 /\ t[0] = 0
      BY DEF Accumulates
    <3>3. Close(0)
      BY <3>1, <3>2
    <3> QED BY <3>3
  <2>2. ASSUME NEW i \in 1 .. L, i - 1 \in Closer PROVE i \in Closer
    <3> SUFFICES ASSUME NEW p \in Int, \A j \in 1 .. i : w[j] <= p
                 PROVE  c[i] - s[i] <= p * (f[i] - t[i])
      OBVIOUS
    <3>0. i - 1 \in 0 .. L /\ i \in 0 .. L /\ i \in 1 .. i
      OBVIOUS
    <3>1. \A j \in 1 .. i - 1 : w[j] <= w[i]
      OBVIOUS
    <3>2. w[i] \in Int /\ w[i] <= p
      BY <1>0, <3>0
    <3>3. c[i - 1] - s[i - 1] <= w[i] * (f[i - 1] - t[i - 1])
      BY <2>2, <3>1, <3>2
    <3>4. /\ f[i] = f[i - 1] + g[i] /\ c[i] = c[i - 1] + g[i] * w[i]
          /\ t[i] = t[i - 1] + h[i] /\ s[i] = s[i - 1] + h[i] * w[i]
      BY DEF Accumulates
    <3>5. /\ c[i - 1] \in Int /\ s[i - 1] \in Int /\ f[i - 1] \in Int /\ t[i - 1] \in Int
          /\ g[i] \in Int /\ h[i] \in Int /\ w[i] \in Int
      BY <1>0, <3>0
    <3>6. t[i - 1] + h[i] <= f[i - 1] + g[i]
      BY <1>3, <3>0, <3>4
    <3>7. (c[i - 1] + g[i] * w[i]) - (s[i - 1] + h[i] * w[i])
            <= p * ((f[i - 1] + g[i]) - (t[i - 1] + h[i]))
      <4> HIDE DEF Closer
      <4> DEFINE c0 == c[i - 1]
                 s0 == s[i - 1]
                 f0 == f[i - 1]
                 t0 == t[i - 1]
                 g0 == g[i]
                 h0 == h[i]
                 w0 == w[i]
      <4>1. /\ c0 \in Int /\ s0 \in Int /\ f0 \in Int /\ t0 \in Int /\ g0 \in Int /\ h0 \in Int
            /\ w0 \in Int /\ c0 - s0 <= w0 * (f0 - t0) /\ w0 <= p /\ t0 + h0 <= f0 + g0
        BY <3>2, <3>3, <3>5, <3>6
      <4> HIDE DEF c0, s0, f0, t0, g0, h0, w0
      <4>2. (c0 + g0 * w0) - (s0 + h0 * w0) <= p * ((f0 + g0) - (t0 + h0))
        BY <4>1, OneMoreLevel
      <4> QED BY <4>2 DEF c0, s0, f0, t0, g0, h0, w0
    <3> QED BY <3>4, <3>7
  <2> HIDE DEF Closer
  <2> QED BY <2>1, <2>2, UpTo
<1>5. Close(L)
  BY <1>4
<1>6. \E p \in Int : \A j \in 1 .. L : w[j] <= p
  <2>1. CASE L = 0
    <3>1. \A j \in 1 .. L : w[j] <= 0
      BY <2>1
    <3> QED BY <3>1
  <2>2. CASE L # 0
    <3>1. L \in 1 .. L /\ w[L] \in Int
      BY <2>2
    <3>2. \A j \in 1 .. L : w[j] <= w[L]
      BY <3>1
    <3> QED BY <3>1, <3>2
  <2> QED BY <2>1, <2>2
<1>7. PICK p \in Int : \A j \in 1 .. L : w[j] <= p
  BY <1>6
<1>8. c[L] - s[L] <= p * (f[L] - t[L])
  BY <1>5, <1>7
<1>9. f[L] - t[L] = 0 /\ p * 0 = 0 /\ c[L] \in Int /\ s[L] \in Int
  BY <1>0
<1> HIDE DEF Close
<1> QED BY <1>8, <1>9

-----------------------------------------------------------------------------
(* The recursive functions of the model have values. *)

Taking == [filled : Int, notional : Int]
Nothing == [filled |-> 0, notional |-> 0]

\* Steps of any kind, one per level, can be taken one after the other.
LEMMA Recursion ==
  ASSUME NEW L \in Nat, NEW step \in [1 .. L -> [Taking -> Taking]]
  PROVE  \E h \in [0 .. L -> Taking] : h[0] = Nothing /\ \A i \in 1 .. L : h[i] = step[i][h[i - 1]]
<1> DEFINE Fits(k, h) == h[0] = Nothing /\ \A i \in 1 .. k : h[i] = step[i][h[i - 1]]
           Holds == {k \in 0 .. L : \E h \in [0 .. k -> Taking] : Fits(k, h)}
<1>0. Nothing \in Taking
  BY DEF Nothing, Taking
<1>1. 0 \in Holds
  <2> DEFINE h == [i \in 0 .. 0 |-> Nothing]
  <2>1. h \in [0 .. 0 -> Taking] /\ h[0] = Nothing
    BY <1>0
  <2> HIDE DEF h
  <2>2. Fits(0, h)
    BY <2>1
  <2> QED BY <2>1, <2>2
<1>2. ASSUME NEW k \in 1 .. L, k - 1 \in Holds PROVE k \in Holds
  <2>1. PICK h \in [0 .. k - 1 -> Taking] : Fits(k - 1, h)
    BY <1>2
  <2> DEFINE new == [i \in 0 .. k |-> IF i = k THEN step[k][h[k - 1]] ELSE h[i]]
  <2>2. k - 1 \in 0 .. k - 1 /\ step[k] \in [Taking -> Taking] /\ k \in 0 .. L
    OBVIOUS
  <2>3. step[k][h[k - 1]] \in Taking
    BY <2>2
  <2>4. \A i \in 0 .. k : i # k => i \in 0 .. k - 1
    OBVIOUS
  <2>5. new \in [0 .. k -> Taking]
    BY <2>3, <2>4
  <2>6. new[0] = Nothing
    BY <2>1
  <2>7. ASSUME NEW i \in 1 .. k PROVE new[i] = step[i][new[i - 1]]
    <3>1. i - 1 \in 0 .. k /\ i - 1 # k /\ i \in 0 .. k
      OBVIOUS
    <3>2. new[i - 1] = h[i - 1]
      BY <3>1
    <3>3. CASE i = k
      BY <3>2, <3>3
    <3>4. CASE i # k
      <4>1. i \in 1 .. k - 1 /\ new[i] = h[i]
        BY <3>1, <3>4
      <4> QED BY <2>1, <3>2, <4>1
    <3> QED BY <3>3, <3>4
  <2> HIDE DEF new
  <2>8. Fits(k, new)
    BY <2>6, <2>7
  <2> QED BY <2>2, <2>5, <2>8
<1>3. 0 .. L \subseteq Holds
  <2> HIDE DEF Holds
  <2> QED BY <1>1, <1>2, UpTo
<1>4. L \in Holds
  BY <1>3
<1> QED BY <1>4

-----------------------------------------------------------------------------
(* _walk, and the other ways to take from the levels. *)

\* After taking so much at a price.
More(x, take, price) ==
  [filled |-> x.filled + take, notional |-> x.notional + take * price]

WalkStep(levels, n, f) ==
  [i \in 0 .. Len(levels) |->
     IF i = 0 THEN [filled |-> 0, notional |-> 0]
     ELSE LET take == Lesser(n - f[i - 1].filled, levels[i].quantity)
          IN  [filled   |-> f[i - 1].filled + take,
               notional |-> f[i - 1].notional + take * levels[i].price]]

TallyStep(levels, taken, f) ==
  [i \in 0 .. Len(levels) |->
     IF i = 0 THEN [filled |-> 0, notional |-> 0]
     ELSE [filled   |-> f[i - 1].filled + taken[i],
           notional |-> f[i - 1].notional + taken[i] * levels[i].price]]

LEMMA LevelTypes ==
  ASSUME NEW levels \in Seq(Level)
  PROVE  /\ Len(levels) \in Nat /\ DOMAIN levels = 1 .. Len(levels)
         /\ \A i \in 1 .. Len(levels) : levels[i].price \in Nat /\ levels[i].quantity \in Nat
<1>1. \A i \in 1 .. Len(levels) : levels[i] \in Level
  OBVIOUS
<1> QED BY <1>1 DEF Level

LEMMA MoreTyped ==
  ASSUME NEW x \in Taking, NEW take \in Int, NEW price \in Nat
  PROVE  More(x, take, price) \in Taking
<1>1. take * price \in Int
  OBVIOUS
<1> QED BY <1>1 DEF More, Taking

\* What Walk recurses on is a function, so its value can be followed level by
\* level.
LEMMA WalkUnfolds ==
  ASSUME NEW levels \in Seq(Level), NEW n \in Nat
  PROVE  \E f \in [0 .. Len(levels) -> Taking] :
           /\ Walk(levels, n) = f[Len(levels)] /\ f[0] = Nothing
           /\ \A i \in 1 .. Len(levels) :
                f[i] = More(f[i - 1], Lesser(n - f[i - 1].filled, levels[i].quantity), levels[i].price)
<1> DEFINE L == Len(levels)
           step == [i \in 1 .. L |-> [x \in Taking |->
                      More(x, Lesser(n - x.filled, levels[i].quantity), levels[i].price)]]
<1>1. L \in Nat /\ \A i \in 1 .. L : levels[i].price \in Nat /\ levels[i].quantity \in Nat
  BY LevelTypes
<1> HIDE DEF L, step
<1>2. \A i \in 1 .. L, x \in Taking :
        More(x, Lesser(n - x.filled, levels[i].quantity), levels[i].price) \in Taking
  <2> TAKE i \in 1 .. L, x \in Taking
  <2>1. x.filled \in Int
    BY DEF Taking
  <2>2. Lesser(n - x.filled, levels[i].quantity) \in Int
    BY <1>1, <2>1 DEF Lesser
  <2>3. levels[i].price \in Nat
    BY <1>1
  <2> QED BY <2>2, <2>3, MoreTyped
<1>3. step \in [1 .. L -> [Taking -> Taking]] /\ Nothing \in Taking
  <2>1. Nothing \in Taking
    BY DEF Taking, Nothing
  <2> HIDE DEF Taking
  <2>2. step \in [1 .. L -> [Taking -> Taking]]
    BY <1>2 DEF step
  <2> QED BY <2>1, <2>2
<1>4. PICK h \in [0 .. L -> Taking] : h[0] = Nothing /\ \A i \in 1 .. L : h[i] = step[i][h[i - 1]]
  BY <1>1, <1>3, Recursion
<1>5. \A i \in 1 .. L : i - 1 \in 0 .. L /\ i # 0
  BY <1>1
<1>6. h = WalkStep(levels, n, h)
  <2>1. \A i \in 1 .. L : h[i] = More(h[i - 1], Lesser(n - h[i - 1].filled, levels[i].quantity), levels[i].price)
    BY <1>4, <1>5 DEF step
  <2>2. h = [i \in 0 .. L |-> h[i]]
    OBVIOUS
  <2>3. \A i \in 0 .. L : i = 0 \/ i \in 1 .. L
    BY <1>1
  <2> QED BY <1>4, <2>1, <2>2, <2>3 DEF WalkStep, More, Nothing, L
<1> DEFINE f == CHOOSE f : f = WalkStep(levels, n, f)
<1>7. f = WalkStep(levels, n, f)
  BY <1>6
<1>8. Walk(levels, n) = f[L]
  BY DEF Walk, WalkStep, L
<1> HIDE DEF f
<1>9. f[0] = Nothing
  BY <1>1, <1>7 DEF WalkStep, Nothing, L
<1>10. \A i \in 1 .. L : f[i] = More(f[i - 1], Lesser(n - f[i - 1].filled, levels[i].quantity), levels[i].price)
  <2>1. \A i \in 1 .. L : i \in 0 .. L /\ i # 0
    BY <1>1
  <2> QED BY <1>7, <2>1 DEF WalkStep, More, L
<1>11. \A i \in 0 .. L : f[i] \in Taking
  <2> DEFINE Holds == {i \in 0 .. L : f[i] \in Taking}
  <2>1. 0 \in Holds
    BY <1>1, <1>3, <1>9
  <2>2. ASSUME NEW i \in 1 .. L, i - 1 \in Holds PROVE i \in Holds
    <3>1. f[i - 1] \in Taking /\ i \in 0 .. L
      BY <1>1, <2>2
    <3> QED BY <1>2, <1>10, <3>1
  <2>3. 0 .. L \subseteq Holds
    <3> HIDE DEF Holds
    <3> QED BY <1>1, <2>1, <2>2, UpTo
  <2> QED BY <2>3
<1>12. f \in [0 .. L -> Taking]
  <2>1. f = [i \in 0 .. L |-> f[i]]
    BY <1>7 DEF WalkStep, L
  <2> QED BY <1>11, <2>1
<1> QED BY <1>8, <1>9, <1>10, <1>12 DEF L
LEMMA TallyUnfolds ==
  ASSUME NEW levels \in Seq(Level), NEW taken \in [1 .. Len(levels) -> Int]
  PROVE  \E f \in [0 .. Len(levels) -> Taking] :
           /\ Tally(levels, taken) = f[Len(levels)] /\ f[0] = Nothing
           /\ \A i \in 1 .. Len(levels) :
                f[i] = More(f[i - 1], taken[i], levels[i].price)
<1> DEFINE L == Len(levels)
           step == [i \in 1 .. L |-> [x \in Taking |->
                      More(x, taken[i], levels[i].price)]]
<1>1. L \in Nat /\ \A i \in 1 .. L : levels[i].price \in Nat /\ levels[i].quantity \in Nat
  BY LevelTypes
<1> HIDE DEF L, step
<1>2. \A i \in 1 .. L, x \in Taking :
        More(x, taken[i], levels[i].price) \in Taking
  <2> TAKE i \in 1 .. L, x \in Taking
  <2>1. taken[i] \in Int
    BY DEF L
  <2>2. levels[i].price \in Nat
    BY <1>1
  <2> QED BY <2>1, <2>2, MoreTyped
<1>3. step \in [1 .. L -> [Taking -> Taking]] /\ Nothing \in Taking
  <2>1. Nothing \in Taking
    BY DEF Taking, Nothing
  <2> HIDE DEF Taking
  <2>2. step \in [1 .. L -> [Taking -> Taking]]
    BY <1>2 DEF step
  <2> QED BY <2>1, <2>2
<1>4. PICK h \in [0 .. L -> Taking] : h[0] = Nothing /\ \A i \in 1 .. L : h[i] = step[i][h[i - 1]]
  BY <1>1, <1>3, Recursion
<1>5. \A i \in 1 .. L : i - 1 \in 0 .. L /\ i # 0
  BY <1>1
<1>6. h = TallyStep(levels, taken, h)
  <2>1. \A i \in 1 .. L : h[i] = More(h[i - 1], taken[i], levels[i].price)
    BY <1>4, <1>5 DEF step
  <2>2. h = [i \in 0 .. L |-> h[i]]
    OBVIOUS
  <2>3. \A i \in 0 .. L : i = 0 \/ i \in 1 .. L
    BY <1>1
  <2> QED BY <1>4, <2>1, <2>2, <2>3 DEF TallyStep, More, Nothing, L
<1> DEFINE f == CHOOSE f : f = TallyStep(levels, taken, f)
<1>7. f = TallyStep(levels, taken, f)
  BY <1>6
<1>8. Tally(levels, taken) = f[L]
  BY DEF Tally, TallyStep, L
<1> HIDE DEF f
<1>9. f[0] = Nothing
  BY <1>1, <1>7 DEF TallyStep, Nothing, L
<1>10. \A i \in 1 .. L : f[i] = More(f[i - 1], taken[i], levels[i].price)
  <2>1. \A i \in 1 .. L : i \in 0 .. L /\ i # 0
    BY <1>1
  <2> QED BY <1>7, <2>1 DEF TallyStep, More, L
<1>11. \A i \in 0 .. L : f[i] \in Taking
  <2> DEFINE Holds == {i \in 0 .. L : f[i] \in Taking}
  <2>1. 0 \in Holds
    BY <1>1, <1>3, <1>9
  <2>2. ASSUME NEW i \in 1 .. L, i - 1 \in Holds PROVE i \in Holds
    <3>1. f[i - 1] \in Taking /\ i \in 0 .. L
      BY <1>1, <2>2
    <3> QED BY <1>2, <1>10, <3>1
  <2>3. 0 .. L \subseteq Holds
    <3> HIDE DEF Holds
    <3> QED BY <1>1, <2>1, <2>2, UpTo
  <2> QED BY <2>3
<1>12. f \in [0 .. L -> Taking]
  <2>1. f = [i \in 0 .. L |-> f[i]]
    BY <1>7 DEF TallyStep, L
  <2> QED BY <1>11, <2>1
<1> QED BY <1>8, <1>9, <1>10, <1>12 DEF L

-----------------------------------------------------------------------------
(* A walk of sorted levels is the best way to take what it takes. *)

Sorted(levels, descending) ==
  /\ levels \in Seq(Level)
  /\ \A i, j \in 1 .. Len(levels) :
       i < j => IF descending THEN levels[i].price > levels[j].price
                              ELSE levels[i].price < levels[j].price

\* A price, or its negative where more is better.
Weight(level, descending) == IF descending THEN -level.price ELSE level.price

\* Quantities and weighted notionals after each of the levels, when so much is
\* taken of each.
LEMMA TakingAccumulates ==
  ASSUME NEW levels \in Seq(Level), NEW descending \in BOOLEAN,
         NEW f \in [0 .. Len(levels) -> Taking], NEW g \in [1 .. Len(levels) -> Int],
         f[0] = Nothing,
         \A i \in 1 .. Len(levels) : f[i] = More(f[i - 1], g[i], levels[i].price)
  PROVE  Accumulates([i \in 0 .. Len(levels) |-> f[i].filled],
                     [i \in 0 .. Len(levels) |-> IF descending THEN -f[i].notional ELSE f[i].notional],
                     g, [i \in 1 .. Len(levels) |-> Weight(levels[i], descending)], Len(levels))
<1> DEFINE L == Len(levels)
           F == [i \in 0 .. L |-> f[i].filled]
           C == [i \in 0 .. L |-> IF descending THEN -f[i].notional ELSE f[i].notional]
           W == [i \in 1 .. L |-> Weight(levels[i], descending)]
<1>1. L \in Nat /\ \A i \in 1 .. L : levels[i].price \in Nat
  BY LevelTypes
<1>2. \A i \in 0 .. L : f[i].filled \in Int /\ f[i].notional \in Int
  BY DEF Taking
<1> HIDE DEF L
<1>3. F \in [0 .. L -> Int] /\ C \in [0 .. L -> Int]
  BY <1>2
<1>4. W \in [1 .. L -> Int]
  BY <1>1 DEF Weight
<1>5. F[0] = 0 /\ C[0] = 0
  BY <1>1 DEF Nothing
<1>6. ASSUME NEW i \in 1 .. L PROVE F[i] = F[i - 1] + g[i] /\ C[i] = C[i - 1] + g[i] * W[i]
  <2>1. i \in 0 .. L /\ i - 1 \in 0 .. L
    BY <1>1
  <2>2. f[i].filled = f[i - 1].filled + g[i] /\ f[i].notional = f[i - 1].notional + g[i] * levels[i].price
    <3>1. f[i] = More(f[i - 1], g[i], levels[i].price)
      BY DEF L
    <3> QED BY <3>1 DEF More
  <2>3. g[i] \in Int /\ levels[i].price \in Nat
    BY <1>1 DEF L
  <2>4. g[i] * (-levels[i].price) = -(g[i] * levels[i].price) /\ g[i] * levels[i].price \in Int
    BY <2>3
  <2>5. f[i - 1].notional \in Int /\ f[i].notional \in Int
    BY <1>2, <2>1
  <2>6. -f[i].notional = -f[i - 1].notional + -(g[i] * levels[i].price)
    BY <2>2, <2>4, <2>5
  <2>7. F[i] = F[i - 1] + g[i]
    BY <2>1, <2>2
  <2>8. CASE descending
    <3>1. W[i] = -levels[i].price /\ C[i] = -f[i].notional /\ C[i - 1] = -f[i - 1].notional
      BY <2>1, <2>8 DEF Weight
    <3>2. g[i] * W[i] = -(g[i] * levels[i].price)
      BY <2>4, <3>1
    <3>3. C[i] = C[i - 1] + g[i] * W[i]
      BY <2>6, <3>1, <3>2
    <3> QED BY <2>7, <3>3
  <2>9. CASE ~descending
    BY <2>1, <2>2, <2>7, <2>9 DEF Weight
  <2> QED BY <2>8, <2>9
<1> HIDE DEF F, C, W
<1>7. Accumulates(F, C, g, W, L)
  BY <1>3, <1>4, <1>5, <1>6 DEF Accumulates, L
<1> QED BY <1>7 DEF F, C, W, L

\* The walk of a sorted side is no worse than any other way to take what it
\* takes.
LEMMA WalkIsBest ==
  ASSUME NEW levels, NEW descending \in BOOLEAN, Sorted(levels, descending), NEW n \in Nat,
         NEW other \in Notionals(levels, Walk(levels, n).filled)
  PROVE  IF descending THEN Walk(levels, n).notional >= other ELSE Walk(levels, n).notional <= other
<1> DEFINE L == Len(levels)
           m == Walk(levels, n).filled
           sign(x) == IF descending THEN -x ELSE x
           q == [i \in 1 .. L |-> levels[i].quantity]
           w == [i \in 1 .. L |-> Weight(levels[i], descending)]
<1>1. /\ levels \in Seq(Level) /\ L \in Nat /\ DOMAIN levels = 1 .. L
      /\ \A i \in 1 .. L : levels[i].price \in Nat /\ levels[i].quantity \in Nat
  BY LevelTypes DEF Sorted
<1>2. PICK f \in [0 .. L -> Taking] :
        /\ Walk(levels, n) = f[L] /\ f[0] = Nothing
        /\ \A i \in 1 .. L :
             f[i] = More(f[i - 1], Lesser(n - f[i - 1].filled, levels[i].quantity), levels[i].price)
  BY <1>1, WalkUnfolds
<1>3. PICK taken \in [1 .. L -> 0 .. m] :
        /\ \A i \in 1 .. L : taken[i] <= levels[i].quantity
        /\ Tally(levels, taken).filled = m /\ other = Tally(levels, taken).notional
  BY <1>1 DEF Notionals
<1>4. f[L] \in Taking /\ m \in Int
  BY <1>1, <1>2 DEF Taking
<1>5. taken \in [1 .. L -> Int] /\ \A i \in 1 .. L : 0 <= taken[i]
  <2> HIDE DEF m
  <2> QED BY <1>3, <1>4
<1>6. PICK t \in [0 .. L -> Taking] :
        /\ Tally(levels, taken) = t[L] /\ t[0] = Nothing
        /\ \A i \in 1 .. L : t[i] = More(t[i - 1], taken[i], levels[i].price)
  BY <1>1, <1>5, TallyUnfolds
<1> DEFINE g == [i \in 1 .. L |-> Lesser(n - f[i - 1].filled, levels[i].quantity)]
           F == [i \in 0 .. L |-> f[i].filled]
           C == [i \in 0 .. L |-> IF descending THEN -f[i].notional ELSE f[i].notional]
           T == [i \in 0 .. L |-> t[i].filled]
           S == [i \in 0 .. L |-> IF descending THEN -t[i].notional ELSE t[i].notional]
<1>7. g \in [1 .. L -> Int]
  <2>1. \A i \in 1 .. L : i - 1 \in 0 .. L
    BY <1>1
  <2>2. \A i \in 1 .. L : f[i - 1].filled \in Int
    BY <2>1 DEF Taking
  <2> QED BY <1>1, <2>2 DEF Lesser
<1>8. Accumulates(F, C, g, w, L)
  <2>1. \A i \in 1 .. L : f[i] = More(f[i - 1], g[i], levels[i].price)
    BY <1>2
  <2> HIDE DEF g
  <2> QED BY <1>1, <1>2, <1>7, <2>1, TakingAccumulates
<1>9. Accumulates(T, S, taken, w, L)
  BY <1>1, <1>5, <1>6, TakingAccumulates
<1>10. q \in [1 .. L -> Nat] /\ w \in [1 .. L -> Int]
  BY <1>1 DEF Weight
<1>11. \A i, j \in 1 .. L : i < j => w[i] <= w[j]
  BY <1>1 DEF Sorted, Weight
<1>12. \A i \in 1 .. L : g[i] = Lesser(n - F[i - 1], q[i])
  <2>1. \A i \in 1 .. L : i - 1 \in 0 .. L
    BY <1>1
  <2> QED BY <2>1
<1>13. \A i \in 1 .. L : 0 <= taken[i] /\ taken[i] <= q[i]
  BY <1>3, <1>5
<1>14. T[L] = F[L]
  BY <1>1, <1>2, <1>3, <1>6
<1>15. C[L] <= S[L]
  <2> HIDE DEF L, m, q, w, g, F, C, T, S
  <2>1. TakesGreedily(F, C, g, w, L, n, q)
    BY <1>8, <1>12 DEF TakesGreedily
  <2>2. TakesSome(T, S, taken, w, L, q)
    BY <1>9, <1>13 DEF TakesSome
  <2>3. CheapestFirst(w, L)
    BY <1>11 DEF CheapestFirst
  <2>4. L \in Nat
    BY <1>1
  <2> QED BY <1>10, <1>14, <2>1, <2>2, <2>3, <2>4, GreedyIsLeast
<1>16. /\ C[L] = sign(Walk(levels, n).notional) /\ S[L] = sign(other)
       /\ Walk(levels, n).notional \in Int /\ other \in Int
  BY <1>1, <1>2, <1>3, <1>4, <1>6 DEF Taking
<1> HIDE DEF L, C, S
<1> QED BY <1>15, <1>16

-----------------------------------------------------------------------------
(* Every book the venue may come to hold is sorted. *)

SortedSnapshot(b) == b \in Snapshot /\ Sorted(b.bids, TRUE) /\ Sorted(b.asks, FALSE)

\* A side in the order of its sorted prices is sorted.
LEMMA LevelsSorted ==
  ASSUME NEW side, IsSide(side), NEW descending \in BOOLEAN,
         NEW prices, prices = SortedPrices(side, descending)
  PROVE  Sorted([i \in DOMAIN prices |-> [price |-> prices[i], quantity |-> side[prices[i]]]], descending)
<1> DEFINE n == Cardinality(DOMAIN side)
           levels == [i \in DOMAIN prices |-> [price |-> prices[i], quantity |-> side[prices[i]]]]
<1>1. /\ n \in Nat /\ prices \in [1 .. n -> DOMAIN side]
      /\ \A i, j \in 1 .. n : i < j => IF descending THEN prices[i] > prices[j] ELSE prices[i] < prices[j]
  BY PricesSorted
<1>2. DOMAIN prices = 1 .. n
  BY <1>1
<1>3. \A p \in DOMAIN side : p \in Nat /\ side[p] \in Nat
  BY DEF IsSide, Size
<1> HIDE DEF n
<1>4. \A i \in 1 .. n : [price |-> prices[i], quantity |-> side[prices[i]]] \in Level
  BY <1>1, <1>3 DEF Level
<1>5. levels \in [1 .. n -> Level]
  BY <1>2, <1>4
<1>6. levels \in Seq(Level) /\ Len(levels) = n
  <2> HIDE DEF levels
  <2> QED BY <1>1, <1>5
<1>7. \A i \in 1 .. n : levels[i].price = prices[i]
  BY <1>2
<1> HIDE DEF levels
<1>8. Sorted(levels, descending)
  BY <1>1, <1>6, <1>7 DEF Sorted
<1> QED BY <1>8 DEF levels

\* to_snapshot sorts, whatever order the levels came in.
LEMMA ToSnapshotSorts ==
  ASSUME NEW b, IsSide(b.bids), IsSide(b.asks), b.lastUpdateId \in Nat
  PROVE  SortedSnapshot(ToSnapshot(b))
<1> DEFINE levels(side, prices) ==
             [i \in DOMAIN prices |-> [price |-> prices[i], quantity |-> side[prices[i]]]]
           bids == levels(b.bids, SortedPrices(b.bids, TRUE))
           asks == levels(b.asks, SortedPrices(b.asks, FALSE))
<1>1. ToSnapshot(b) = [bids |-> bids, asks |-> asks, sequence |-> b.lastUpdateId]
  BY DEF ToSnapshot
<1>2. Sorted(bids, TRUE) /\ Sorted(asks, FALSE)
  BY LevelsSorted
<1> HIDE DEF bids, asks
<1>3. bids \in Seq(Level) /\ asks \in Seq(Level)
  BY <1>2 DEF Sorted
<1>4. ToSnapshot(b) \in Snapshot
  BY <1>1, <1>3 DEF Snapshot
<1>5. ToSnapshot(b).bids = bids /\ ToSnapshot(b).asks = asks
  BY <1>1
<1> QED BY <1>2, <1>4, <1>5 DEF SortedSnapshot

LEMMA NoBookSorted == SortedSnapshot(NoBook)
<1>1. <<>> \in Seq(Level) /\ Len(<<>>) = 0
  OBVIOUS
<1>2. Sorted(<<>>, TRUE) /\ Sorted(<<>>, FALSE)
  BY <1>1 DEF Sorted
<1> QED BY <1>1, <1>2 DEF SortedSnapshot, NoBook, Snapshot

\* The receiver thread's book is one, messages change it into one, and what
\* was handed over, run or not, is sorted.
BooksSorted ==
  /\ IsSide(book.bids) /\ IsSide(book.asks)
  /\ \A i \in DOMAIN wire : IsChange(wire[i].bids) /\ IsChange(wire[i].asks)
  /\ \A i \in DOMAIN queue : SortedSnapshot(queue[i].event)
  /\ SortedSnapshot(latestBook)

LEMMA SideIsChange == \A side : IsSide(side) => IsChange(side)
BY DEF IsSide, IsChange, Size

LEMMA StartSendsSides ==
  ASSUME StreamInv, wire' = <<SnapshotMessage>>
  PROVE  \A i \in DOMAIN wire' : IsChange(wire'[i].bids) /\ IsChange(wire'[i].asks)
<1>1. DOMAIN wire' = {1} /\ wire'[1] = SnapshotMessage
  BY OneMessage
<1>2. IsChange(exchange.bids) /\ IsChange(exchange.asks)
  BY SideIsChange DEF StreamInv, IsExchange
<1> QED BY <1>1, <1>2 DEF SnapshotMessage

LEMMA MoveSendsChanges ==
  ASSUME StreamInv, BooksSorted, NEW m \in Moves, Move(m)
  PROVE  \A i \in DOMAIN wire' : IsChange(wire'[i].bids) /\ IsChange(wire'[i].asks)
<1> DEFINE change(side) == IF m.side = side THEN [p \in {m.price} |-> m.size] ELSE <<>>
           delta == [type |-> "delta", u |-> exchange'.u, bids |-> change("bids"),
                     asks |-> change("asks"), truth |-> Sides(exchange')]
<1>1. wire' = Append(wire, delta) \/ wire' = wire
  BY DEF Move
<1>2. m.size \in Size /\ m.price \in Nat
  BY BookFeedAssumption
<1>3. IsChange([p \in {m.price} |-> m.size])
  BY <1>2, FS_Singleton DEF IsChange
<1>4. IsChange(<<>>)
  BY EmptyIsASide, SideIsChange DEF EmptySide
<1>5. IsChange(delta.bids) /\ IsChange(delta.asks)
  BY <1>3, <1>4
<1> HIDE DEF delta
<1>6. CASE wire' = wire
  BY <1>6 DEF BooksSorted
<1>7. CASE wire' = Append(wire, delta)
  <2>1. /\ Len(wire) \in Nat /\ DOMAIN wire = 1 .. Len(wire) /\ DOMAIN wire' = 1 .. Len(wire) + 1
        /\ \A i \in 1 .. Len(wire) : wire'[i] = wire[i]
        /\ wire'[Len(wire) + 1] = delta
    BY <1>7, AppendedSequence DEF StreamInv
  <2> TAKE i \in DOMAIN wire'
  <2>2. i \in 1 .. Len(wire) \/ i = Len(wire) + 1
    BY <2>1
  <2> QED BY <1>5, <2>1, <2>2 DEF BooksSorted
<1> QED BY <1>1, <1>6, <1>7

LEMMA CallKeepsSorted ==
  ASSUME Alternates, BooksSorted, Called("strategy") \/ Called("venue")
  PROVE  \A i \in DOMAIN queue' : SortedSnapshot(queue'[i].event)
<1>1. queue # <<>> /\ queue' = Tail(queue) /\ IsSequence(queue)
  BY DEF Called, Alternates
<1>2. /\ Len(queue) \in Nat /\ DOMAIN queue = 1 .. Len(queue) /\ DOMAIN queue' = 1 .. Len(queue) - 1
      /\ \A i \in 1 .. Len(queue) - 1 : queue'[i] = queue[i + 1]
  BY <1>1, TailSequence
<1> TAKE i \in DOMAIN queue'
<1>3. i + 1 \in DOMAIN queue /\ queue'[i] = queue[i + 1]
  BY <1>2
<1> QED BY <1>3 DEF BooksSorted

LEMMA ReceiveKeepsSorted ==
  ASSUME StreamInv, Alternates, BooksSorted, Receive
  PROVE  /\ IsSide(book'.bids) /\ IsSide(book'.asks)
         /\ \A i \in DOMAIN wire' : IsChange(wire'[i].bids) /\ IsChange(wire'[i].asks)
         /\ \A i \in DOMAIN queue' : SortedSnapshot(queue'[i].event)
<1> DEFINE msg == Head(wire)
           event == ToSnapshot(book')
           calls == <<[callback |-> "strategy", event |-> event], [callback |-> "venue", event |-> event]>>
<1>1. /\ wire # <<>> /\ phase = "streaming" /\ book' = Apply(msg) /\ wire' = Tail(wire)
      /\ queue' = queue \o Dispatch(event)
  BY DEF Receive
<1>2. /\ Len(wire) \in Nat \ {0} /\ msg = wire[1]
      /\ DOMAIN wire = 1 .. Len(wire) /\ DOMAIN wire' = 1 .. Len(wire) - 1
      /\ \A i \in 1 .. Len(wire) - 1 : wire'[i] = wire[i + 1]
  BY <1>1, TailSequence DEF StreamInv
<1>3. IsChange(msg.bids) /\ IsChange(msg.asks) /\ msg.u \in Nat
  <2>1. 1 \in DOMAIN wire
    BY <1>2
  <2> QED BY <1>2, <2>1 DEF BooksSorted, StreamInv, WireFollows, Tells
<1> HIDE DEF msg
<1>4. IsSide(Base(msg).bids) /\ IsSide(Base(msg).asks)
  BY EmptyIsASide DEF Base, EmptySide, BooksSorted, Sides
<1>5. IsSide(book'.bids) /\ IsSide(book'.asks) /\ book'.lastUpdateId \in Nat
  <2>1. /\ book'.bids = ApplySide(Base(msg).bids, msg.bids) /\ book'.asks = ApplySide(Base(msg).asks, msg.asks)
        /\ book'.lastUpdateId = msg.u
    BY <1>1 DEF Apply
  <2> QED BY <1>3, <1>4, <2>1, ApplyKeepsSide
<1>6. SortedSnapshot(event)
  BY <1>5, ToSnapshotSorts
<1> HIDE DEF event
<1>7. Dispatch(event) = calls
  BY <1>1 DEF Dispatch, Alternates
<1>8. ASSUME NEW i \in DOMAIN wire' PROVE IsChange(wire'[i].bids) /\ IsChange(wire'[i].asks)
  <2>1. i + 1 \in DOMAIN wire /\ wire'[i] = wire[i + 1]
    BY <1>2
  <2> QED BY <2>1 DEF BooksSorted
<1>9. ASSUME NEW i \in DOMAIN queue' PROVE SortedSnapshot(queue'[i].event)
  <2>1. PICK S : queue \in Seq(S)
    BY DEF Alternates, IsSequence
  <2>2. queue \in Seq(S \cup {calls[1], calls[2]}) /\ calls \in Seq(S \cup {calls[1], calls[2]}) /\ Len(calls) = 2
    BY <2>1
  <2>3. /\ Len(queue) \in Nat
        /\ DOMAIN queue = 1 .. Len(queue) /\ DOMAIN queue' = 1 .. Len(queue) + 2
        /\ \A k \in 1 .. Len(queue) : queue'[k] = queue[k]
        /\ queue'[Len(queue) + 1] = calls[1] /\ queue'[Len(queue) + 2] = calls[2]
    BY <1>1, <1>7, <2>2
  <2>4. calls[1].event = event /\ calls[2].event = event
    OBVIOUS
  <2>5. i \in 1 .. Len(queue) \/ i = Len(queue) + 1 \/ i = Len(queue) + 2
    BY <2>3
  <2> HIDE DEF calls
  <2> QED BY <1>6, <2>3, <2>4, <2>5 DEF BooksSorted
<1> QED BY <1>5, <1>8, <1>9

LEMMA BooksSortedStep == StreamInv /\ Alternates /\ BooksSorted /\ [Next]_vars => BooksSorted'
<1> SUFFICES ASSUME StreamInv, Alternates, BooksSorted, [Next]_vars PROVE BooksSorted'
  OBVIOUS
<1>1. ASSUME NEW m \in Moves, Move(m), UNCHANGED latestBook PROVE BooksSorted'
  BY <1>1, MoveSendsChanges DEF Move, BooksSorted
<1>2. CASE Reconnect /\ UNCHANGED latestBook
  BY <1>2, StartSendsSides DEF Reconnect, BooksSorted
<1>3. CASE Receive /\ UNCHANGED latestBook
  BY <1>3, ReceiveKeepsSorted DEF BooksSorted
<1>4. CASE StartFeed /\ UNCHANGED latestBook
  BY <1>4, StartSendsSides DEF StartFeed, BooksSorted
<1>5. CASE (StopFeed \/ Exit) /\ UNCHANGED latestBook
  <2>1. DOMAIN <<>> = {}
    OBVIOUS
  <2> QED BY <1>5, <2>1 DEF StopFeed, Exit, BooksSorted
<1>6. ASSUME Called("strategy") \/ Called("venue"),
             latestBook' = latestBook \/ latestBook' = Head(queue).event
      PROVE  BooksSorted'
  <2>1. UNCHANGED <<book, wire>>
    BY <1>6 DEF Called
  <2>2. \A i \in DOMAIN queue' : SortedSnapshot(queue'[i].event)
    BY <1>6, CallKeepsSorted
  <2>3. SortedSnapshot(Head(queue).event)
    <3>1. 1 \in DOMAIN queue /\ Head(queue) = queue[1]
      BY <1>6, TailSequence DEF Called, Alternates
    <3> QED BY <3>1 DEF BooksSorted
  <2> QED BY <1>6, <2>1, <2>2, <2>3 DEF BooksSorted
<1>7. CASE UNCHANGED <<book, wire, queue, latestBook>>
  BY <1>7 DEF BooksSorted
<1>8. CASE Loop
  BY <1>6, <1>7, <1>8 DEF Loop, StrategySubmits, StrategyWaits, VenueTicks, FillNext, Called
<1>9. CASE UNCHANGED vars
  BY <1>7, <1>9 DEF vars, feedVars
<1> QED BY <1>1, <1>2, <1>3, <1>4, <1>5, <1>8, <1>9 DEF Next, Outside, Start, Stop, LoopEnds

LEMMA BooksSortedHolds == Spec => []BooksSorted
<1>1. Init => BooksSorted
  <2> SUFFICES ASSUME Init PROVE BooksSorted
    OBVIOUS
  <2>1. /\ wire = <<>> /\ queue = <<>> /\ latestBook = NoBook
        /\ book.bids = EmptySide /\ book.asks = EmptySide
    BY DEF Init, FeedInit, AccountInit, EmptySide
  <2>2. DOMAIN <<>> = {}
    OBVIOUS
  <2> QED BY <2>1, <2>2, EmptyIsASide, NoBookSorted DEF BooksSorted
<1> QED BY <1>1, BooksSortedStep, StreamInvHolds, AlternatesHolds, PTL DEF Spec

\* On whatever book the venue holds, a market order gets the best that book
\* has for its quantity, for any moves of the exchange's book and any number
\* of lost connections and of changes not told.
THEOREM MarketOrdersFillAtBest == Spec => []FillsAreBest
<1>1. BooksSorted => FillsAreBest
  <2> SUFFICES ASSUME BooksSorted, NEW n \in {intent.quantity : intent \in Intents}
               PROVE  /\ \A cost \in Notionals(latestBook.asks, Walk(latestBook.asks, n).filled) :
                            Walk(latestBook.asks, n).notional <= cost
                      /\ \A proceeds \in Notionals(latestBook.bids, Walk(latestBook.bids, n).filled) :
                            Walk(latestBook.bids, n).notional >= proceeds
    BY DEF FillsAreBest
  <2>1. n \in Nat
    BY PaperTradingAssumption
  <2>2. Sorted(latestBook.asks, FALSE) /\ Sorted(latestBook.bids, TRUE)
    BY DEF BooksSorted, SortedSnapshot
  <2> QED BY <2>1, <2>2, WalkIsBest
<1> QED BY <1>1, BooksSortedHolds, PTL

-----------------------------------------------------------------------------
(* The account under the fills of the engines. *)

Order == [side : {"BUY", "SELL"}, type : {"MARKET", "LIMIT"}, price : Nat, quantity : Nat \ {0},
          filled : Nat, open : BOOLEAN]

\* An open order has something left to fill.
OrdersSound ==
  /\ orders \in Seq(Order)
  /\ \A o \in DOMAIN orders : orders[o].open => orders[o].filled < orders[o].quantity
  /\ running.book \in Snapshot

\* Dividing what is not negative gives nothing negative.
LEMMA DividedNat ==
  ASSUME NEW a \in Nat, NEW n \in Nat \ {0}
  PROVE  Divided(a, n) \in Nat
<1>1. a \div n \in Nat
  OBVIOUS
<1> QED BY <1>1 DEF Divided

\* A walk takes no more than asked, at no negative price.
LEMMA WalkTyped ==
  ASSUME NEW levels \in Seq(Level), NEW n \in Nat
  PROVE  Walk(levels, n).filled \in 0 .. n /\ Walk(levels, n).notional \in Nat
<1> DEFINE L == Len(levels)
<1>1. L \in Nat /\ \A i \in 1 .. L : levels[i].price \in Nat /\ levels[i].quantity \in Nat
  BY LevelTypes
<1>2. PICK f \in [0 .. L -> Taking] :
        /\ Walk(levels, n) = f[L] /\ f[0] = Nothing
        /\ \A i \in 1 .. L :
             f[i] = More(f[i - 1], Lesser(n - f[i - 1].filled, levels[i].quantity), levels[i].price)
  BY WalkUnfolds
<1> HIDE DEF L
<1> DEFINE Holds == {i \in 0 .. L : f[i].filled \in 0 .. n /\ f[i].notional \in Nat}
<1>3. 0 \in Holds
  BY <1>1, <1>2 DEF Nothing
<1>4. ASSUME NEW i \in 1 .. L, i - 1 \in Holds PROVE i \in Holds
  <2> DEFINE take == Lesser(n - f[i - 1].filled, levels[i].quantity)
  <2>1. f[i - 1].filled \in 0 .. n /\ f[i - 1].notional \in Nat
    BY <1>4
  <2>2. levels[i].price \in Nat /\ levels[i].quantity \in Nat /\ i \in 0 .. L
    BY <1>1
  <2>3. take \in Nat /\ f[i - 1].filled + take \in 0 .. n
    BY <2>1, <2>2 DEF Lesser
  <2>4. f[i].filled = f[i - 1].filled + take /\ f[i].notional = f[i - 1].notional + take * levels[i].price
    <3>1. f[i] = More(f[i - 1], take, levels[i].price)
      BY <1>2
    <3> HIDE DEF take
    <3> QED BY <3>1 DEF More
  <2> HIDE DEF take
  <2>5. take * levels[i].price \in Nat
    BY <2>2, <2>3
  <2>6. f[i].filled \in 0 .. n /\ f[i].notional \in Nat
    BY <2>1, <2>3, <2>4, <2>5
  <2> QED BY <2>2, <2>6
<1>5. 0 .. L \subseteq Holds
  <2> HIDE DEF Holds
  <2> QED BY <1>1, <1>3, <1>4, UpTo
<1>6. L \in Holds
  BY <1>1, <1>5
<1> QED BY <1>2, <1>6

\* Whatever an engine makes of an open order is a fill.
LEMMA EngineFills ==
  ASSUME NEW order \in Order, order.filled < order.quantity, NEW b \in Snapshot,
         NEW fill \in TryFill(order, b)
  PROVE  fill \in Fill
<1> DEFINE levels == Opposite(order.side, b)
           remaining == order.quantity - order.filled
<1>1. /\ order.side \in {"BUY", "SELL"} /\ order.type \in {"MARKET", "LIMIT"} /\ order.price \in Nat
      /\ remaining \in Nat \ {0}
  BY DEF Order
<1>2. levels \in Seq(Level)
  BY DEF Opposite, Snapshot
<1> HIDE DEF levels, remaining
<1>3. CASE fill \in ImmediateFills(order, b)
  <2>1. levels # <<>> /\ fill = [side |-> order.side, price |-> levels[1].price, quantity |-> remaining, fee |-> 0]
    BY <1>3 DEF ImmediateFills, levels, remaining
  <2>2. levels[1].price \in Nat
    <3>1. 1 \in 1 .. Len(levels)
      BY <1>2, <2>1
    <3> QED BY <1>2, <3>1, LevelTypes
  <2> QED BY <1>1, <2>1, <2>2 DEF Fill
<1>4. CASE fill \in OrderbookFills(order, b)
  <2> DEFINE walked == Walk(levels, remaining)
             Filled(price, n, rate) ==
               [side |-> order.side, price |-> price, quantity |-> n, fee |-> Divided(price * n * rate, FeeUnit)]
  <2>1. \/ walked.filled # 0 /\ fill = Filled(Divided(walked.notional, walked.filled), walked.filled, TakerFee)
        \/ fill = Filled(order.price, remaining, MakerFee)
    BY <1>1, <1>4 DEF OrderbookFills, levels, remaining
  <2>2. ASSUME NEW price \in Nat, NEW n \in Nat \ {0}, NEW rate \in Nat
        PROVE  Filled(price, n, rate) \in Fill
    <3>1. price * n \in Nat
      OBVIOUS
    <3>2. price * n * rate \in Nat
      BY <3>1
    <3>3. Divided(price * n * rate, FeeUnit) \in Nat
      BY <3>2, DividedNat, PaperTradingAssumption
    <3> QED BY <1>1, <3>3 DEF Fill
  <2>3. walked.filled \in 0 .. remaining /\ walked.notional \in Nat
    BY <1>1, <1>2, WalkTyped
  <2> HIDE DEF walked, Filled
  <2>4. walked.filled # 0 => Divided(walked.notional, walked.filled) \in Nat /\ walked.filled \in Nat \ {0}
    BY <1>1, <2>3, DividedNat
  <2>5. MakerFee \in Nat /\ TakerFee \in Nat
    BY PaperTradingAssumption
  <2> QED BY <1>1, <2>1, <2>2, <2>4, <2>5
<1> QED BY <1>3, <1>4 DEF TryFill

LEMMA RunsSound ==
  ASSUME NEW callback, NEW b \in Snapshot, NEW tried, NEW placed, Runs(callback, b, tried, placed)
  PROVE  running'.book \in Snapshot
<1>1. NoBook \in Snapshot
  BY NoBookSorted DEF SortedSnapshot
<1> QED BY <1>1 DEF Runs, Idle

\* One more order filled: a fill, and the order is still sound.
LEMMA FillNextFills ==
  ASSUME OrdersSound, NEW o \in DOMAIN orders, FillNext(o)
  PROVE  /\ OrdersSound'
         /\ \E fill \in Fill : TakeFill(fill) /\ UNCHANGED latestBook
<1>1. /\ orders \in Seq(Order) /\ running.book \in Snapshot
      /\ \A k \in DOMAIN orders : orders[k] \in Order /\ (orders[k].open => orders[k].filled < orders[k].quantity)
  BY DEF OrdersSound
<1>2. orders[o].open
  <2>1. o \in Fillable(orders, running.rest, running.book)
    BY DEF FillNext
  <2> QED BY <2>1 DEF Fillable
<1>3. PICK fill \in TryFill(orders[o], running.book) :
        /\ TakeFill(fill)
        /\ orders' = [orders EXCEPT ![o].filled = orders[o].filled + fill.quantity,
                                    ![o].open = orders[o].filled + fill.quantity < orders[o].quantity]
  BY DEF FillNext
<1>4. fill \in Fill
  BY <1>1, <1>2, <1>3, EngineFills
<1> DEFINE filled == orders[o].filled + fill.quantity
           open == filled < orders[o].quantity
           new == [orders[o] EXCEPT !.filled = filled, !.open = open]
<1>5. orders[o] \in Order /\ orders[o].filled \in Nat /\ orders[o].quantity \in Nat /\ fill.quantity \in Nat
  BY <1>1, <1>4 DEF Order, Fill
<1>6. filled \in Nat
  BY <1>5
<1>7. orders' = [orders EXCEPT ![o] = new]
  BY <1>1, <1>3
<1>8. new \in Order /\ (new.open => new.filled < new.quantity)
  <2>1. open \in BOOLEAN /\ (open => filled < orders[o].quantity)
    OBVIOUS
  <2> HIDE DEF open, filled
  <2>2. new \in Order
    BY <1>5, <1>6, <2>1 DEF Order
  <2>3. new.open = open /\ new.filled = filled /\ new.quantity = orders[o].quantity
    BY <1>5 DEF Order
  <2> HIDE DEF new
  <2> QED BY <2>1, <2>2, <2>3
<1> HIDE DEF new
<1>9. orders' \in Seq(Order) /\ DOMAIN orders' = DOMAIN orders
  BY <1>1, <1>7, <1>8
<1>10. \A k \in DOMAIN orders' : orders'[k].open => orders'[k].filled < orders'[k].quantity
  <2> TAKE k \in DOMAIN orders'
  <2>1. CASE k = o
    BY <1>1, <1>7, <1>8, <2>1
  <2>2. CASE k # o
    BY <1>1, <1>7, <1>9, <2>2
  <2> QED BY <2>1, <2>2
<1>11. running'.book \in Snapshot
  <2>1. NoBook \in Snapshot
    BY NoBookSorted DEF SortedSnapshot
  <2> QED BY <1>1, <2>1 DEF FillNext, Runs, Idle
<1>12. UNCHANGED latestBook
  BY DEF FillNext
<1> QED BY <1>3, <1>4, <1>9, <1>10, <1>11, <1>12 DEF OrdersSound

LEMMA SubmitSound ==
  ASSUME OrdersSound, BooksSorted, NEW intent \in Intents, StrategySubmits(intent)
  PROVE  OrdersSound'
<1> DEFINE new == [side |-> IF Len(orders) % 2 = 0 THEN "BUY" ELSE "SELL",
                   type |-> intent.type, price |-> intent.price,
                   quantity |-> intent.quantity, filled |-> 0, open |-> TRUE]
<1>1. orders' = Append(orders, new) /\ Runs("strategy", latestBook, {Len(orders')}, orders')
  BY DEF StrategySubmits
<1>2. /\ intent.type \in {"MARKET", "LIMIT"} /\ intent.price \in Nat /\ intent.quantity \in Nat \ {0}
  BY PaperTradingAssumption
<1>3. new \in Order /\ new.filled < new.quantity
  BY <1>2 DEF Order
<1> HIDE DEF new
<1>4. /\ orders \in Seq(Order)
      /\ \A k \in DOMAIN orders : orders[k].open => orders[k].filled < orders[k].quantity
  BY DEF OrdersSound
<1>5. /\ orders' \in Seq(Order) /\ Len(orders) \in Nat /\ DOMAIN orders = 1 .. Len(orders)
      /\ DOMAIN orders' = 1 .. Len(orders) + 1
      /\ \A k \in 1 .. Len(orders) : orders'[k] = orders[k]
      /\ orders'[Len(orders) + 1] = new
  BY <1>1, <1>3, <1>4
<1>6. \A k \in DOMAIN orders' : orders'[k].open => orders'[k].filled < orders'[k].quantity
  <2> TAKE k \in DOMAIN orders'
  <2>1. k \in 1 .. Len(orders) \/ k = Len(orders) + 1
    BY <1>5
  <2> QED BY <1>3, <1>4, <1>5, <2>1
<1>7. latestBook \in Snapshot
  BY DEF BooksSorted, SortedSnapshot
<1>8. running'.book \in Snapshot
  BY <1>1, <1>7, RunsSound
<1> QED BY <1>5, <1>6, <1>8 DEF OrdersSound

LEMMA StopSound ==
  ASSUME OrdersSound, Stop
  PROVE  OrdersSound'
<1>1. /\ orders \in Seq(Order) /\ running.book \in Snapshot
      /\ orders' = [o \in DOMAIN orders |-> [orders[o] EXCEPT !.open = FALSE]] /\ running' = running
  BY DEF OrdersSound, Stop
<1>2. \A o \in DOMAIN orders : [orders[o] EXCEPT !.open = FALSE] \in Order
  <2> TAKE o \in DOMAIN orders
  <2>1. orders[o] \in Order
    BY <1>1
  <2> QED BY <2>1 DEF Order
<1>3. orders' \in Seq(Order)
  BY <1>1, <1>2
<1>4. \A o \in DOMAIN orders' : orders'[o].open = FALSE
  <2> TAKE o \in DOMAIN orders'
  <2>1. orders[o] \in Order /\ orders'[o] = [orders[o] EXCEPT !.open = FALSE]
    BY <1>1
  <2> QED BY <2>1 DEF Order
<1> QED BY <1>1, <1>3, <1>4 DEF OrdersSound

LEMMA OrdersSoundStep == BooksSorted /\ BooksSorted' /\ OrdersSound /\ [Next]_vars => OrdersSound'
<1> SUFFICES ASSUME BooksSorted, BooksSorted', OrdersSound, [Next]_vars PROVE OrdersSound'
  OBVIOUS
<1>1. CASE UNCHANGED <<orders, running>>
  BY <1>1 DEF OrdersSound
<1>2. CASE VenueTicks
  <2>1. latestBook' \in Snapshot
    BY DEF BooksSorted, SortedSnapshot
  <2>2. UNCHANGED orders /\ running'.book \in Snapshot
    BY <1>2, <2>1, RunsSound DEF VenueTicks
  <2> QED BY <2>2 DEF OrdersSound
<1>3. CASE StrategyWaits \/ Outside \/ Start \/ LoopEnds \/ UNCHANGED vars
  BY <1>1, <1>3 DEF StrategyWaits, Outside, Start, LoopEnds, vars, tradingVars
<1> QED BY <1>2, <1>3, SubmitSound, StopSound, FillNextFills DEF Next, Loop

LEMMA TradingInvHolds == Spec => [](BooksSorted /\ OrdersSound)
<1>1. Init => OrdersSound
  <2> SUFFICES ASSUME Init PROVE OrdersSound
    OBVIOUS
  <2>1. orders = <<>> /\ running.book = NoBook
    BY DEF Init, Idle
  <2>2. NoBook \in Snapshot
    BY NoBookSorted DEF SortedSnapshot
  <2>3. <<>> \in Seq(Order) /\ DOMAIN <<>> = {}
    OBVIOUS
  <2> QED BY <2>1, <2>2, <2>3 DEF OrdersSound
<1> QED BY <1>1, OrdersSoundStep, BooksSortedHolds, PTL DEF Spec

\* Every step is one of the account, or leaves it alone.
LEMMA StepsOfTheAccount ==
  BooksSorted' /\ OrdersSound /\ [Next]_vars => [AccountNext]_<<accountVars, latestBook>>
<1> SUFFICES ASSUME BooksSorted', OrdersSound, [Next]_vars
             PROVE  [AccountNext]_<<accountVars, latestBook>>
  OBVIOUS
<1>1. CASE VenueTicks
  <2>1. latestBook' \in Snapshot
    BY DEF BooksSorted, SortedSnapshot
  <2>2. UNCHANGED accountVars
    BY <1>1 DEF VenueTicks, Called
  <2> QED BY <2>1, <2>2 DEF AccountNext
<1>2. ASSUME NEW o \in DOMAIN orders, FillNext(o) PROVE AccountNext
  BY <1>2, FillNextFills DEF AccountNext
<1>3. CASE \/ (\E intent \in Intents : StrategySubmits(intent)) \/ StrategyWaits
           \/ Outside \/ Start \/ Stop \/ LoopEnds \/ UNCHANGED vars
  BY <1>3 DEF StrategySubmits, StrategyWaits, Called, Outside, Start, Stop, LoopEnds, vars
<1> QED BY <1>1, <1>2, <1>3 DEF Next, Loop

\* What the feed and the engines do to the account are fills and books as
\* PaperAccount takes them: no fill of nothing, none at a negative price or
\* fee, and none for an order that is filled.
THEOREM TradingImplementsAccount == Spec => AccountSpec
<1>1. Init => AccountInit
  BY DEF Init
<1> QED BY <1>1, StepsOfTheAccount, TradingInvHolds, PTL DEF Spec, AccountSpec

\* The balance the venue reports while it trades on live data is the initial
\* one, plus what the engines' fills paid and brought in, plus the worth of the
\* position it reports, up to the rounding of averaged entry prices.
THEOREM TradingConservesMoney == Spec => []MoneyConserved
BY TradingImplementsAccount, MoneyIsConserved, PTL

=============================================================================
