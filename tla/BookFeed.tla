------------------------------ MODULE BookFeed ------------------------------
(***************************************************************************)
(* LiveMarketDataSource (market_data/live.py) between the exchange and its *)
(* subscribers, for one symbol.                                            *)
(*                                                                         *)
(* The exchange sends its book once and then what changes, each message    *)
(* with the next update id.  pybit's receiver thread applies the messages  *)
(* to a book of its own and hands a sorted snapshot per subscriber to the  *)
(* asyncio loop, which runs the callbacks in the order they were handed    *)
(* over.  A side of a book is a function from the prices present to sizes. *)
(***************************************************************************)
EXTENDS Integers, Sequences, SequencesExt

CONSTANTS
  InitialBooks,   \* what the exchange's book may be when the stream begins
  Moves,          \* what may happen to it: a new size at one price of one side
  MaxUpdates,     \* bound: the last update id
  MaxReconnects,  \* bound: connections lost and made again
  MaxGaps,        \* bound: changes the stream says nothing of
  MaxRaises       \* bound: subscriber callbacks that raise

Size == Nat

\* Finitely many prices, and a level that is present has a size.
IsSide(side) ==
  /\ side = [p \in DOMAIN side |-> side[p]]
  /\ DOMAIN side \subseteq Nat /\ IsFiniteSet(DOMAIN side)
  /\ \A p \in DOMAIN side : side[p] \in Size \ {0}

ASSUME BookFeedAssumption ==
  /\ \A b \in InitialBooks : IsSide(b.bids) /\ IsSide(b.asks)
  /\ Moves \subseteq [side : {"bids", "asks"}, price : Nat, size : Size]
  /\ MaxUpdates \in Nat /\ MaxReconnects \in Nat /\ MaxGaps \in Nat /\ MaxRaises \in Nat

VARIABLES
  exchange,   \* the exchange's own book and its update id
  wire,       \* messages on the way to the receiver thread, oldest first
  phase,      \* "wiring", then "streaming" from start, "stopped" from stop,
              \* "exited" when the loop has ended
  subs,       \* _ob_subs[symbol], in the order they subscribed
  book,       \* _books[symbol]; "truth" is auxiliary, the book the exchange
              \* had at the last message
  queue,      \* callbacks the loop has yet to run, oldest first
  faults,     \* reconnects, gaps and raises so far
  gap         \* auxiliary: a change was missed since the last snapshot message

feedVars == <<exchange, wire, phase, subs, book, queue, faults, gap>>

-----------------------------------------------------------------------------
(* The exchange. *)

Sides(b) == [bids |-> b.bids, asks |-> b.asks]

\* The side with the level at a price set, or gone.
Moved(side, price, size) ==
  [p \in (DOMAIN side \cup {price}) \ (IF size = 0 THEN {price} ELSE {}) |->
     IF p = price THEN size ELSE side[p]]

SnapshotMessage ==
  [type |-> "snapshot", u |-> exchange.u, bids |-> exchange.bids,
   asks |-> exchange.asks, truth |-> Sides(exchange)]

\* The book changes and the stream says how.
Move(m) ==
  /\ phase = "streaming" /\ exchange.u < MaxUpdates
  /\ m.size # IF m.price \in DOMAIN exchange[m.side] THEN exchange[m.side][m.price] ELSE 0
  /\ exchange' = [exchange EXCEPT ![m.side] = Moved(@, m.price, m.size), !.u = @ + 1]
  /\ LET change(side) == IF m.side = side THEN [p \in {m.price} |-> m.size] ELSE <<>>
         delta == [type |-> "delta", u |-> exchange'.u, bids |-> change("bids"),
                   asks |-> change("asks"), truth |-> Sides(exchange')]
     IN  \/ wire' = Append(wire, delta) /\ UNCHANGED faults
         \/ /\ faults.gaps < MaxGaps
            /\ faults' = [faults EXCEPT !.gaps = @ + 1]
            /\ UNCHANGED wire
  /\ UNCHANGED <<phase, subs, book, queue, gap>>

\* The connection is lost with what was on the way; pybit connects and
\* subscribes again, and the stream begins with the whole book.
Reconnect ==
  /\ phase = "streaming" /\ faults.reconnects < MaxReconnects
  /\ faults' = [faults EXCEPT !.reconnects = @ + 1]
  /\ wire' = <<SnapshotMessage>>
  /\ UNCHANGED <<exchange, phase, subs, book, queue, gap>>

-----------------------------------------------------------------------------
(* _OrderbookState *)

\* _apply_side: a size of "0" deletes the level.
ApplySide(side, changes) ==
  LET size(p) == IF p \in DOMAIN changes THEN changes[p] ELSE side[p]
  IN  [p \in {p \in DOMAIN side \cup DOMAIN changes : size(p) > 0} |-> size(p)]

MergeSnapshot(msg) == Sides(book)   \* mutant: a snapshot does not clear the book

\* A snapshot message starts from an empty book, a delta from what there is.
Base(msg) ==
  IF msg.type = "snapshot" THEN [bids |-> <<>>, asks |-> <<>>] ELSE Sides(book)

\* apply: an update id that does not increase is only logged, one that leaves
\* ids out is not even that.
Apply(msg) ==
  LET base == Base(msg)
  IN  [bids |-> ApplySide(base.bids, msg.bids), asks |-> ApplySide(base.asks, msg.asks),
       lastUpdateId |-> msg.u, truth |-> msg.truth]

AscendingPrices(side, descending) ==   \* mutant: both sides in the same order
  CHOOSE s \in [1 .. Cardinality(DOMAIN side) -> DOMAIN side] :
    \A i, j \in DOMAIN s : i < j => s[i] < s[j]

\* The prices of a side, best first.
SortedPrices(side, descending) ==
  CHOOSE s \in [1 .. Cardinality(DOMAIN side) -> DOMAIN side] :
    \A i, j \in DOMAIN s : i < j => IF descending THEN s[i] > s[j] ELSE s[i] < s[j]

\* to_snapshot: bids descending, asks ascending, whatever order they came in.
ToSnapshot(b) ==
  LET levels(side, prices) ==
        [i \in DOMAIN prices |-> [price |-> prices[i], quantity |-> side[prices[i]]]]
  IN  [bids     |-> levels(b.bids, SortedPrices(b.bids, TRUE)),
       asks     |-> levels(b.asks, SortedPrices(b.asks, FALSE)),
       sequence |-> b.lastUpdateId]

-----------------------------------------------------------------------------
(* LiveMarketDataSource *)

DispatchBackwards(event) ==   \* mutant: the last to subscribe is served first
  [i \in DOMAIN subs |-> [callback |-> subs[Len(subs) + 1 - i], event |-> event]]

DispatchFirst(event) == <<[callback |-> subs[1], event |-> event]>>   \* mutant

\* _dispatch: one call of the loop per subscriber.
Dispatch(event) == [i \in DOMAIN subs |-> [callback |-> subs[i], event |-> event]]

\* The handler of orderbook_stream, on the receiver thread.
Receive ==
  /\ phase = "streaming" /\ wire # <<>>
  /\ LET msg == Head(wire)
     IN  /\ book' = Apply(msg)
         /\ gap' = (msg.type = "delta" /\ (gap \/ msg.u # book.lastUpdateId + 1))
  /\ wire' = Tail(wire)
  /\ queue' = queue \o Dispatch(ToSnapshot(book'))
  /\ UNCHANGED <<exchange, phase, subs, faults>>

\* subscribe_orderbook: raises once the source has started.
Subscribe(callback) == phase = "wiring" /\ subs' = Append(subs, callback)

\* The venue subscribes in its start, which the supervisor awaits just before
\* the source's own; the strategy has subscribed when it was built.
StartFeed ==
  /\ Subscribe("venue")
  /\ phase' = "streaming"
  /\ wire' = <<SnapshotMessage>>
  /\ UNCHANGED <<exchange, book, queue, faults, gap>>

\* ws.exit: nothing more is received; what the loop has yet to run stays.
StopFeed ==
  /\ phase = "streaming"
  /\ phase' = "stopped"
  /\ wire' = <<>>
  /\ UNCHANGED <<exchange, subs, book, queue, faults, gap>>

\* asyncio.run ends the loop with callbacks still to be run.
Exit ==
  /\ phase = "stopped"
  /\ phase' = "exited"
  /\ queue' = <<>>
  /\ UNCHANGED <<exchange, wire, subs, book, faults, gap>>

-----------------------------------------------------------------------------
(* The subscribers. *)

\* _safe_call: a callback that raises becomes an ALERT to the router, and the
\* loop goes on with the next one.
CallbackRaises ==
  /\ faults.raises < MaxRaises
  /\ faults' = [faults EXCEPT !.raises = @ + 1]

-----------------------------------------------------------------------------

FeedInit ==
  /\ exchange \in {[bids |-> b.bids, asks |-> b.asks, u |-> 1] : b \in InitialBooks}
  /\ wire = <<>>
  /\ phase = "wiring"
  /\ subs = <<"strategy">>
  /\ book = [bids |-> <<>>, asks |-> <<>>, lastUpdateId |-> 0,
             truth |-> [bids |-> <<>>, asks |-> <<>>]]
  /\ queue = <<>>
  /\ faults = [reconnects |-> 0, gaps |-> 0, raises |-> 0]
  /\ gap = FALSE

-----------------------------------------------------------------------------
(* Properties. *)

\* Unless a change was missed since the last snapshot message, the receiver
\* thread's book is exactly the book the exchange had at the message's update
\* id: deletions, replaced levels, and levels that went away while the
\* connection was lost (_OrderbookState.apply, _apply_side).  "Implementations
\* are responsible for resnapshotting on sequence gaps before invoking the
\* callback" (market_data/base.py:22-24) is not what apply does.
BookExactUnlessGap == ~gap => Sides(book) = book.truth

=============================================================================
