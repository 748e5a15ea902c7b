------------------------------ MODULE OrderPath ------------------------------
(***************************************************************************)
(* The order path of the paper stack: DefaultOrderManager (oms/default.py) *)
(* over PaperVenue (venues/paper.py) with OrderbookFillEngine              *)
(* (fill/orderbook.py) and an OrderJournal.                                *)
(*                                                                         *)
(* All of it runs on one asyncio loop.  A call into the stack (a submit, a *)
(* cancel, an order-book tick) is a task that runs without interruption    *)
(* until it awaits a journal write.  With the SQLite journal the write is  *)
(* handed to the connection's one worker thread, which completes writes in *)
(* the order they were issued, and other tasks run meanwhile; with the     *)
(* in-memory journal the write never suspends, so a whole call is one      *)
(* step as far as other tasks can see.                                     *)
(***************************************************************************)
EXTENDS Integers, Sequences

CONSTANTS
  Tasks,        \* how many calls may be in flight at once
  MaxOrders,    \* bound: orders placed in the life of one process
  Requests,     \* the OrderRequests the strategy makes
  Books,        \* the order-book snapshots market data delivers
  Wirings,      \* the journals that may be wired: "sqlite" and "memory"
  ClockSteps,   \* by how much two readings of the clock may differ: {1}, or
                \* {0, 1} for a clock coarser than the code between the readings
  MaxFaults,    \* bound: journal writes that raise
  MaxRestarts   \* bound: crashes of the process, each followed by a restart

Level == [price : Nat, depth : Nat]     \* best price, total depth behind it

ASSUME OrderPathAssumption ==
  /\ MaxOrders \in Nat
  /\ Requests \subseteq [side : {"BUY", "SELL"}, type : {"MARKET", "LIMIT"},
                         tif : {"GTC", "POST_ONLY"}, price : Nat,
                         quantity : Nat \ {0}]
  /\ Books \subseteq [ask : Level, bid : Level]
  /\ Wirings \subseteq {"sqlite", "memory"}
  /\ ClockSteps \subseteq Nat
  /\ MaxFaults \in Nat /\ MaxRestarts \in Nat

VARIABLES
  wiring,       \* the journal this process was wired with: "sqlite" as in
                \* runtime/main.py, "memory" as in scripts/paper_demo.py
  nextOid,      \* PaperVenue._next_oid
  allOrders,    \* PaperVenue._all_orders
  openOrders,   \* keys of PaperVenue._open_orders; the values are allOrders'
  position,     \* signed net quantity, PaperVenue._positions[symbol].net_qty
  latestBook,   \* PaperVenue._latest_book[symbol]
  cache,        \* DefaultOrderManager._orders
  journal,      \* per order, the row read_open_orders takes as current
  fillLog,      \* per order, the quantity in the journal's fill rows
  tasks,        \* the calls in flight, each with its locals
  queue,        \* tasks awaiting a journal write, oldest first
  clock,        \* per order, the last reading of the clock
  faults, restarts,
  lost          \* auxiliary: orders of which the record of a fill, or the row
                \* of a cancel, was not written

venueVars == <<nextOid, allOrders, openOrders, position>>
vars == <<venueVars, latestBook, cache, journal, fillLog, tasks, queue, clock,
          faults, restarts, lost>>

Oids == 1 .. MaxOrders
NoBook == [ask |-> [price |-> 0, depth |-> 0], bid |-> [price |-> 0, depth |-> 0]]

\* The OMS lists EXPIRED and FAILED as terminal too; nothing here produces them.
Terminal == {"FILLED", "CANCELLED", "REJECTED"}
Working == {"SUBMITTED", "ACKED", "PARTIALLY_FILLED"}
NoOrder == [status |-> "ABSENT", filled |-> 0]
Order == [req : Requests, status : Terminal \cup Working, filled : Nat, updated : Nat]

Idle == [call |-> "none", awaits |-> "nothing"]

-----------------------------------------------------------------------------
(* The fill engine. *)

\* A side with no depth is a side with no levels.
Crosses(req, book) ==
  \/ /\ req.side = "BUY"
     /\ book.ask.depth > 0 /\ book.ask.price <= req.price
  \/ /\ req.side = "SELL"
     /\ book.bid.depth > 0 /\ book.bid.price >= req.price

Smaller(a, b) == IF a <= b THEN a ELSE b

FillQtyIgnoringFilled(order, book) ==   \* mutant: quantity in place of remaining
  IF Crosses(order.req, book) THEN order.req.quantity
  ELSE Smaller(order.req.quantity, book.ask.depth)

\* Quantity of the Fill that try_fill returns; 0 stands for None.  A market
\* order walks the book and may exhaust it, a crossed limit fills in full.
FillQty(order, book) ==
  LET remaining == order.req.quantity - order.filled
      depth == IF order.req.side = "BUY" THEN book.ask.depth ELSE book.bid.depth
  IN  CASE order.req.type = "MARKET" -> Smaller(remaining, depth)
        [] order.req.type = "LIMIT"  -> IF Crosses(order.req, book) THEN remaining ELSE 0

\* The status both PaperVenue and the OMS compute after a fill.
StatusAfter(filled, req) ==
  IF filled >= req.quantity THEN "FILLED" ELSE "PARTIALLY_FILLED"

Signed(req, n) == IF req.side = "BUY" THEN n ELSE -n

-----------------------------------------------------------------------------
(* The loop and the journal. *)

\* With the in-memory journal no other task runs before the call has returned.
MayStart(t) == tasks[t] = Idle /\ (wiring = "memory" => queue = <<>>)

Suspend(t, task, q) ==
  /\ tasks' = [tasks EXCEPT ![t] = task]
  /\ queue' = Append(q, t)

ReturnLost(t, q) == queue' = q /\ UNCHANGED tasks   \* mutant: the caller never resumes

Return(t, q) ==
  /\ tasks' = [tasks EXCEPT ![t] = Idle]
  /\ queue' = q

\* Task t's write is done and t is the one to resume.
Resumes(t, point) == queue # <<>> /\ Head(queue) = t /\ tasks[t].awaits = point

SupersedesById(row, current) == TRUE   \* mutant: ORDER BY id alone

\* SQLite takes the row with the greatest (updated_at, id) as current, the
\* in-memory journal the row appended last.
Supersedes(row, current) ==
  wiring = "memory" \/ current = NoOrder \/ row.updated >= current.updated

Persist(o, row) ==
  journal' = [journal EXCEPT ![o] = IF Supersedes(row, @) THEN row ELSE @]

ReadsClock(o) == \E d \in ClockSteps : clock' = [clock EXCEPT ![o] = @ + d]

-----------------------------------------------------------------------------
(* The order manager's callbacks and cache. *)

UpdateIfMissing(o, order) ==   \* mutant: setdefault in _on_order_update
  cache' = [cache EXCEPT ![o] = IF @ = NoOrder THEN order ELSE @]

\* _on_order_update: the venue's word replaces the cached order.
OnOrderUpdate(o, order) == cache' = [cache EXCEPT ![o] = order]

AlreadyUpdated(task) == task.update   \* mutant: order update fired before the fill

\* The order _on_fill adds the fill to.
OrderAtFill(task) == cache[task.oid]

ForgetsPartial == {o \in Oids : cache[o].status \in {"SUBMITTED", "ACKED"}}   \* mutant

\* open_orders
OpenInCache == {o \in Oids : cache[o].status \in Working}

First(o, S) == o \in S /\ \A p \in S : o <= p

KeepsOpen(o) == openOrders   \* mutant: get in place of pop

\* _open_orders.pop(o, None)
WithoutOrder(o) == openOrders \ {o}

-----------------------------------------------------------------------------
(* Parts of handlers: what runs from one await to the next. *)

\* PaperVenue._apply_fill_to_order, up to the await of the OMS's write_fill.
ApplyFill(t, task, o, q) ==
  LET order   == allOrders[o]
      n       == FillQty(order, task.book)
      updated == [order EXCEPT !.filled  = @ + n,
                               !.status  = StatusAfter(order.filled + n, order.req),
                               !.updated = clock'[o]]
  IN  /\ ReadsClock(o)
      /\ allOrders' = [allOrders EXCEPT ![o] = updated]
      /\ openOrders' = IF updated.status = "FILLED" THEN WithoutOrder(o)
                        ELSE openOrders \cup {o}
      /\ position' = position + Signed(order.req, n)
      /\ Suspend(t, [task EXCEPT !.awaits = "fill", !.oid = o, !.row = updated, !.qty = n,
                                 !.update = updated, !.rest = {p \in @ : p > o}], q)
      /\ UNCHANGED nextOid

FillableUnchecked(task) ==   \* mutant: the id is not looked up again
  {o \in task.rest : FillQty(allOrders[o], task.book) > 0}

Fillable(task) ==
  {o \in task.rest \cap openOrders : FillQty(allOrders[o], task.book) > 0}

\* _try_fill_order for each remaining id, in the order they were placed.  When
\* none is left _on_orderbook returns; place_order returns to submit, which
\* writes its SUBMITTED row.
TryFills(t, task, q) ==
  \/ \E o \in Oids : First(o, Fillable(task)) /\ ApplyFill(t, task, o, q)
  \/ /\ Fillable(task) = {} /\ task.call = "orderbook"
     /\ Return(t, q)
     /\ UNCHANGED <<venueVars, clock>>
  \/ /\ Fillable(task) = {} /\ task.call = "submit"
     /\ Suspend(t, [task EXCEPT !.awaits = "submitted", !.row = task.submitted, !.rest = {},
                        !.update = NoOrder, !.qty = 0, !.book = NoBook], q)
     /\ UNCHANGED <<venueVars, clock>>

\* venue.cancel_order for each remaining id; an id no longer open is skipped.
TryCancels(t, task, q) ==
  \/ \E o \in Oids :
       /\ First(o, task.rest \cap openOrders)
       /\ ReadsClock(o)
       /\ LET cancelled == [allOrders[o] EXCEPT !.status = "CANCELLED", !.updated = clock'[o]]
          IN  /\ allOrders' = [allOrders EXCEPT ![o] = cancelled]
              /\ openOrders' = WithoutOrder(o)
              /\ OnOrderUpdate(o, cancelled)
              /\ Suspend(t, [task EXCEPT !.awaits = "cancelled", !.oid = o, !.row = cancelled,
                                         !.rest = {p \in @ : p > o}], q)
       /\ UNCHANGED <<nextOid, position>>
  \/ /\ task.rest \cap openOrders = {}
     /\ Return(t, q)
     /\ UNCHANGED <<venueVars, cache, clock>>

-----------------------------------------------------------------------------
(* Calls into the stack. *)

NewCall(name, rest, book, row, submitted) ==
  [call |-> name, awaits |-> "ack", oid |-> nextOid + 1, rest |-> rest, book |-> book,
   row |-> row, update |-> NoOrder, qty |-> 0, submitted |-> submitted, targets |-> {}]

\* submit: read the clock, place_order, the ACKED or REJECTED update reaches
\* the OMS, which caches it and awaits its row.
Submit(t, req) ==
  /\ MayStart(t) /\ nextOid < MaxOrders
  /\ \E d1, d2 \in ClockSteps :
       LET o        == nextOid + 1
           refused  == req.tif = "POST_ONLY" /\ req.type = "LIMIT" /\ Crosses(req, latestBook)
           order(s, time) == [req |-> req, status |-> s, filled |-> 0, updated |-> time]
           acked    == order(IF refused THEN "REJECTED" ELSE "ACKED", clock[o] + d1 + d2)
       IN  /\ nextOid' = o
           /\ clock' = [clock EXCEPT ![o] = @ + d1 + d2]
           /\ allOrders' = [allOrders EXCEPT ![o] = acked]
           /\ openOrders' = IF refused THEN openOrders ELSE openOrders \cup {o}
           /\ OnOrderUpdate(o, acked)
           /\ Suspend(t, NewCall("submit", IF refused THEN {} ELSE {o}, NoBook, acked,
                                 order("SUBMITTED", clock[o] + d1)), queue)
  /\ UNCHANGED <<position, latestBook, journal, fillLog, faults, restarts>>

\* _on_orderbook: the ids are taken before the first fill.
Orderbook(t, book) ==
  /\ MayStart(t)
  /\ latestBook' = book
  /\ TryFills(t, NewCall("orderbook", openOrders, book, NoOrder, NoOrder), queue)
  /\ UNCHANGED <<cache, journal, fillLog, faults, restarts>>

\* cancel of an order that is not open returns False and changes nothing.
Cancel(t, o) ==
  /\ MayStart(t) /\ o \in openOrders
  /\ TryCancels(t, NewCall("cancel", {o}, NoBook, NoOrder, NoOrder), queue)
  /\ UNCHANGED <<latestBook, journal, fillLog, faults, restarts>>

\* cancel_all goes by the OMS's cache.  "targets" is auxiliary: the orders
\* open at the venue when the call began.
CancelAll(t) ==
  /\ MayStart(t)
  /\ TryCancels(t, [NewCall("cancel", OpenInCache, NoBook, NoOrder, NoOrder)
                       EXCEPT !.targets = openOrders], queue)
  /\ UNCHANGED <<latestBook, journal, fillLog, faults, restarts>>

-----------------------------------------------------------------------------
(* A write completes and the task that awaited it runs on. *)

\* The row of the ACKED or REJECTED update; place_order then tries the book of
\* that moment.
AckWritten(t) ==
  /\ Resumes(t, "ack")
  /\ Persist(tasks[t].oid, tasks[t].row)
  /\ TryFills(t, [tasks[t] EXCEPT !.book = latestBook], Tail(queue))
  /\ UNCHANGED <<latestBook, cache, fillLog, faults, restarts>>

\* _on_fill after write_fill: adds the fill to the order as it is cached now.
\* The order is always there, its ACKED update came first.
FillWritten(t) ==
  /\ Resumes(t, "fill")
  /\ LET task   == tasks[t]
         cached == OrderAtFill(task)
         filled == cached.filled + task.qty
         row    == [cached EXCEPT !.filled  = filled,
                                  !.status  = StatusAfter(filled, cached.req),
                                  !.updated = task.update.updated]
     IN  /\ fillLog' = [fillLog EXCEPT ![task.oid] = @ + task.qty]
         /\ cache' = [cache EXCEPT ![task.oid] = row]
         /\ Suspend(t, [task EXCEPT !.awaits = "fill_row", !.row = row], Tail(queue))
  /\ UNCHANGED <<venueVars, latestBook, journal, clock, faults, restarts>>

\* _on_fill returns; the venue's own order update follows.
FillRowWritten(t) ==
  /\ Resumes(t, "fill_row")
  /\ LET task == tasks[t]
     IN  /\ Persist(task.oid, task.row)
         /\ OnOrderUpdate(task.oid, task.update)
         /\ Suspend(t, [task EXCEPT !.awaits = "update", !.row = task.update], Tail(queue))
  /\ UNCHANGED <<venueVars, latestBook, fillLog, clock, faults, restarts>>

UpdateWritten(t) ==
  /\ Resumes(t, "update")
  /\ Persist(tasks[t].oid, tasks[t].row)
  /\ TryFills(t, tasks[t], Tail(queue))
  /\ UNCHANGED <<latestBook, cache, fillLog, faults, restarts>>

CancelWritten(t) ==
  /\ Resumes(t, "cancelled")
  /\ Persist(tasks[t].oid, tasks[t].row)
  /\ TryCancels(t, tasks[t], Tail(queue))
  /\ UNCHANGED <<latestBook, fillLog, faults, restarts>>

\* The SUBMITTED row is written last; setdefault keeps what callbacks cached.
SubmittedWritten(t) ==
  /\ Resumes(t, "submitted")
  /\ LET task == tasks[t]
     IN  /\ Persist(task.oid, task.row)
         /\ cache' = [cache EXCEPT ![task.oid] = IF @ = NoOrder THEN task.row ELSE @]
  /\ Return(t, Tail(queue))
  /\ UNCHANGED <<venueVars, latestBook, fillLog, clock, faults, restarts>>

WriteCompletes(t) ==
  /\ \/ AckWritten(t) \/ FillWritten(t) \/ FillRowWritten(t)
     \/ UpdateWritten(t) \/ CancelWritten(t) \/ SubmittedWritten(t)
  /\ UNCHANGED lost

\* The write raises: the exception unwinds the whole call, whatever it had
\* still to do.  What the venue and the cache already hold stays.
WriteRaises(t) ==
  /\ wiring = "sqlite" /\ faults < MaxFaults
  /\ queue # <<>> /\ Head(queue) = t
  /\ faults' = faults + 1
  /\ lost' = IF tasks[t].awaits \in {"fill", "cancelled"} THEN lost \cup {tasks[t].oid} ELSE lost
  /\ Return(t, Tail(queue))
  /\ UNCHANGED <<venueVars, latestBook, cache, journal, fillLog, clock, restarts>>

\* The process dies and is started again.  PaperVenue lives in the process, so
\* its orders are gone and its ids start over; the OMS restores the journal's
\* open orders.
Restart ==
  /\ wiring = "sqlite" /\ restarts < MaxRestarts
  /\ restarts' = restarts + 1
  /\ nextOid' = 0
  /\ allOrders' = [o \in Oids |-> NoOrder]
  /\ openOrders' = {}
  /\ position' = 0
  /\ latestBook' = NoBook
  /\ cache' = [o \in Oids |-> IF journal[o].status \in Working THEN journal[o] ELSE NoOrder]
  /\ tasks' = [t \in Tasks |-> Idle]
  /\ queue' = <<>>
  /\ UNCHANGED <<journal, fillLog, clock, faults, lost, wiring>>

-----------------------------------------------------------------------------

Init ==
  /\ wiring \in Wirings
  /\ nextOid = 0
  /\ allOrders = [o \in Oids |-> NoOrder]
  /\ openOrders = {}
  /\ position = 0
  /\ latestBook = NoBook
  /\ cache = [o \in Oids |-> NoOrder]
  /\ journal = [o \in Oids |-> NoOrder]
  /\ fillLog = [o \in Oids |-> 0]
  /\ tasks = [t \in Tasks |-> Idle]
  /\ queue = <<>>
  /\ clock = [o \in Oids |-> 0]
  /\ faults = 0 /\ restarts = 0 /\ lost = {}

Step(t) ==
  /\ \/ /\ \/ \E req \in Requests : Submit(t, req)
           \/ \E book \in Books : Orderbook(t, book)
           \/ \E o \in Oids : Cancel(t, o)
           \/ CancelAll(t)
        /\ UNCHANGED lost
     \/ WriteCompletes(t)
     \/ WriteRaises(t)
  /\ UNCHANGED wiring

Next == Restart \/ \E t \in Tasks : Step(t)

Spec == Init /\ [][Next]_<<vars, wiring>>

\* The journal's worker completes every write handed to it and the loop
\* resumes the task that awaits it.  Nothing obliges the strategy to call or
\* the market to move.
FairSpec == Spec /\ WF_vars(\E t \in Tasks : WriteCompletes(t))

-----------------------------------------------------------------------------
(* Properties. *)

Calls == {"submit", "orderbook", "cancel"}
Awaits == {"ack", "fill", "fill_row", "update", "cancelled", "submitted"}
InFlight ==
  [call : Calls, awaits : Awaits, oid : Oids, rest : SUBSET Oids, book : Books \cup {NoBook},
   row : Order, update : Order \cup {NoOrder}, qty : Nat,
   submitted : Order \cup {NoOrder}, targets : SUBSET Oids]

\* A call in flight awaits one journal write, and carries what it will read
\* when the write is done.
CallOK(t) ==
  /\ tasks[t] # Idle <=> \E i \in DOMAIN queue : queue[i] = t
  /\ tasks[t].call = "submit" => tasks[t].submitted \in Order
  /\ tasks[t].awaits \in {"fill", "fill_row"} =>
       tasks[t].update \in Order /\ allOrders[tasks[t].oid] # NoOrder

\* Every variable holds what its Python counterpart can hold, the ids given so
\* far are the ids of the venue's orders, and the OMS knows all of those.
TypeOK ==
  /\ wiring \in Wirings
  /\ nextOid \in 0 .. MaxOrders
  /\ allOrders \in [Oids -> Order \cup {NoOrder}]
  /\ openOrders \subseteq Oids
  /\ position \in Int
  /\ latestBook \in Books \cup {NoBook}
  /\ cache \in [Oids -> Order \cup {NoOrder}]
  /\ journal \in [Oids -> Order \cup {NoOrder}]
  /\ fillLog \in [Oids -> Nat]
  /\ tasks \in [Tasks -> InFlight \cup {Idle}]
  /\ queue \in Seq(Tasks)
  /\ \A i, j \in DOMAIN queue : queue[i] = queue[j] => i = j
  /\ \A t \in Tasks : CallOK(t)
  /\ \A o \in Oids : allOrders[o] # NoOrder <=> o <= nextOid
  /\ \A o \in Oids : allOrders[o] # NoOrder => cache[o] # NoOrder
  /\ clock \in [Oids -> Nat]
  /\ faults \in 0 .. MaxFaults /\ restarts \in 0 .. MaxRestarts /\ lost \subseteq Oids

\* PaperVenue's two dicts agree: an order is among the open ones exactly while
\* its record says it can still trade, whatever cancels and ticks interleave
\* (place_order, cancel_order and _apply_fill_to_order update both).
OpenIffWorking ==
  openOrders = {o \in Oids : allOrders[o].status \in {"ACKED", "PARTIALLY_FILLED"}}

\* No order is filled beyond its quantity, though several ticks and the
\* placing call may be filling it at once, and it is FILLED just when nothing
\* remains (_apply_fill_to_order).
NeverOverfilled ==
  \A o \in Oids : allOrders[o] # NoOrder =>
    /\ allOrders[o].filled <= allOrders[o].req.quantity
    /\ allOrders[o].status = "FILLED" <=> allOrders[o].filled = allOrders[o].req.quantity
    /\ allOrders[o].status = "REJECTED" => allOrders[o].filled = 0

\* Cancel-all and the drain go by the OMS's cache, so an order live at the
\* venue must be open in the cache, and the cache must never be ahead of the
\* venue's count of it: firing the fill before the order update is what keeps
\* _on_fill from counting a fill twice.
LiveOrdersAreCancellable ==
  \A o \in openOrders :
    /\ cache[o].status \in Working
    /\ cache[o].filled <= allOrders[o].filled

\* A cancel_all under way still has before it every order that was open at the
\* venue when it began and is open yet: when it returns none of them is live.
CancelAllReachesEveryOrder ==
  \A t \in Tasks : tasks[t] # Idle => tasks[t].targets \cap openOrders \subseteq tasks[t].rest

\* Write-ahead of fills: _on_fill awaits write_fill before it writes the order,
\* so the journal's current row of an order counts no fill without its record,
\* whichever other writes raise and over restarts, except of an order that has
\* lost the record of a fill itself (the venue's next row counts it all the
\* same) or the row of a cancel (_on_fill counts its fill on top of what the
\* cancel cached, and the cancel's row no longer supersedes that one).
FillRecordsCoverOrderRows == \A o \in Oids \ lost : journal[o].filled <= fillLog[o]

\* The journal never reports more than the venue did.
JournalNeverAhead ==
  faults = 0 /\ restarts = 0 => \A o \in Oids :
    /\ journal[o].filled <= allOrders[o].filled
    /\ fillLog[o] <= allOrders[o].filled

JournalAgreesAtRest ==
  queue = <<>> /\ faults = 0 /\ restarts = 0 => \A o \in Oids :
    /\ journal[o] = allOrders[o]
    /\ fillLog[o] = allOrders[o].filled

CacheAgreesAtRest == queue = <<>> => cache = allOrders

\* When no call is in flight the SQLite journal's current row of every order
\* is the order as the venue has it, and every fill is on record, however the
\* calls' writes were interleaved: a row that arrives late carries an older
\* updated_at, the SUBMITTED row, which submit writes last, the oldest
\* (SQLiteOrderJournal.read_open_orders).
JournalAgreesInSQLite == wiring = "sqlite" => JournalAgreesAtRest

\* With the in-memory journal the cache is the venue's own view whenever no
\* call is running (DefaultOrderManager._on_order_update, _on_fill).
CacheAgreesInMemory == wiring = "memory" => CacheAgreesAtRest

\* Once an order's current row in the SQLite journal is terminal, no row
\* written later makes the order open again for read_open_orders, until a write
\* raises, which may be the cancel's, or a restart gives its id to another.
\* (In the in-memory journal the late SUBMITTED row does; nothing reads it.)
SQLiteTerminalIsFinal ==
  [][wiring = "sqlite" /\ faults = 0 /\ restarts = 0 => \A o \in Oids :
       journal[o].status \in Terminal => journal'[o] = journal[o]]_vars

\* An order the cache calls open is live at the venue whenever no call is in
\* flight: CANCELLED and FILLED are final (docs/PHASE0_DESIGN.md:596-597), and
\* after a restart the OMS reconciles what it restored
\* (persistence/order_journal/base.py:7-8).
OpenInCacheIsLive == queue = <<>> => OpenInCache \subseteq openOrders

\* Every call returns: no interleaving leaves a submit, a tick or a cancel
\* waiting for good.
CallsReturn == \A t \in Tasks : tasks[t] # Idle ~> tasks[t] = Idle

View(order) ==
  IF order = NoOrder THEN [status |-> "ABSENT", filled |-> 0, quantity |-> 0]
  ELSE [status |-> order.status, filled |-> order.filled, quantity |-> order.req.quantity]

Quantities == {req.quantity : req \in Requests}

VenueView == [o \in Oids |-> View(allOrders[o])]
CacheView == [o \in Oids |-> View(cache[o])]

VenueOrders == INSTANCE OrderLifecycle WITH orders <- VenueView

\* The venue's orders follow the order life cycle.
VenueFollowsLifecycle == VenueOrders!Spec

\* With the in-memory journal the OMS's cached orders follow the order life
\* cycle too: no fill is counted twice, nothing terminal comes back
\* (DefaultOrderManager._on_fill before _on_order_update).
CachedInMemory ==
  INSTANCE OrderLifecycle
    WITH orders <- IF wiring = "memory" THEN CacheView ELSE [o \in Oids |-> View(NoOrder)]

CacheFollowsInMemory == CachedInMemory!Spec

=============================================================================
