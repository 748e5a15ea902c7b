# claudeTradeTeams: a model of the trading runtime

TLA+ modules, TLC runs and TLAPS proofs for the Python trading system under
`src/src/trading`. Paths below are relative to that directory unless they begin with
`src/`, `docs/` or `scripts/`. Every definition is read from the code; a comment or a doc
counts as a claim to be checked.

## 1. The system

One process, one asyncio loop. `runtime/main.py` wires the parts and runs
`DefaultSupervisor.start`, waits for SIGINT or SIGTERM, runs `stop` and returns;
`scripts/paper_demo.py` is a second wiring with in-memory journals. The loop switches tasks
only where a coroutine really suspends: at a SQLite write (aiosqlite hands it to the
connection's single worker thread, which completes writes in order), at a sleep, at the
join of a cancelled task. A call into a coroutine that never suspends runs as one step.
The WebSocket client has a thread of its own and hands each message to the loop with
`run_coroutine_threadsafe`, as an independent task.

| component | state it keeps | operations | what it must guarantee |
|---|---|---|---|
| PaperVenue, orders (`venues/paper.py`) | `_all_orders`, `_open_orders`, `_next_oid`, `_latest_book` | `place_order`, `cancel_order`, `_on_orderbook`, fills with callbacks to the OMS | the two dicts agree; no order is filled beyond its quantity; statuses follow the life cycle |
| PaperVenue, account | `_positions`: net quantity, entry price, realized PnL | `_apply_fill`, `get_balance`, `get_positions` | money is conserved: balance = initial + realized + unrealized - fees through adds, reductions and flips |
| OrderbookFillEngine, ImmediateFillEngine (`fill/`) | none | `try_fill` | never more than what remains, never at a worse price than the limit |
| DefaultOrderManager (`oms/default.py`) | `_orders`, the cache | `start`, `submit`, `cancel`, `cancel_all`, `open_orders`, `_on_fill`, `_on_order_update` | what is live at the venue is open in the cache; the journal converges to the venue |
| Order journals (`persistence/order_journal/`) | order rows, fill rows | `write_order`, `write_fill`, `read_open_orders` | the current row of an order is its latest; fills are on record before the rows that count them |
| DefaultSupervisor (`runtime/supervisor/default.py`) | `_state`, `_bus_running`, the tick task | `start`, `stop`, `quarantine`, `acknowledge`, tick, `_on_breaker_tripped` | a tripped breaker stops trading and clears the book; only a human resumes |
| InMemoryEventBus (`runtime/event_bus/`) | subscribers | `publish`, `subscribe` | a handler that raises does not stop the others |
| DefaultRiskManager (`risk/default.py`) | the list of breakers | `check` (first trip wins), `tick` (all of them, published) | no order while a breaker trips |
| Breakers (`risk/breakers/`) | Drawdown: equity history and latch. RateLimit: error times, cooldown. ConsecutiveError: count. Heartbeat: last beats. The others: none | `evaluate`, event handlers | a latch holds until acknowledged; windows and cooldowns at their boundaries |
| DefaultExecutor (`executor/default.py`) | none | `submit_intent`, cancels, flatten | the risk gate comes before the OMS |
| DefaultPositionManager (`pms/default.py`) | caches of positions and balance | `start`, `reconcile`, reads | what the risk gate reads is one recent state of the venue |
| Account journals, event log (`persistence/`) | snapshots, event rows | `write`, restore of the account | a restart restores the last snapshot |
| LiveMarketDataSource (`market_data/live.py`) | local order book per symbol, subscriptions | snapshot, delta, hand-over to the loop | the local book is the exchange's as long as no message is lost |
| Bybit adapters, serialisation (`bybit/`, `venues/bybit/`, `persistence/_serde.py`) | none of their own | conversions, REST calls | out of scope here |
| Alerts (`alerts/`, `persistence/alert_log/`) | none read back | fan-out to channels | a channel that raises does not stop the others |

How they interact. A strategy's intent goes executor -> risk manager (`check`) -> OMS ->
venue; the venue calls back into the OMS, inside the placing call or inside the market-data
task that brought a book, and the OMS awaits its journal in the middle of each callback.
The supervisor's tick publishes a heartbeat, reconciles the PMS and runs the breakers; each
trip is published on the bus, whose handler in the supervisor cancels and quarantines
through the OMS, and each change of state is logged, then published, and the drawdown
breaker unlatches by it.

What is hard. Callbacks suspended half-way while a cancel or another tick changes the same
order. A cache that cancel-all trusts. Rows of one order written out of order by several
calls. A crash between the fill row and the order row. `quarantine` and `acknowledge`, which
check the state, await, and then set it without looking again. A tick that goes through its
breakers over several suspensions, in the context it began with. A cancel, a reconciliation
or a write that raises, or is cancelled between its INSERT and its COMMIT while four journals
share one file. A receiver thread that runs ahead of the loop, a stream that loses messages,
a callback that raises among others. A position that is averaged, reduced and flipped in
rounded arithmetic. `PROJECT.json` lists these hazards with the line where each bites and the
properties that cover it.

## 2. The modules

| module | models | used by |
|---|---|---|
| `OrderLifecycle` | abstract: what a client of the order path may rely on about each order | `OrderPath`, as refinement target |
| `OrderPath` | `PaperVenue` orders, `OrderbookFillEngine` quantities, `DefaultOrderManager`, order journals, crash and restart | `MCOrderPath`, `OrderPath_proofs`, `OrderCache_proofs` |
| `Supervisor` | `DefaultSupervisor`, bus dispatch, risk manager, latching of breakers, the executor's gate, start and shutdown of the process | `MCSupervisor`, `Supervisor_proofs` |
| `Breakers` | the breakers that remember (drawdown, rate limit, consecutive error, heartbeat), `DefaultRiskManager.check` and `tick` around them, the clock | `MCBreakers`, `Breakers_proofs` |
| `RiskLimits` | the breakers without memory, the position manager's cache they judge, the tick and the handlers of its trips | `MCRiskLimits`, `RiskLimits_proofs` |
| `PaperAccount` | `PaperVenue`'s position, average price, realized PnL, fees, balance | `PaperTrading`, `PaperAccount_proofs` |
| `BookFeed` | `LiveMarketDataSource`: the stream, the local book, the hand-over to the loop | `PaperTrading` |
| `PaperTrading` | composes `BookFeed` and `PaperAccount` with both fill engines and the demo strategy | `MCPaperTrading`, `PaperTrading_proofs` |
| `DurableLog` | abstract: what a caller that awaits a journal may rely on | `Journals`, as refinement target |
| `Journals` | the SQLite journals of one file, their transactions and locks, the calls that write them, the position manager's restore, stop and crash | `MCJournals`, `Journals_proofs` |
| `OrderPath_proofs`, `OrderCache_proofs`, `Supervisor_proofs`, `Breakers_proofs`, `RiskLimits_proofs`, `PaperAccount_proofs`, `PaperTrading_proofs`, `Journals_proofs` | theorems about those modules | |
| `MC...` | instances for TLC | the configurations |

### OrderPath

A call in flight (a submit, a tick, a cancel or a cancel-all) is an element of `Tasks`;
`tasks[t]` holds where it is suspended (`awaits`) and its Python locals. `queue` is the
journal's worker: a suspended call is resumed when its write reaches the head. Each action
is what the code runs from one await to the next:

| action | code |
|---|---|
| `Submit` | `DefaultOrderManager.submit` and `PaperVenue.place_order` up to the write of the ACKED or REJECTED row |
| `AckWritten` | the rest of that callback, then `_try_fill_order` on the latest book |
| `Orderbook` | `_on_orderbook`: the ids are taken, the first order that fills is applied |
| `FillWritten`, `FillRowWritten`, `UpdateWritten` | `_on_fill` after `write_fill`; its order row; the venue's own update; then the next id |
| `SubmittedWritten` | the end of `submit` |
| `Cancel`, `CancelAll`, `CancelWritten` | `cancel_order`, and `cancel_all` over the OMS's cache |
| `WriteRaises` | the write raises and unwinds the whole call |
| `Restart` | the process dies; `PaperVenue` starts empty with ids from 1, the OMS restores the journal's open orders |

The journal is kept per order as the row `read_open_orders` would choose: for SQLite the
greatest `(updated_at, id)`, for the in-memory journal the one appended last. A time is a
logical reading of the clock per order; `ClockSteps` says how far two readings differ. Prices
are small integers, a book is its best prices with the total depth behind each, and a fill is
its quantity: average prices, fees and PnL belong to `PaperAccount` and `PaperTrading`. A market
order walks the book and may exhaust it, a crossed limit order fills in full, as in the
engine.

`wiring` is the journal the process was built with, one of `Wirings`, and no step changes it: SQLite
as in `runtime/main.py`, or the in-memory one of `scripts/paper_demo.py`, whose writes do not
suspend. One run has both; the properties that hold in one of them name it.

### Supervisor

Tasks are main (which starts and stops), tick and the operators' calls. `tasks[t].at` is the
await each is suspended at; `logq` is the queue of the event log. `_transition` sets `state`
at once; the announcement on the bus follows the log write (`heard` is what subscribers last
heard), and the drawdown breaker unlatches by it. `danger` is the set of breakers whose
condition the account and feeds now meet, which the world changes at will; `latched` those
with `_latched`. The orders are ids in `live`: the order path in detail is the other module.
The bus awaits each handler inside `publish`, so a tripped breaker's handler suspends the tick
task itself, and the next breaker is looked at only when it is over (`RunBreakers`).

The gate of `Submit` and the order's arrival at the venue are one step because nothing
suspends between `risk.check` and `PaperVenue.place_order`. Alerts are left out; so are
`stop(drain=False)`, which `main.py` never calls, and a restart of the supervisor's process. A
log write that raises in the middle of a stop belongs to `Journals`.

### Breakers

`Supervisor` lets the world set and clear what a breaker sees; this module looks inside. Two
callers evaluate the same breakers: `check`, for an intent, up to the first that trips and in
the context of that moment; `tick`, all of them, in the one context it built when it began.
Each trip of a tick is published, and a handler that quarantines or cancels suspends the tick
in the middle of the list (`tick.at = "handler"`), while checks, errors, beats, acknowledges
and the clock go on; `HandlerReturns` then evaluates the rest in the old context. `Suspending`
names the breakers whose action may do that: all but those that only reject.

| action | code |
|---|---|
| `Check` | `DefaultRiskManager.check`, called by the executor's `submit_intent` |
| `TickWakes`, `TickReconciled` | the tick loop: its own heartbeat, then `risk.tick`, whether the reconciliation between them returned or raised |
| `Reconcile` | `DefaultPositionManager.reconcile`, called by the tick and by an acknowledge: the balance `check` sees changes, the snapshots are still to be written |
| `HandlerReturns` | the rest of `risk.tick` after an awaited publish |
| `Acknowledge`, `Error`, `Beat` | the handlers of `DrawdownBreaker`, of the two that count errors, and of `HeartbeatBreaker` |
| `TimePasses` | the clock |

`Evaluate(B, ctx)` is what the `evaluate` methods of the breakers `B` do to their state. The
equity history is a set of (time, equity); the deque's order matters only for its pruning, which
is by time. Errors are numbered in the order they are published and each counting breaker keeps
the numbers it has heard, since each has its own filter. An acknowledge is announced first and reconciles
later (`acks`). The list of breakers is chosen in `Init` among `Wirings`. `observed`, `trips` and `trippedAt` are auxiliary: everything recorded
since the last acknowledge, and the trips of `RateLimitBreaker`. Nothing under `src/src/trading`
publishes `ErrorOccurred` yet; the tests do, and `Error` is their event.

### RiskLimits

The risk manager never asks the venue: `check` and `tick` judge `cached`, what the venue
reported at the last reconcile, while `venue` moves on. `wiring` is the list of breakers, each
a kind, a limit and an action, chosen in `Init`.

| action | code |
|---|---|
| `TickReconciles` | the tick loop's `pms.reconcile`, which may raise |
| `TickEvaluates`, `LogWritten` | `DefaultRiskManager.tick` from its start, or from behind an awaited publish |
| `CancelExecuted`, `CancelAllEnds` | `cancel_all` in the handler of a trip, one order at a time; it returns or raises |
| `Acknowledge`, `AckReconciles`, `AckResumes` | `DefaultSupervisor.acknowledge`, which refreshes the cache beside the tick |
| `SubmitIntent` | `DefaultExecutor.submit_intent`: the gate, then the venue |
| `OrderCloses`, `VenueMoves` | fills and owners' cancels; the world |

`RunBreakers(k, ctx)` is the rest of `tick` from its k-th breaker on: trips whose handler does
nothing are passed over, the first other one suspends the tick. `FLATTEN` is two handlers in one,
as in the code: `cancel_all`, then `quarantine` with a `cancel_all` of its own.

### PaperAccount, BookFeed, PaperTrading

`PaperAccount` translates `_apply_fill`: a fill opens, adds to, reduces, closes or flips the
position. Money is a whole number of the last digit that `Decimal` keeps, so the division of
an average rounds as the code's does (`Divided`); `tape` sums what the fills themselves paid.

`BookFeed` has three places for a book: the exchange's (external), the receiver thread's copy,
and the snapshots handed to the loop. `Receive` is one message on the receiver thread: `Apply`
(a snapshot message replaces the book, a delta with an unexpected update id is applied all the
same) and one entry of `queue` per subscriber. `Move` may send nothing (a gap); `Reconnect`
loses what was on the way and sends a snapshot.

`PaperTrading` is `scripts/paper_demo.py`: the loop takes the callbacks of `queue` one at a time
(`StrategySubmits`, `StrategyWaits`, `VenueTicks`), and each fill is a step of its own
(`FillNext`), since the receiver thread runs meanwhile and a fill's callback may raise
(`CallbackRaises`: the rest of the subscriber's call is not run). The engine is chosen in `Init`.

### Journals

Each journal has a connection with a worker thread; a write is an INSERT, which takes the
file's one write lock, and a COMMIT, each awaited. `tasks[t]` lists the writes a call has yet
to make, `worker[c]` the statements sent to a connection, `txn` the open transaction. So one
task's COMMIT makes durable what another has inserted, and a write cancelled after its INSERT
leaves the lock with its connection until the next write there. `TimesOut` is the busy timeout:
it ends a wait that no COMMIT is about to end, for the timeout (5 s) is long beside a commit.

The account's connection serves three tasks: main's first reconcile, the tick's, and that of an
acknowledge, which runs in an operator's task beside the tick. The rows of two reconciles then
lie between each other in any way, and since `reconcile` reads `self._balance` only when its
position rows are written, the balance row of the earlier call may hold what the later one got:
`held` keeps what each balance row holds, `row.beside` the reconciles with rows still to write when the
row's own began. `acknowledge` also sets RUNNING at its end whatever the state is by then (`state`),
so it may do so in the middle of a stop.

| action | code |
|---|---|
| `HandleFill` | `_on_fill`: the fill's row, then the order's |
| `Reconcile`, `Quarantine` | the tick's reconcile with its snapshots, and a trip it handles |
| `Acknowledge`, `AckReconcile` | an operator's acknowledge: the first transition's row; a reconcile beside the tick's and the second transition |
| `Boot`, `BootReconcile` | `start`: the restore of the position manager, the first reconciliation |
| `Stop` | `stop`: the tick is cancelled where it awaits, then rows, cancels, `close` of each journal |
| `Insert`, `Commit`, `CloseConn`, `Raise` | the workers |
| `Restart` | the process ends, by itself or not, and a new one will boot |

## 3. What the runs check

| run | instance | shows |
|---|---|---|
| `order_path` | both wirings, 2 orders (market buys of 2 and 3, post-only limit sell of 1), 3 concurrent calls, 2 books, no fault | the venue's dicts agree, nothing is overfilled, every live order is open in the cache and reached by cancel-all; the SQLite journal is never ahead, agrees when calls are done and never reopens a closed order; the venue refines `OrderLifecycle`, and without suspension so does the cache |
| `order_path_faults` | one order of 3 units, 3 concurrent calls, one failing write and one crash | live orders stay known to cancel-all; fills are on record before the rows that count them, whatever write raises, unless it is the record of a fill of the same order or the row of its cancel; every call returns |
| `order_race` | violation | a cancel that lands between a partial fill and its callbacks leaves the order open in the cache for good |
| `supervisor` | 4 breakers, one of each action, Drawdown latching; one operator with both calls; 2 orders; one failure each of a cancel, a reconciliation, a log write | no tick task while stopping, subscribers hear the changes in order, a latch takes the system out of RUNNING and clears the book, a stop whose cancels fail completes, RECONCILING is left |
| `supervisor_resume` | violation | QUARANTINE to RUNNING without a new acknowledge |
| `supervisor_ack` | violation | an acknowledge whose reconciliation raises leaves RECONCILING |
| `supervisor_submit` | violation | orders are accepted in QUARANTINE |
| `breakers` | three lists of breakers: the composition root's, one that counts errors in two ways, one where errors are counted behind a breaker that suspends the tick | no drawdown within the window is missed and none is invented, the cooldown holds, an error serves for one cooldown, no order passes amid errors |
| `risk_limits` | 2 symbols, 3 reports and none, 2 orders open at once, 2 lists of breakers, one call that raises | the gate comes to follow the venue both ways; a CANCEL_ALL or FLATTEN limit that stays broken gets every order cancelled, later ones too |
| `paper_trading` | 3 updates, one reconnect, one gap, one callback that raises, 2 orders, either engine | no money appears or vanishes, the local book is exact unless a change was missed, market orders get the best of the venue's book, the venue is at most one book behind the strategy and catches up with the stream |
| `journals` | 2 processes, 2 symbols, a coarse clock; one fill beside the tick, an acknowledge and main | the journals implement `DurableLog`; no order row without its fill's; a restart restores no balance older than a row that was written, and no position older but that of a reconcile under way at the same time; every call ends |
| `journals_stuck` | violation | a stop that cancels the tick between INSERT and COMMIT ends before it has cancelled an order or closed a journal |

The five violations are disagreements between a statement of the repository and its code,
quoted under "findings" in `PROJECT.json`. Others were met that need no run:

- `market_data/base.py:22-24` promises that gaps are noticed; `live.py:58-70` applies a delta
  whatever its update id. `docs/BYBIT_MARKET_DATA_ALIGNMENT.md:80` concedes it, and
  `BookExactUnlessGap` is stated accordingly.
- `venues/paper.py:13-20` says "No fees" and no PnL on partial reductions; the code charges the
  fill's fee and realizes PnL on every reduction. The docstring of
  `scripts/paper_demo.py` names `ImmediateFillEngine`, line 131 wires the other one.
- `risk/breakers/position_notional.py:8-12` and `leverage.py:5-8` speak of growth beyond a limit:
  the gate also rejects orders that would reduce the position, does not count open orders, and
  judges the cache of the last reconcile.
- `rate_limit.py:7-9`: behind a breaker that suspends the tick the cooldown counts from the old
  context (line 82) and ends early. No list of the repository has such a breaker ahead.
- `domain/trigger.py:28` has QUARANTINE include CANCEL_ALL; in QUARANTINE the trip is ignored
  (`supervisor/default.py:234`), so orders left over stay open. `OrdersGoWhileTripped` fails if
  it is stated for QUARANTINE breakers.
- `FundingSpikeBreaker` never trips: nothing fills the funding rates of the risk context.
- `supervisor/default.py:269`: an acknowledge reconciles beside the tick. When the clock gives both
  the same time, the position row of the one that began earlier may get the greater id and is
  then the one restored (`account_journal/sqlite.py:119`). `RestoresLastKnown` allows for that
  case and for no other: without the allowance TLC finds it violated. Nothing in the repository
  promises more.
- `pms/default.py:80` writes no row of a closed position, so a restart brings its last open
  snapshot back until the first reconcile.

Bounds. Two orders suffice for the order path because orders interact only through the ids a
tick or a cancel-all has still to visit; three concurrent calls give
the placing call, a tick and a cancel of the same order together. With faults one order is
enough: what a failed write or a crash loses is told order by order. A market order of two or three
units against one unit of depth gives partial fills by different ticks; a post-only order is
refused on one book and rests on the other. One failure and one crash are each placed
everywhere. In the supervisor, one operator task beside tick and main already brings the races
of `quarantine` and `acknowledge`, since the tick task quarantines too; two orders let one be
accepted while a cancel-all is under way. `MaxOrders`, `MaxFaults`, `MaxRestarts` and
`FaultKinds` (each kind fails once) are the only bounds on behaviour there. For the breakers the clock
runs to `MaxTime` = 3, beyond each window (2, 2 and 1), the cooldown and the silence (1 each), so
that each is met just before, at and just after its end. With a threshold of 5 % the equities 0,
95 and 100 are a total loss (and a peak that is not positive), a fall of exactly the threshold,
and the peak. `MaxErrors` = 3 is a burst at a limit of 2 and one more, enough for a
second trip if an error were counted twice; `MaxAcks` = 1 acknowledge is in flight at a time.

In `RiskLimits` two symbols let one keep a limit broken while the other changes; the reports
break no limit, the notional (a short) and the leverage, the last also near its liquidation; the
second list puts the breaker that cancels behind one that quarantines. `MaxFailures` = 1 raises a
reconcile or a cancel, anywhere. In `PaperTrading` three updates are the snapshot and two changes,
among a best level that goes, one that comes and one behind the best; two orders alternate the
side, so the second reduces, closes or flips what the first opened; the market order needs two
levels. `MaxReconnects`, `MaxGaps` and `MaxRaises` are 1 each. In `Journals` the
boot's two calls are followed by up to two of fills, tick calls, quarantines and stops
(`MaxCalls` = 4), and by what these make in turn without being counted: an acknowledge of a
quarantine, its reconcile, a second boot and its reconcile. So a tick's reconcile and an
acknowledge's are under way at once, after a quarantine; a fill and a tick write on different
connections and contend for the lock. The reports are the position of one symbol, and of both
with that one last, so that the reconcile begun later may write its row of the position earlier.
`MaxTime` = 1 lets the clock stand still or go on once, anywhere: two snapshots of equal time
are the case the tie-break of the restore is for.

Fairness. In `OrderPath` a handed-over write completes and the loop resumes its caller (weak
fairness of `WriteCompletes`): the worker thread and the loop do nothing else. In `Supervisor`
the awaited calls return or raise, the sleep ends and a cancelled task ends. In `RiskLimits` it is
the same of the tick (`WF(Tick)`), and nothing of operators or strategies. In `PaperTrading` the
receiver thread takes the next message and the loop the next callback. In `Journals` each worker
executes what it was sent, and the busy timeout ends a wait. Nothing obliges a
strategy, a market, an operator or a signal to act. The supervisor's liveness properties speak of
calls begun and latches set, and end at the shutdown; those of `RiskLimits` speak of limits that
from some time on stay broken, or kept.

`CHECK_DEADLOCK FALSE` is set where the system really ends: the supervisor's process and its
journals after a stop, the paper stack after its loop has ended.

## 4. What is proved

Every theorem is about the specification as it stands, for every value of the constants that
satisfies the module's own assumption on them (types, and that the names of tasks differ) and,
where it says so, a hypothesis of the theorem.

### The order path

`OrderPath_proofs` holds for every number of orders, set of concurrent calls, requests, books,
either journal, any clock, and any number of faults and restarts:

- `TypeCorrect`: `Spec => []TypeOK`. The invariant carries what the handlers rely on: a task is
  in the queue once while it is suspended, the OMS's cache knows every order of the venue (so
  `_on_fill` never meets an unknown one) and a suspended fill's order exists.
- `VenueSafe`: `Spec => [](OpenIffWorking /\ NeverOverfilled)`, and `NoOverfill` for the second
  alone. Inductive together with `TypeOK`: a fill is computed from the order as it is at that
  moment, and only for an id still open, so what remains is at least what is filled; and
  `OpenIffWorking` is what makes "still open" mean "still working". Neither holds up alone:
  overfilling would follow from an id in `_open_orders` whose order is filled.
- `VenueImplementsLifecycle`: the venue's orders, seen as status, filled and total quantity,
  implement `OrderLifecycle`. Every step of `OrderPath` is a step of one order's life, a
  restart, or a stutter.

`OrderCache_proofs` is about what the OMS and the journal know of the venue's orders, with the
same generality:

- `LiveOrdersCancellable`: `Spec => []LiveOrdersAreCancellable`. The invariant, `CacheInv`, says
  that the cache's count of an order never runs ahead of the venue's. That is not inductive by
  itself, since a suspended fill still has to add its quantity; what saves it is the order of
  the journal's queue. The fills of an order are counted in the order they were made, so each
  starts at or above what is counted (`FillUnderWay`) and where those ahead of it ended
  (`FillsInOrder`). A cancelled order is the exception, and a real one: the cancel's callback
  brings the venue's whole count to the cache while a fill is still being recorded, and that fill
  is then counted a second time there. No property of a live order depends on it.
- `CancelAllReaches`: `Spec => []CancelAllReachesEveryOrder`, from `CacheInv` and `TargetsKnown`.
- `FillRecordsFirst` and `JournalBehindVenue`: `FillRecordsCoverOrderRows` and `JournalNeverAhead`,
  under the hypothesis `0 \notin ClockSteps`: two readings of the clock differ. With equal readings
  the row with the greater id wins a tie, and a row that counts a fill twice may be the current one
  for a while. The journal refuses the doubly counted row of a cancelled order because the cancel's
  row is ahead of it in the queue and later (`CancelsRecorded`, `Stamped`); `RowsCovered` says of
  every row, written or about to be, which fills are recorded by then. `FillRecordsFirst` allows for
  writes that raise and for restarts: `lost` collects the orders whose own fill record, or cancel's
  row, was the write that raised, and the invariant holds of every other order (`RaiseKeepsRecords`).
  For an order in `lost` it would be false: the venue's next update counts the fill all the same.
- `SQLiteJournalAgrees` (the same clock) and `MemoryCacheAgrees`: with no call in flight, the SQLite
  journal, or the cache over the in-memory one, is the venue's own view (`JournalAgreesInSQLite`,
  `CacheAgreesInMemory`). `JournalCatchesUp`: the journal has each order as it is, or an older row
  and the newest is on its way. `Alone`: the in-memory journal never suspends, so one call runs at a
  time.
- `SQLiteTerminalStays` (the same clock): the action property `SQLiteTerminalIsFinal`. The journal
  decides by time alone, so what has to be shown is that no later row with another status can come:
  `JournalFinal` says that a terminal row still to be written is the order as the venue has it, that
  `_on_fill`'s row is of a fill of that order, and that at most one call brings its newest state. The
  hard case is `_on_fill`'s row of the last fill (`FillRowIsFinal`), which the cache computes: it is
  the venue's own order unless a cancel overtook it, and then the journal refuses it as older.
- `MemoryCacheImplementsLifecycle`: `CacheFollowsInMemory`, the refinement of `OrderLifecycle` by the
  cache. `FillsCountedOnce`: while a fill is recorded the cache plus its quantity is the venue's
  count, and once counted the venue's update that follows is a stutter.

### The supervisor

`Supervisor_proofs` holds for any breakers and actions, operators, orders and faults. All three
follow from one invariant, `SupervisorInv`: each task is at a point of its own code
(`EachAtItsPoints`), no tick or operator runs before start or after stop (`OthersWhileUp`), the state is
one that main's point allows whatever operators' calls write meanwhile (`StateAtPoint`), and
the last row in the log's queue, or what subscribers last heard if there is none, is the state
(`LastAnnounced`). Whatever a task does, it changes the state and queues for the log, or it
leaves the state alone and suspends elsewhere; that is proved once of each operator the actions
are built from.

- `TypeCorrect`: `TypeOK`, by which a task waits for the log exactly while it is in its queue.
- `NoTickOnceStopping`: `NoTickWhileStopping`; `SubscribersHearTheState`: `SubscribersAgree`.

The proof of `TypeCorrect` needs a stop to withdraw the row of the tick task it cancels and no
other, which is why `Stop` says `RemovedAt`.

### The breakers and limits

`Breakers_proofs` holds for every list of breakers, window, limit, cooldown and length of time:

- `TypeCorrect`: `Spec => []TypeOK`. Besides types it says that nothing remembered is of the
  future: a context is of the present or the past, which is why pruning is sound.
- `ErrorsHoldOrders`: `Spec => []NoOrderAmidErrors`. The invariant `ErrorsKept` says that the
  breaker still holds every error it heard within the window. A tick in an old context prunes
  by an older cutoff, hence too little and never too much.
- `DrawdownExact`: `Spec => [](NoDrawdownMissed /\ LatchedByDrawdown)`, and `LatchesOnDrawdownOnly`
  for the second alone, under hypotheses of their
  own: no breaker ahead of `DrawdownBreaker` suspends the tick (`DrawdownFirst`, true of the
  composition root), equities are bounded, the threshold is at most 100 %. The invariant adds
  `HistoryComplete`, that pruning left all of the window. A history within bounds has a peak
  (`PeakExists`), and a fall beyond the threshold of any equity is beyond that of the peak
  (`BeyondHigher`, which needs the threshold to be at most 100 %). Without `DrawdownFirst` it is
  false: a tick that resumes after an acknowledge records the equity of its old context.
- `CooldownHoldsOrders`: `NoOrderInCooldown`, if no breaker ahead of `RateLimitBreaker` suspends the
  tick (`RateLimitFirst`, true of every list in the repository): otherwise the cooldown counts
  from the tick's old context and ends early.
- `EachTripSpendsErrors`: `TripsNeedNewErrors`, for every list. `ErrorsSpent`: what a trip counted
  is gone from the record, and what arrives during a cooldown goes with it.

`StepsEvaluate` reduces each step to an evaluation in one context, an acknowledge, an error or
the passing of time, so that each invariant is proved against four cases.

`RiskLimits_proofs` holds for every set of symbols, reports and orders, every list of breakers and
any number of failures, under `LimitsArePositive` and that lists are sequences:

- `SupervisorActsForATrip`: whenever the tick is in a handler, its breaker trips in the context the
  tick began with and has the action of that handler, across all suspensions of the list and
  whatever acknowledges, submits and moves of the venue come between. The step that matters is
  `RunBreakersActs`: of the trips left the first is handled (`FirstExists`).

### The account and the feed

`PaperAccount_proofs` holds for every initial balance and every sequence of fills (any price,
quantity and fee) and books, whatever engine or feed they come from; `AccountSpec` allows them
all, and `TradingImplementsAccount` below says that `PaperTrading` does nothing else to the account:

- `AccountTypeCorrect`: `AccountSpec => []AccountTypeOK`.
- `MoneyIsConserved`: `AccountSpec => []MoneyConserved`. The balance reported differs from the
  initial one plus the cash of the fills plus the worth of the reported position by a drift that
  does not depend on the book (`DriftIsGap`), so only fills matter. A fill that opens, reduces,
  closes or flips leaves the drift as it is (`ExactFills`); one that adds rounds a price once, which moves the
  drift by at most half a last digit per unit then held (`AddedFills`, from `DividedIsNear`).

`PaperTrading_proofs` holds for every initial book, move and intent, and any number of
updates, lost connections, gaps and raising callbacks. `BookFeedAssumption` asks that the initial books have finitely many prices and one level per price (`IsSide`), as the exchange's have:

- `BookIsExact`: `Spec => []BookExactUnlessGap`. The invariant, `StreamInv`, is about the messages
  on the wire as well: each that is no gap knows the book the exchange had at its update id, and
  each delta turns the one before it into its own (`WireFollows`), so applying the first keeps the
  rest right. A delta is computed and applied side by side (a level removed, replaced, or added).
- `VenueKeepsUp`: `Spec => []VenueWithinOneBook`. `Alternates`: the calls handed to the loop and not
  yet run alternate between strategy and venue, beginning with whoever is behind.
- `MarketOrdersFillAtBest`: `Spec => []FillsAreBest`. `BooksSorted` says that the receiver thread's
  sides are sides whatever messages were lost, and that every snapshot handed over, run or not, is
  sorted. What is then shown of `_walk` is that no other way to take the same quantity is better
  (`WalkIsBest`): after each level the walk is ahead of any other way by some quantity, and behind
  it in cost by no more than that quantity at the level's price (`GreedyIsLeast`). For the bids the
  same lemma is used with the prices negated.
- `TradingImplementsAccount`: `Spec => AccountSpec`, hence `TradingConservesMoney`:
  `Spec => []MoneyConserved`. `OrdersSound`: an open order has something left to fill, so what an
  engine makes of it is a fill of a positive quantity, at no negative price or fee (`EngineFills`,
  `WalkTyped`).

`Walk` recurses over the levels of a book of any length. The library's induction theorem takes an
operator as a parameter, which the provers cannot instantiate; `UpTo` states induction for a set of
naturals instead, and is proved from the well-foundedness of `<` (`LeastNatural`).

### The journals

`Journals_proofs` holds for any number of fills handled at once, calls, restarts, and any clock,
coarse or not:

- `FillsAreFirst`: `Spec => []FillRowsFirst`.
- `JournalsAreDurable`: `Spec => RowsDurable`, the refinement of `DurableLog`: only a COMMIT changes
  the file, by the transaction's rows, which are new, distinct and were pending.

Both rest on `JournalInv`. A row is in one place at a time: in the file, in the transaction, in an
INSERT sent, or in what a task has yet to write (`StoredInv`, `PlansInv`, `DistinctPlans`). A
statement is of the write its task awaits, no task has two, and the row of a COMMIT is in the file or in
the transaction of its own connection (`WorkInv`): this is what another task's COMMIT, a
cancelled write and a timeout could each break, and what `returned \subseteq` the file follows
from. An order's row comes just after its fill's or has it in the file (`Backed`), also across
the COMMIT between them. The invariant is an operator of the pieces of state, so that each
action is proved as a statement leaving a queue, a change of transaction or file, and a task
moving on. `JournalsAssumption` asks that no fill's task be called `tick`, `operator`, `main` or `none`,
and that a symbol be no other table or state.

### How the proofs are laid out, and what is only model-checked

Each proof has one lemma per action or kind of step and one step per conjunct it can disturb;
lemmas about queues (appending a task that is not in it, taking the head), the fill quantity and
the rounding of a division are stated once. The inductive invariants were checked by TLC on the
instances of the runs before they were proved.

Left to TLC:

- all liveness, which is out of the prover's reach together with ENABLED: `CallsReturn`,
  `LatchedLeavesRunning`, `LatchedClearsBook`, `StopCompletes`, `ReconcilingEnds`,
  `VenueCatchesUp`, `WritesEnd`, `GateFollowsVenue`, `OrdersGoWhileTripped`;
- `RestoresLastKnown`, over the interleaved rows of two reconciles;
- what the runs expect to be violated: where the code and its documents disagree.

Every invariant that a passing run checks, and every action property but that one, is the statement
of a theorem.


## 5. What is not modelled

- Trades and funding streams of `live.py`: they convert and dispatch as the order book's does,
  and nothing under `src/src` subscribes to them.
- The alerts: the router goes through its channels and swallows what one of them raises, the log
  channel only logs, and nothing writes the alert log. No state of the system depends on them.
- The Bybit adapters (`bybit/`, `venues/bybit/`) and `persistence/_serde.py`: conversions field by
  field and HTTP calls, without state of their own. There is no Bybit venue in the composition
  root yet.
- `scripts/bybit_testnet_smoke.py`: a linear script run by hand against an exchange.
- The null components, which hold no state; argument parsing and configuration.
- `stop(drain=False)`, which nothing calls; the subscription side of the event bus.
- A restart of the supervisor's process (what is lost of its state and the breakers' latches);
  the restarts of the order path and of the journals are modelled.

## 6. Plan

A restart of the supervisor with what it does not restore: its state, and the latches and histories
of the breakers. A proof of `RestoresLastKnown`: the account's rows in the file are in an order that
lets only reconciles under way at once pass each other.
