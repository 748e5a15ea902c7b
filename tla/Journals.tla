------------------------------ MODULE Journals ------------------------------
(***************************************************************************)
(* The SQLite journals (persistence/order_journal, account_journal,        *)
(* event_log) of one process, and the calls that write them: the position  *)
(* manager's restore and reconcile (pms/default.py), which the tick and an *)
(* operator's acknowledge may run at once, the order manager's fills, the  *)
(* supervisor's transitions, and the process's start, stop and crash       *)
(* (runtime/main.py).                                                      *)
(*                                                                         *)
(* Each journal has a connection of its own to the one database file, with *)
(* a worker thread that runs its statements in the order they were sent.   *)
(* A write is two statements with an await each: the INSERT, which opens a *)
(* transaction and takes the file's write lock, and the COMMIT.  Whoever   *)
(* else wants the lock waits for it until the busy timeout, which is long  *)
(* beside a commit: only a transaction nobody is about to commit outlasts  *)
(* it.                                                                     *)
(***************************************************************************)
EXTENDS Integers, Sequences, SequencesExt

CONSTANTS
  OrderTasks,   \* fills that may be handled at once
  Symbols,      \* what is traded
  Reports,      \* the positions the venue may report, in the order it does
  MaxTime,      \* bound: the clock stands still from then on
  MaxCalls,     \* bound: no call that writes begins after this many, those
                \* aside that another one makes
  MaxRestarts   \* bound: processes started after the first

\* The tables of each connection, a symbol for its rows of position_snapshots
\* and a state for its rows of events; "cancel" is an order's row written by
\* cancel_all.
OrderTables == {"fill", "order", "cancel"}
AccountTables == Symbols \cup {"balance"}
States == {"RECONCILING", "RUNNING", "QUARANTINE", "DRAINING", "STOPPED"}

ASSUME JournalsAssumption ==
  /\ OrderTasks \cap {"tick", "operator", "main", "none"} = {}
  /\ Symbols \cap (OrderTables \cup States \cup {"balance", "none"}) = {}
  /\ Reports \subseteq Seq(Symbols)
  /\ \A report \in Reports : \A i, j \in DOMAIN report : report[i] = report[j] => i = j
  /\ MaxTime \in Nat /\ MaxCalls \in Nat /\ MaxRestarts \in Nat

VARIABLES
  phase,      \* of the process: "down", "booting", "reconciling", "up",
              \* "stopping", "stopped", and "aborted" when start or stop raised
  state,      \* DefaultSupervisor._state
  acked,      \* acknowledge's transition is logged, its reconcile comes next
  tasks,      \* what each task has yet to write, the write it awaits first
  worker,     \* per connection, the statements not yet executed
  txn,        \* the open write transaction: the connection that has the lock,
              \* and its rows
  disk,       \* the committed rows, in the order of their ids
  closed,     \* the connections closed by stop
  pms,        \* DefaultPositionManager's cache: of each position and of the
              \* balance, the call that got it from the venue, and its time
  held,       \* per reconcile, the balance that its row of it holds
  calls, clock, restarts,
  returned    \* auxiliary: rows whose write has returned

vars == <<phase, state, acked, tasks, worker, txn, disk, closed, pms, held, calls, clock,
          restarts, returned>>

Conns == {"orders", "account", "events"}
Tasks == {"tick", "operator", "main"} \cup OrderTasks

\* A row, by the call that writes it.  "beside" is auxiliary: the reconciles
\* that were under way when its own began.
Row == [table : OrderTables \cup AccountTables \cup States, call : Nat, time : Nat,
        beside : SUBSET Nat]
NoRow == [table |-> "none", call |-> 0, time |-> 0, beside |-> {}]
NoTxn == [conn |-> "none", rows |-> <<>>]
NoReport == [call |-> 0, time |-> 0]
Running == {"reconciling", "up", "stopping"}

-----------------------------------------------------------------------------
(* Statements. *)

Write(conn, table, call) ==
  [conn |-> conn, row |-> [table |-> table, call |-> call, time |-> 0, beside |-> {}]]
Close(conn) == [conn |-> conn, row |-> NoRow]

FirstStatement(t, write) ==
  [op |-> IF write.row = NoRow THEN "close" ELSE "insert", row |-> write.row, task |-> t]

ReadsOwn(row) == [call |-> row.call, time |-> row.time]   \* mutant: a local, not the cache

\* reconcile reads self._balance when its positions are written.
Reads(row) == pms'["balance"]

\* The row to be written next is given to the journal: a transition has set the
\* state by then, and a balance is the one cached now.
Reaches(row) ==
  /\ state' = IF row.table \in States THEN row.table ELSE state
  /\ held' = IF row.table # "balance" THEN held
             ELSE [call \in DOMAIN held \cup {row.call} |->
                     IF call = row.call THEN Reads(row) ELSE held[call]]

\* Task t goes on to the writes left, if any; "work" is the workers' state.
GoOn(t, left, work) ==
  /\ tasks' = [tasks EXCEPT ![t] = left]
  /\ worker' = IF left = <<>> THEN work
               ELSE [work EXCEPT ![left[1].conn] = Append(@, FirstStatement(t, left[1]))]
  /\ Reaches(IF left = <<>> THEN NoRow ELSE left[1].row)

\* When main has nothing left its call has returned.
MainReturns(left) ==
  phase' = IF left # <<>> THEN phase
           ELSE CASE phase = "booting" -> "booting"
                  [] phase = "reconciling" -> "up"
                  [] phase = "stopping" -> "stopped"

Begin(t, writes) == tasks[t] = <<>> /\ GoOn(t, writes, worker)

Continues == calls' = calls + 1
Counted == calls < MaxCalls /\ Continues

-----------------------------------------------------------------------------
(* Calls that write. *)

OrderRowFirst(call) ==   \* mutant: the order update fires before the fill
  <<Write("orders", "order", call), Write("orders", "fill", call)>>

\* _on_fill: the fill's row, then the order's.
FillWrites(call) == <<Write("orders", "fill", call), Write("orders", "order", call)>>

HandleFill(t) ==
  /\ phase \in Running /\ Counted
  /\ Begin(t, FillWrites(calls'))
  /\ UNCHANGED <<phase, acked, txn, disk, closed, pms, clock, restarts, returned>>

\* The reconciles that have rows yet to write.
Unwritten ==
  {row.call : row \in {row \in UNION {{w.row : w \in Range(tasks[t])} : t \in Tasks} :
                         row.table \in AccountTables}}

Snapshot(table) ==
  [conn |-> "account",
   row |-> [table |-> table, call |-> calls', time |-> clock', beside |-> Unwritten]]

\* reconcile: both caches are replaced, then a row is written of each open
\* position and one of the balance.  A closed position leaves no row.
ReconcileWrites(report) ==
  [i \in DOMAIN report |-> Snapshot(report[i])] \o <<Snapshot("balance")>>

Refreshed(report) ==
  /\ clock' \in clock..MaxTime
  /\ pms' = [table \in AccountTables |->
               IF table \in Range(report) \cup {"balance"} THEN [call |-> calls', time |-> clock']
                                                         ELSE NoReport]

\* The tick loop's reconcile.
Reconcile(report) ==
  /\ phase = "up" /\ Counted
  /\ Refreshed(report)
  /\ Begin("tick", ReconcileWrites(report))
  /\ UNCHANGED <<phase, acked, txn, disk, closed, restarts, returned>>

\* A breaker's trip is handled within the tick: cancel_all, then the transition.
Quarantine ==
  /\ phase = "up" /\ state = "RUNNING" /\ Counted
  /\ Begin("tick", <<Write("orders", "cancel", calls'), Write("events", "QUARANTINE", calls')>>)
  /\ UNCHANGED <<phase, acked, txn, disk, closed, pms, clock, restarts, returned>>

\* acknowledge: the first transition, then, beside the tick, a reconcile and
\* the second transition, whatever the state is by then.
Acknowledge ==
  /\ phase = "up" /\ state = "QUARANTINE" /\ ~acked /\ Continues
  /\ Begin("operator", <<Write("events", "RECONCILING", calls')>>)
  /\ UNCHANGED <<phase, acked, txn, disk, closed, pms, clock, restarts, returned>>

AckReconcile(report) ==
  /\ phase \in Running /\ acked /\ Continues
  /\ acked' = FALSE
  /\ Refreshed(report)
  /\ Begin("operator", ReconcileWrites(report) \o <<Write("events", "RUNNING", calls')>>)
  /\ UNCHANGED <<phase, txn, disk, closed, restarts, returned>>

-----------------------------------------------------------------------------
(* Workers. *)

CommitsNothing(conn) == FALSE   \* mutant: the COMMIT left out

\* Whether a COMMIT finds a transaction of its connection.
HasTxn(conn) == txn.conn = conn

\* The file's write lock is free, or the connection's already.
Lockable(conn) == txn.conn \in {"none", conn}

\* A statement that a task awaits is done: after an INSERT the task sends the
\* COMMIT, after that it goes on.
Resume(c, statement, rest) ==
  LET t == statement.task
      work == [worker EXCEPT ![c] = rest]
      left == IF t = "none" THEN <<>> ELSE Tail(tasks[t])
  IN  IF t = "none"
      THEN worker' = work /\ UNCHANGED <<tasks, phase, state, acked, held, returned>>
      ELSE IF statement.op = "insert"
      THEN /\ worker' = [worker EXCEPT ![c] = Append(rest, [statement EXCEPT !.op = "commit"])]
           /\ UNCHANGED <<tasks, phase, state, acked, held, returned>>
      ELSE /\ GoOn(t, left, work)
           /\ IF t = "main" THEN MainReturns(left) ELSE UNCHANGED phase
           /\ acked' = (acked \/ (t = "operator" /\ statement.row.table = "RECONCILING"))
           /\ returned' = returned \cup ({statement.row} \ {NoRow})

Insert(c) ==
  /\ worker[c] # <<>> /\ Head(worker[c]).op = "insert" /\ c \notin closed /\ Lockable(c)
  /\ txn' = [conn |-> c, rows |-> Append(txn.rows, Head(worker[c]).row)]
  /\ UNCHANGED <<disk, closed, pms, calls, clock, restarts>>
  /\ Resume(c, Head(worker[c]), Tail(worker[c]))

\* A COMMIT makes every row of the connection's transaction durable, those of
\* other tasks and of cancelled writes too.
Commit(c) ==
  /\ worker[c] # <<>> /\ Head(worker[c]).op = "commit" /\ c \notin closed
  /\ IF HasTxn(c) THEN disk' = disk \o txn.rows /\ txn' = NoTxn
                  ELSE UNCHANGED <<disk, txn>>
  /\ UNCHANGED <<closed, pms, calls, clock, restarts>>
  /\ Resume(c, Head(worker[c]), Tail(worker[c]))

\* close rolls back what the connection has not committed.
CloseConn(c) ==
  /\ worker[c] # <<>> /\ Head(worker[c]).op = "close"
  /\ closed' = closed \cup {c}
  /\ txn' = IF txn.conn = c THEN NoTxn ELSE txn
  /\ UNCHANGED <<disk, pms, calls, clock, restarts>>
  /\ Resume(c, Head(worker[c]), Tail(worker[c]))

WaitsForever(conn) == FALSE   \* mutant: no busy timeout

\* The lock is another connection's and nobody is about to commit there.
TimesOut(conn) == ~Lockable(conn) /\ worker[txn.conn] = <<>>

\* The statement raises: the lock did not come free, or the connection is
\* closed.  cancel_all's failure is logged and quarantine or stop goes on;
\* any other ends the call.
Raise(c) ==
  /\ worker[c] # <<>>
  /\ \/ c \in closed
     \/ Head(worker[c]).op = "insert" /\ TimesOut(c)
  /\ UNCHANGED <<acked, txn, disk, closed, pms, calls, clock, restarts, returned>>
  /\ LET t    == Head(worker[c]).task
         work == [worker EXCEPT ![c] = Tail(@)]
         left == IF t # "none" /\ Head(worker[c]).row.table = "cancel" THEN Tail(tasks[t]) ELSE <<>>
     IN  IF t = "none" THEN worker' = work /\ UNCHANGED <<tasks, phase, state, held>>
         ELSE /\ GoOn(t, left, work)
              /\ IF t = "main" /\ left = <<>> THEN phase' = "aborted" ELSE UNCHANGED phase

Work(c) == Insert(c) \/ Commit(c) \/ CloseConn(c) \/ Raise(c)

-----------------------------------------------------------------------------
(* The process. *)

Ids(table) == {i \in DOMAIN disk : disk[i].table = table}

\* What a row of the account's holds.
Content(row) ==
  IF row.table = "balance" THEN held[row.call] ELSE [call |-> row.call, time |-> row.time]

\* ORDER BY updated_at DESC, id DESC LIMIT 1.
Latest(table) ==
  LET time(i) == Content(disk[i]).time
  IN  IF Ids(table) = {} THEN NoReport
      ELSE Content(disk[CHOOSE i \in Ids(table) :
                          \A j \in Ids(table) :
                             time(i) > time(j) \/ (time(i) = time(j) /\ i >= j)])

\* start: the journals open, the first transition is logged, the position
\* manager restores its caches (after that write, which leaves the account's
\* tables alone).
Boot ==
  /\ phase = "down" /\ Continues
  /\ phase' = "booting"
  /\ pms' = [table \in AccountTables |-> Latest(table)]
  /\ Begin("main", <<Write("events", "RECONCILING", calls')>>)
  /\ UNCHANGED <<acked, txn, disk, closed, clock, restarts, returned>>

\* start goes on with the first reconciliation and the second transition.
BootReconcile(report) ==
  /\ phase = "booting" /\ Continues
  /\ phase' = "reconciling"
  /\ Refreshed(report)
  /\ Begin("main", ReconcileWrites(report) \o <<Write("events", "RUNNING", calls')>>)
  /\ UNCHANGED <<acked, txn, disk, closed, restarts, returned>>

\* The tick task is cancelled where it awaits: its statement is executed all
\* the same, what it would have sent next is not sent.
Abandoned(conn) ==
  [i \in DOMAIN worker[conn] |->
     IF worker[conn][i].task = "tick" THEN [worker[conn][i] EXCEPT !.task = "none"]
                                      ELSE worker[conn][i]]

\* stop: cancel the tick, log DRAINING, cancel the open orders, log STOPPED,
\* close the journals.
Stop(orders) ==
  /\ phase = "up" /\ Counted
  /\ phase' = "stopping"
  /\ state' = "DRAINING"
  /\ LET writes == <<Write("events", "DRAINING", calls')>>
                     \o (IF orders THEN <<Write("orders", "cancel", calls')>> ELSE <<>>)
                     \o <<Write("events", "STOPPED", calls'),
                          Close("events"), Close("account"), Close("orders")>>
         work == [c \in Conns |-> Abandoned(c)]
     IN  /\ tasks' = [tasks EXCEPT !["tick"] = <<>>, !["main"] = writes]
         /\ worker' = [work EXCEPT !["events"] = Append(@, FirstStatement("main", writes[1]))]
  /\ UNCHANGED <<acked, txn, disk, closed, pms, held, clock, restarts, returned>>

\* The process ends, by itself or not, and is started again: the transaction
\* is rolled back, statements not executed are gone.
Restart ==
  /\ phase # "down" /\ restarts < MaxRestarts
  /\ phase' = "down" /\ state' = "BOOTING" /\ acked' = FALSE
  /\ restarts' = restarts + 1
  /\ tasks' = [t \in Tasks |-> <<>>]
  /\ worker' = [c \in Conns |-> <<>>]
  /\ txn' = NoTxn /\ closed' = {}
  /\ pms' = [table \in AccountTables |-> NoReport]
  /\ UNCHANGED <<disk, held, calls, clock, returned>>

-----------------------------------------------------------------------------

Init ==
  /\ phase = "down" /\ state = "BOOTING" /\ acked = FALSE
  /\ tasks = [t \in Tasks |-> <<>>]
  /\ worker = [c \in Conns |-> <<>>]
  /\ txn = NoTxn /\ disk = <<>> /\ closed = {}
  /\ pms = [table \in AccountTables |-> NoReport] /\ held = <<>>
  /\ calls = 0 /\ clock = 0 /\ restarts = 0
  /\ returned = {}

Next ==
  \/ \E t \in OrderTasks : HandleFill(t)
  \/ \E report \in Reports : Reconcile(report)
  \/ Quarantine
  \/ Acknowledge
  \/ \E report \in Reports : AckReconcile(report)
  \/ \E c \in Conns : Work(c)
  \/ Boot
  \/ \E report \in Reports : BootReconcile(report)
  \/ \E orders \in BOOLEAN : Stop(orders)
  \/ Restart

\* A worker executes what it was sent, and the busy timeout ends a wait.
Fairness == \A c \in Conns : WF_vars(Work(c))

Spec == Init /\ [][Next]_vars /\ Fairness

-----------------------------------------------------------------------------
(* Properties. *)

\* Nobody's half-written row is ever taken for a written one: the journals
\* together implement DurableLog through rows of different tasks sharing a
\* transaction, cancelled writes, timeouts, and crashes between INSERT and
\* COMMIT (write_order, write_fill, write_*_snapshot, write).
Pending ==
  {w.row : w \in {s \in UNION {Range(worker[c]) : c \in Conns} : s.op = "insert"}}
    \cup Range(txn.rows)

Log == INSTANCE DurableLog WITH log <- disk, pending <- Pending

RowsDurable == Log!Spec

\* No order's row says it is filled while the fill's own row is not there: not
\* in the middle of a transaction, not after a crash (_on_fill).
FillRowsFirst ==
  \A row \in Range(disk) : row.table = "order" =>
    \E fill \in Range(disk) : fill.table = "fill" /\ fill.call = row.call

\* Nothing that a process restores is older than a row whose write returned,
\* though the rows of an acknowledge's reconcile and of the tick's lie between
\* each other, some of calls given up half-way: the balance whatever the clock,
\* a position too, except that of two reconciles under way at once, at equal
\* times, the later row may be the earlier one's (DefaultPositionManager.start,
\* reconcile, read_latest_balance, read_all_latest_positions).
RestoresLastKnown ==
  [][phase = "down" /\ phase' = "booting" =>
       \A row \in {row \in returned : row.table \in AccountTables} :
         LET restored == pms'[row.table]
         IN  IF row.table = "balance" THEN restored.call >= held[row.call].call
             ELSE \/ restored.time > row.time
                  \/ /\ restored.time = row.time
                     /\ restored.call >= row.call \/ restored.call \in row.beside]_vars

\* Every call that writes comes to an end, written, refused or given up, though
\* a cancelled write may keep the lock for good (busy timeout, worker threads).
WritesEnd == \A t \in Tasks : tasks[t] # <<>> ~> tasks[t] = <<>>

\* A stop never ends before it has closed the journals: "Always flushes
\* persistence" (runtime/supervisor/base.py:40).
StopFlushes == [][phase = "stopping" => phase' # "aborted"]_vars

=============================================================================
