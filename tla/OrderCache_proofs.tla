--------------------------- MODULE OrderCache_proofs ---------------------------
(***************************************************************************)
(* Proofs about what the order manager and the journal know of the venue's *)
(* orders, for any number of calls in flight, orders, requests and books,  *)
(* either journal, and any write failures and restarts.                    *)
(*                                                                         *)
(* A fill is at the venue before the order manager hears of it, and the    *)
(* order manager counts it only when its record is written.  What keeps    *)
(* the counts from running ahead is the order of the journal's queue: the  *)
(* fills of one order are counted in the order they were made, so each     *)
(* finds the count at or below the quantity it started from (FillsInOrder).*)
(* A cancel breaks into that order: it brings the venue's whole count to   *)
(* the cache at once, and a fill still being recorded is then counted      *)
(* twice there.  The journal does not take that row, because the row of    *)
(* the cancel is ahead of it and has the later time (CancelOnRecord).      *)
(*                                                                         *)
(* With SQLite the journal has each order as it is, or older, and the call *)
(* that changed it brings the rest (JournalCatchesUp, JournalFinal).  With *)
(* the in-memory journal one call runs at a time, and the cache takes each *)
(* fill once (CacheCatchesUp, FillsCountedOnce).                           *)
(***************************************************************************)
EXTENDS OrderPath_proofs

Filling(t) == tasks[t].awaits \in {"fill", "fill_row"}

\* s is ahead of t in the journal's queue.
Precedes(s, t) == \E i, j \in DOMAIN queue : i < j /\ queue[i] = s /\ queue[j] = t

\* The order manager's cache is not ahead of the venue, cancelled orders aside.
CacheBehind ==
  \A o \in Oids : allOrders[o] # NoOrder =>
    /\ cache[o].req = allOrders[o].req
    /\ allOrders[o].status # "CANCELLED" => cache[o].filled <= allOrders[o].filled

WorkingInCache == \A o \in openOrders : cache[o].status \in Working

\* A fill being recorded is one the venue has made, and starts at or above
\* what is counted of its order.
FillUnderWay(t) ==
  LET task  == tasks[t]
      order == allOrders[task.oid]
  IN  /\ task.update.req = order.req
      /\ task.update.filled <= order.filled
      /\ task.update.status = StatusAfter(task.update.filled, order.req)
      /\ task.awaits = "fill" /\ order.status # "CANCELLED" =>
           cache[task.oid].filled + task.qty <= task.update.filled

\* A fill still to be counted starts where those counted, and those ahead of
\* it, ended.
FillsInOrder ==
  \A s, t \in Tasks :
    /\ s # t /\ Filling(s) /\ tasks[t].awaits = "fill" /\ tasks[s].oid = tasks[t].oid
    /\ tasks[s].awaits = "fill_row" \/ Precedes(s, t)
    => tasks[s].update.filled + tasks[t].qty <= tasks[t].update.filled

\* A call in flight is about an order the venue has.
CallsPlaced == \A t \in Tasks : tasks[t] # Idle => allOrders[tasks[t].oid] # NoOrder

CacheInv ==
  /\ VenueInv /\ CallsPlaced /\ CacheBehind /\ WorkingInCache /\ FillsInOrder
  /\ \A t \in Tasks : Filling(t) => FillUnderWay(t)

\* Only a call between two cancels has targets, and the venue had them all
\* when it began.
TargetsKnown ==
  \A t \in Tasks : tasks[t] # Idle =>
    /\ tasks[t].targets \subseteq 1 .. nextOid
    /\ tasks[t].awaits # "cancelled" => tasks[t].targets = {}

\* The times of an order's changes, and of the rows about its fills.
Stamped ==
  /\ \A o \in Oids : allOrders[o] # NoOrder => allOrders[o].updated = clock[o]
  /\ \A t \in Tasks : Filling(t) =>
       LET order == allOrders[tasks[t].oid]
       IN  /\ tasks[t].row.updated = tasks[t].update.updated
           /\ tasks[t].update.updated <= order.updated
           /\ order.status = "CANCELLED" => tasks[t].update.updated < order.updated

\* The journal has the row of o's cancel, or one as late.
CancelOnRecord(o) == journal[o] # NoOrder /\ journal[o].updated >= allOrders[o].updated
CancelBeingWritten(s, o) ==
  /\ tasks[s].awaits = "cancelled" /\ tasks[s].oid = o
  /\ tasks[s].row.updated = allOrders[o].updated

\* With the in-memory journal one call runs at a time.
Alone ==
  wiring = "memory" =>
    /\ \A s, t \in Tasks : tasks[s] # Idle /\ tasks[t] # Idle => s = t
    /\ \A t \in Tasks : Filling(t) => allOrders[tasks[t].oid].status # "CANCELLED"

CancelsRecorded ==
  wiring = "sqlite" => \A o \in Oids \ lost : allOrders[o].status = "CANCELLED" =>
    CancelOnRecord(o) \/ \E s \in Tasks : CancelBeingWritten(s, o)

\* What the journal has of a fill, or will have before t's write is done.
CoveredAt(filled, o, t) ==
  \/ filled <= fillLog[o]
  \/ \E s \in Tasks : /\ tasks[s].awaits = "fill" /\ tasks[s].oid = o /\ Precedes(s, t)
                      /\ filled <= tasks[s].update.filled

Covered(filled, o) ==
  \/ filled <= fillLog[o]
  \/ \E s \in Tasks : /\ tasks[s].awaits = "fill" /\ tasks[s].oid = o
                      /\ filled <= tasks[s].update.filled

\* The row of a fill that the cache counts twice comes after the cancel's.
Overtaken(t) ==
  /\ wiring = "sqlite" /\ allOrders[tasks[t].oid].status = "CANCELLED"
  /\ \/ CancelOnRecord(tasks[t].oid)
     \/ \E s \in Tasks : CancelBeingWritten(s, tasks[t].oid) /\ Precedes(s, t)

RowCovered(t) ==
  LET task == tasks[t]
  IN  /\ task.awaits \in {"ack", "submitted"} => task.row.filled = 0
      /\ task.awaits = "fill" => CoveredAt(task.update.filled - task.qty, task.oid, t)
      /\ task.awaits = "fill_row" =>
           /\ task.update.filled <= fillLog[task.oid]
           /\ task.row.filled <= task.update.filled \/ Overtaken(t)
      /\ task.awaits = "update" => task.row.filled <= fillLog[task.oid]
      /\ task.awaits = "cancelled" => CoveredAt(task.row.filled, task.oid, t)

RowsCovered ==
  /\ \A o \in Oids \ lost : journal[o].filled <= fillLog[o]
  /\ \A o \in Oids \ lost : Covered(allOrders[o].filled, o)
  /\ \A t \in Tasks : tasks[t] # Idle =>
       tasks[t].submitted.filled = 0 /\ (tasks[t].oid \notin lost => RowCovered(t))

NothingLost == faults = 0 => lost = {}

\* Without a restart the recorded fills are not ahead of the venue's either.
LogBehind ==
  faults = 0 /\ restarts = 0 =>
    /\ \A o \in Oids : fillLog[o] <= allOrders[o].filled
    /\ \A t \in Tasks : tasks[t].awaits = "fill" =>
         fillLog[tasks[t].oid] + tasks[t].qty <= tasks[t].update.filled

\* The order t will leave in the journal: _on_fill's row is not its last.
Brought(t) == IF Filling(t) THEN tasks[t].update ELSE tasks[t].row
Brings(t, o) == tasks[t] # Idle /\ tasks[t].oid = o /\ Brought(t) = allOrders[o]

\* A row still to be written is the order as it is, or older.
RowInTime(t) ==
  LET task  == tasks[t]
      order == allOrders[task.oid]
  IN  /\ Brought(t).updated < order.updated \/ Brought(t) = order
      /\ task.call = "submit" =>
           task.rest \subseteq {task.oid} /\ task.submitted.updated < order.updated

\* The journal has the order as the venue has it, or an older one and the
\* newest is on its way.
JournalCatchesUp ==
  wiring = "sqlite" /\ faults = 0 /\ restarts = 0 =>
    /\ \A o \in Oids : allOrders[o] = NoOrder => journal[o] = NoOrder
    /\ \A o \in Oids : journal[o] # NoOrder => journal[o].updated <= allOrders[o].updated
    /\ \A o \in Oids : journal[o] = allOrders[o] \/ \E t \in Tasks : Brings(t, o)
    /\ \A t \in Tasks : tasks[t] # Idle => RowInTime(t)

\* With the in-memory journal the cache has the order as the venue has it, or
\* the one call in flight is recording its last fill.
CacheCatchesUp ==
  wiring = "memory" =>
    /\ \A o \in Oids : cache[o] = allOrders[o] \/ \E t \in Tasks : Filling(t) /\ tasks[t].oid = o
    /\ \A t \in Tasks : Filling(t) => tasks[t].update = allOrders[tasks[t].oid]

-----------------------------------------------------------------------------
(* What the calls do, told apart by what the cache and the journal see. *)

\* t runs, and q is the queue without it: its call begins, or its write, the
\* oldest, is done.
Runs(t, q) ==
  /\ Without(q, t)
  /\ \/ MayStart(t) /\ q = queue
     \/ tasks[t] # Idle /\ queue # <<>> /\ Head(queue) = t /\ q = Tail(queue)

\* t awaits its next write, or has returned.
Moves(t, q, next) ==
  /\ tasks'[t] = next /\ \A s \in Tasks \ {t} : tasks'[s] = tasks[s]
  /\ \/ next = Idle /\ queue' = q
     \/ next \in InFlight /\ queue' = Append(q, t)

SameCall(task, next) ==
  next.call = task.call /\ next.submitted = task.submitted /\ next.targets = task.targets

\* The venue accepts or refuses a new order, and tells the cache.
Placing(next) ==
  LET o == nextOid + 1
  IN  /\ o \in Oids /\ allOrders[o] = NoOrder /\ nextOid' = o
      /\ \E acked \in Order :
           /\ acked.status \in {"ACKED", "REJECTED"} /\ acked.filled = 0
           /\ acked.updated = clock'[o]
           /\ allOrders' = [allOrders EXCEPT ![o] = acked]
           /\ openOrders' = IF acked.status = "ACKED" THEN openOrders \cup {o} ELSE openOrders
           /\ cache' = [cache EXCEPT ![o] = acked]
           /\ next.row = acked
      /\ \A p \in Oids \ {o} : clock'[p] = clock[p]
      /\ next.awaits = "ack" /\ next.oid = o /\ next.rest \subseteq {o}
      /\ next.call = "submit" /\ next.targets = {} /\ next.submitted.filled = 0
      /\ next.submitted.status = "SUBMITTED"
      /\ next.submitted.updated \in Nat
      /\ 0 \notin ClockSteps => next.submitted.updated < clock'[o]

\* The venue fills n of o.  The cache does not know yet.
Fills(o, n, next) ==
  /\ o \in openOrders /\ o \in Oids /\ n \in Nat \ {0}
  /\ ReadsClock(o)
  /\ \E updated \in Order :
       /\ updated.req = allOrders[o].req /\ updated.filled = allOrders[o].filled + n
       /\ updated.status = StatusAfter(updated.filled, updated.req)
       /\ updated.updated = clock'[o]
       /\ allOrders' = [allOrders EXCEPT ![o] = updated]
       /\ next.update = updated /\ next.row = updated
  /\ openOrders' \subseteq openOrders
  /\ next.awaits = "fill" /\ next.oid = o /\ next.qty = n
  /\ cache' = cache /\ nextOid' = nextOid

\* The venue cancels the first of rest still open, and tells the cache.
Cancels(o, rest, next) ==
  /\ First(o, rest \cap openOrders) /\ o \in Oids
  /\ ReadsClock(o)
  /\ \E cancelled \in Order :
       /\ cancelled.req = allOrders[o].req /\ cancelled.filled = allOrders[o].filled
       /\ cancelled.status = "CANCELLED" /\ cancelled.updated = clock'[o]
       /\ allOrders' = [allOrders EXCEPT ![o] = cancelled]
       /\ cache' = [cache EXCEPT ![o] = cancelled]
       /\ next.row = cancelled
  /\ openOrders' = openOrders \ {o}
  /\ next.awaits = "cancelled" /\ next.oid = o /\ next.rest = {p \in rest : p > o}
  /\ nextOid' = nextOid

\* Neither the venue nor the cache changes.
Quiet == UNCHANGED <<allOrders, openOrders, clock, nextOid, cache>>

\* What a call does first ...
Begins(t, next) ==
  /\ MayStart(t) /\ UNCHANGED <<journal, fillLog>>
  /\ \/ Placing(next)
     \/ /\ \E o \in Oids, n \in Nat : Fills(o, n, next)
        /\ next.call = "orderbook" /\ next.submitted = NoOrder /\ next.targets = {}
     \/ \E o \in Oids, rest \in SUBSET Oids :
          /\ Cancels(o, rest, next)
          /\ next.call = "cancel" /\ next.submitted = NoOrder
          /\ next.targets \subseteq openOrders \cap rest
     \/ Quiet /\ next = Idle

\* ... and when the row it wrote is in the journal: of an order placed or filled,
GoesOn(t, next) ==
  /\ tasks[t].awaits \in {"ack", "update"}
  /\ Persist(tasks[t].oid, tasks[t].row) /\ fillLog' = fillLog
  /\ \/ \E o \in tasks[t].rest, n \in Nat :
          Fills(o, n, next) /\ SameCall(tasks[t], next) /\ next.rest \subseteq tasks[t].rest
     \/ /\ Quiet /\ SameCall(tasks[t], next) /\ next.call = "submit"
        /\ next.awaits = "submitted" /\ next.row = tasks[t].submitted
        /\ next.oid = tasks[t].oid /\ next.rest = {}
     \/ Quiet /\ next = Idle

\* of a cancel,
CancelsOn(t, next) ==
  /\ tasks[t].awaits = "cancelled"
  /\ Persist(tasks[t].oid, tasks[t].row) /\ fillLog' = fillLog
  /\ \/ \E o \in Oids : Cancels(o, tasks[t].rest, next) /\ SameCall(tasks[t], next)
     \/ Quiet /\ next = Idle

\* of the order as submitted;
Ends(t, next) ==
  /\ tasks[t].awaits = "submitted"
  /\ Persist(tasks[t].oid, tasks[t].row) /\ fillLog' = fillLog
  /\ Quiet /\ next = Idle

SameFill(task, next) ==
  /\ SameCall(task, next) /\ next.oid = task.oid /\ next.rest = task.rest
  /\ next.update = task.update /\ next.qty = task.qty
  /\ UNCHANGED <<allOrders, openOrders, clock, nextOid>>

\* the record of a fill: _on_fill counts it in the cache,
Counts(t, next) ==
  LET o == tasks[t].oid
  IN  /\ tasks[t].awaits = "fill" /\ SameFill(tasks[t], next)
      /\ next.awaits = "fill_row" /\ next.row.updated = next.update.updated
      /\ next.row.req = cache[o].req /\ next.row.filled = cache[o].filled + next.qty
      /\ next.row.status = StatusAfter(next.row.filled, next.row.req)
      /\ next.row \in Order
      /\ cache' = [cache EXCEPT ![o] = next.row]
      /\ fillLog' = [fillLog EXCEPT ![o] = @ + next.qty] /\ journal' = journal

\* and _on_fill's row: the venue's own update follows.
Updates(t, next) ==
  /\ tasks[t].awaits = "fill_row" /\ SameFill(tasks[t], next)
  /\ next.awaits = "update" /\ next.row = next.update
  /\ cache' = [cache EXCEPT ![next.oid] = next.update]
  /\ Persist(tasks[t].oid, tasks[t].row) /\ fillLog' = fillLog

Resumed(t, next) ==
  /\ tasks[t] \in InFlight /\ queue # <<>> /\ Head(queue) = t
  /\ GoesOn(t, next) \/ CancelsOn(t, next) \/ Ends(t, next) \/ Counts(t, next) \/ Updates(t, next)

-----------------------------------------------------------------------------

\* Who is ahead of whom, after t has run.
LEMMA QueueOrder ==
  ASSUME TypeOK, NEW t \in Tasks, NEW q, Runs(t, q), NEW next, Moves(t, q, next)
  PROVE  /\ \A a, b \in Tasks \ {t} : Precedes(a, b)' <=> Precedes(a, b)
         /\ \A a \in Tasks : ~ Precedes(t, a)'
         /\ next # Idle => \A a \in Tasks \ {t} : tasks[a] # Idle => Precedes(a, t)'
         /\ tasks[t] # Idle => \A a \in Tasks \ {t} : tasks[a] # Idle => Precedes(t, a)
         /\ \A a \in Tasks : ~ Precedes(a, t)
<1>1. /\ queue \in Seq(Tasks) /\ DOMAIN queue = 1 .. Len(queue) /\ Len(queue) \in Nat
      /\ \A i, j \in DOMAIN queue : queue[i] = queue[j] => i = j
      /\ \A a \in Tasks : tasks[a] # Idle <=> \E i \in DOMAIN queue : queue[i] = a
  BY DEF TypeOK, CallOK
<1>2. q \in Seq(Tasks) /\ DOMAIN q = 1 .. Len(q) /\ Len(q) \in Nat
  BY DEF Runs, Without
<1> DEFINE InQ(a, b) == \E i, j \in DOMAIN q : i < j /\ q[i] = a /\ q[j] = b
<1>3. /\ \A a, b \in Tasks \ {t} : InQ(a, b) <=> Precedes(a, b)
      /\ \A i \in DOMAIN q : q[i] # t
      /\ \A a \in Tasks \ {t} : tasks[a] # Idle => \E i \in DOMAIN q : q[i] = a
      /\ tasks[t] # Idle => \A a \in Tasks \ {t} : tasks[a] # Idle => Precedes(t, a)
      /\ \A a \in Tasks : ~ Precedes(a, t)
  <2>1. \A i \in DOMAIN q : q[i] # t
    BY <1>2 DEF Runs, Without
  <2>2. \A a \in Tasks \ {t} : tasks[a] # Idle => \E i \in DOMAIN q : q[i] = a
    BY DEF Runs, Without
  <2>3. CASE MayStart(t) /\ q = queue
    BY <1>1, <2>1, <2>2, <2>3 DEF Precedes, MayStart
  <2>4. CASE tasks[t] # Idle /\ queue # <<>> /\ Head(queue) = t /\ q = Tail(queue)
    <3>1. /\ queue[1] = t /\ Len(queue) \in Nat \ {0} /\ Len(q) = Len(queue) - 1
          /\ \A i \in 1 .. Len(queue) - 1 : q[i] = queue[i + 1]
      <4>1. /\ Head(queue) = queue[1] /\ Len(queue) \in Nat \ {0}
            /\ DOMAIN Tail(queue) = 1 .. Len(queue) - 1
            /\ \A i \in 1 .. Len(queue) - 1 : Tail(queue)[i] = queue[i + 1]
        BY <1>1, <2>4
      <4>2. Len(q) = Len(queue) - 1
        BY <1>2, <2>4, <4>1
      <4> QED BY <2>4, <4>1, <4>2
    <3>2. \A i \in DOMAIN queue : queue[i] = t => i = 1
      BY <1>1, <3>1
    <3>3. \A a \in Tasks : ~ Precedes(a, t)
      <4> SUFFICES ASSUME NEW i \in DOMAIN queue, NEW j \in DOMAIN queue, i < j, queue[j] = t
                   PROVE  FALSE
        BY DEF Precedes
      <4>1. j = 1
        BY <3>2
      <4> QED BY <1>1, <3>1, <4>1
    <3>4. ASSUME NEW a \in Tasks \ {t}, tasks[a] # Idle
          PROVE  Precedes(t, a)
      <4>1. PICK i \in DOMAIN queue : queue[i] = a
        BY <1>1, <3>4
      <4>2. i # 1 /\ 1 \in DOMAIN queue
        BY <1>1, <3>1, <4>1
      <4> QED BY <1>1, <3>1, <4>1, <4>2 DEF Precedes
    <3>5. ASSUME NEW a \in Tasks \ {t}, NEW b \in Tasks \ {t}
          PROVE  InQ(a, b) <=> Precedes(a, b)
      <4>1. ASSUME InQ(a, b) PROVE Precedes(a, b)
        <5>1. PICK i \in DOMAIN q, j \in DOMAIN q : i < j /\ q[i] = a /\ q[j] = b
          BY <4>1
        <5>2. i + 1 \in DOMAIN queue /\ j + 1 \in DOMAIN queue /\ i + 1 < j + 1
          BY <1>1, <1>2, <3>1, <5>1
        <5>3. queue[i + 1] = a /\ queue[j + 1] = b
          BY <1>1, <1>2, <3>1, <5>1
        <5> QED BY <5>2, <5>3 DEF Precedes
      <4>2. ASSUME Precedes(a, b) PROVE InQ(a, b)
        <5>1. PICK i \in DOMAIN queue, j \in DOMAIN queue :
                i < j /\ queue[i] = a /\ queue[j] = b
          BY <4>2 DEF Precedes
        <5>2. i # 1 /\ j # 1
          BY <3>1, <5>1
        <5>3. i - 1 \in DOMAIN q /\ j - 1 \in DOMAIN q /\ i - 1 < j - 1
          BY <1>1, <1>2, <3>1, <5>1, <5>2
        <5>4. q[i - 1] = a /\ q[j - 1] = b
          BY <1>1, <1>2, <3>1, <5>1, <5>3
        <5> QED BY <5>3, <5>4
      <4> QED BY <4>1, <4>2
    <3> QED BY <2>1, <2>2, <3>3, <3>4, <3>5
  <2> QED BY <2>3, <2>4 DEF Runs
<1>4. CASE next = Idle /\ queue' = q
  <2>1. \A a, b \in Tasks : Precedes(a, b)' <=> InQ(a, b)
    BY <1>4 DEF Precedes
  <2>2. \A a \in Tasks : ~ Precedes(t, a)'
    BY <1>3, <2>1
  <2> HIDE DEF InQ
  <2> QED BY <1>3, <1>4, <2>1, <2>2
<1>5. CASE next \in InFlight /\ queue' = Append(q, t)
  <2>1. /\ DOMAIN queue' = 1 .. Len(q) + 1 /\ queue'[Len(q) + 1] = t
        /\ \A i \in 1 .. Len(q) : queue'[i] = q[i]
    BY <1>2, <1>5
  <2>2. ASSUME NEW a \in Tasks \ {t}, NEW b \in Tasks \ {t}
        PROVE  Precedes(a, b)' <=> InQ(a, b)
    BY <1>2, <2>1 DEF Precedes
  <2>3. \A a \in Tasks : ~ Precedes(t, a)'
    BY <1>2, <1>3, <2>1 DEF Precedes
  <2>4. ASSUME NEW a \in Tasks \ {t}, tasks[a] # Idle
        PROVE  Precedes(a, t)'
    <3>1. PICK i \in DOMAIN q : q[i] = a
      BY <1>3, <2>4
    <3>2. i \in DOMAIN queue' /\ Len(q) + 1 \in DOMAIN queue' /\ i < Len(q) + 1
      BY <1>2, <2>1
    <3>3. queue'[i] = a
      BY <1>2, <2>1, <3>1
    <3> QED BY <2>1, <3>2, <3>3 DEF Precedes
  <2> HIDE DEF InQ
  <2> QED BY <1>3, <2>2, <2>3, <2>4
<1> QED BY <1>4, <1>5 DEF Moves

-----------------------------------------------------------------------------
(* What the calls do. *)

LEMMA SuspendMoves ==
  ASSUME TypeOK, NEW t \in Tasks, NEW q, NEW next \in InFlight, Suspend(t, next, q)
  PROVE  Moves(t, q, next)
BY DEF Suspend, Moves, TypeOK

LEMMA ReturnMoves ==
  ASSUME TypeOK, NEW t \in Tasks, NEW q, Return(t, q)
  PROVE  Moves(t, q, Idle)
BY DEF Return, Moves, TypeOK

LEMMA ApplyFillDoes ==
  ASSUME VenueInv, NEW t \in Tasks, NEW task \in Running, NEW q,
         NEW o \in openOrders, FillQty(allOrders[o], task.book) > 0,
         ApplyFill(t, task, o, q), cache' = cache
  PROVE  \E next \in InFlight, n \in Nat :
           /\ Moves(t, q, next) /\ Fills(o, n, next)
           /\ SameCall(task, next) /\ next.rest \subseteq task.rest
<1> DEFINE n       == FillQty(allOrders[o], task.book)
           updated == [allOrders[o] EXCEPT
                         !.filled  = @ + n,
                         !.status  = StatusAfter(allOrders[o].filled + n, allOrders[o].req),
                         !.updated = clock'[o]]
           next    == [task EXCEPT !.awaits = "fill", !.oid = o, !.row = updated, !.qty = n,
                                   !.update = updated, !.rest = {p \in @ : p > o}]
<1>1. o \in Oids /\ allOrders[o] \in Order
  BY DEF VenueInv, TypeOK, OpenIffWorking, NoOrder
<1>2. clock' \in [Oids -> Nat] /\ ReadsClock(o)
  <2>1. ReadsClock(o)
    BY DEF ApplyFill
  <2>2. clock' \in [Oids -> Nat]
    BY <1>1, <2>1, OrderPathAssumption DEF ReadsClock, VenueInv, TypeOK
  <2> QED BY <2>1, <2>2
<1>3. n \in Nat \ {0} /\ allOrders[o].filled + n \in Nat
  <2>1. task.book \in Books \cup {NoBook}
    BY DEF Running
  <2> QED BY <1>1, <2>1, FillQtyBound DEF Order
<1>4. /\ updated \in Order
      /\ updated.req = allOrders[o].req /\ updated.filled = allOrders[o].filled + n
      /\ updated.status = StatusAfter(updated.filled, updated.req)
      /\ updated.updated = clock'[o]
  <2>1. StatusAfter(allOrders[o].filled + n, allOrders[o].req) \in Terminal \cup Working
    BY DEF StatusAfter, Terminal, Working
  <2> HIDE DEF n
  <2> QED BY <1>1, <1>2, <1>3, <2>1 DEF Order
<1>5. /\ allOrders' = [allOrders EXCEPT ![o] = updated]
      /\ openOrders' \subseteq openOrders
      /\ nextOid' = nextOid
      /\ Suspend(t, next, q)
  BY <1>1 DEF ApplyFill, WithoutOrder
<1> HIDE DEF updated
<1>6. next \in InFlight
  BY <1>1, <1>3, <1>4 DEF Running, InFlight, Awaits
<1>7. /\ next.call = task.call /\ next.submitted = task.submitted
      /\ next.targets = task.targets /\ next.oid = o /\ next.qty = n
      /\ next.update = updated /\ next.row = updated /\ next.awaits = "fill"
      /\ next.rest \subseteq task.rest
  BY DEF Running
<1> HIDE DEF next, n
<1>8. Moves(t, q, next)
  BY <1>5, <1>6, SuspendMoves DEF VenueInv
<1>9. Fills(o, n, next)
  BY <1>1, <1>2, <1>3, <1>4, <1>5, <1>7 DEF Fills
<1> QED BY <1>3, <1>6, <1>7, <1>8, <1>9 DEF SameCall

LEMMA TryFillsDoes ==
  ASSUME VenueInv, NEW t \in Tasks, NEW task \in Running, NEW q,
         task.call = "submit" => task.submitted \in Order /\ task.oid \in Oids,
         TryFills(t, task, q), cache' = cache
  PROVE  \/ \E next \in InFlight, o \in Oids, n \in Nat :
              /\ Moves(t, q, next) /\ Fills(o, n, next) /\ o \in task.rest
              /\ SameCall(task, next) /\ next.rest \subseteq task.rest
         \/ Moves(t, q, Idle) /\ Quiet
         \/ \E next \in InFlight :
              /\ Moves(t, q, next) /\ Quiet /\ SameCall(task, next)
              /\ next.call = "submit" /\ next.awaits = "submitted"
              /\ next.row = task.submitted /\ next.oid = task.oid /\ next.rest = {}
<1>1. CASE \E o \in Oids : First(o, Fillable(task)) /\ ApplyFill(t, task, o, q)
  <2>1. PICK o \in Oids : First(o, Fillable(task)) /\ ApplyFill(t, task, o, q)
    BY <1>1
  <2>2. o \in openOrders /\ o \in task.rest /\ FillQty(allOrders[o], task.book) > 0
    BY <2>1 DEF First, Fillable
  <2>3. \E next \in InFlight, n \in Nat :
           /\ Moves(t, q, next) /\ Fills(o, n, next)
           /\ SameCall(task, next) /\ next.rest \subseteq task.rest
    BY <2>1, <2>2, ApplyFillDoes
  <2> QED BY <2>2, <2>3
<1>2. CASE Return(t, q) /\ UNCHANGED <<venueVars, clock>>
  BY <1>2, ReturnMoves DEF VenueInv, Quiet, venueVars
<1>3. ASSUME task.call = "submit", UNCHANGED <<venueVars, clock>>,
             Suspend(t, [task EXCEPT !.awaits = "submitted", !.row = task.submitted, !.rest = {},
                                     !.update = NoOrder, !.qty = 0, !.book = NoBook], q)
      PROVE  \E next \in InFlight :
               /\ Moves(t, q, next) /\ Quiet /\ SameCall(task, next)
               /\ next.call = "submit" /\ next.awaits = "submitted"
               /\ next.row = task.submitted /\ next.oid = task.oid /\ next.rest = {}
  <2> DEFINE next == [task EXCEPT !.awaits = "submitted", !.row = task.submitted, !.rest = {},
                                  !.update = NoOrder, !.qty = 0, !.book = NoBook]
  <2>1. next \in InFlight
    BY <1>3 DEF Running, InFlight, Awaits
  <2>2. /\ next.call = "submit" /\ next.awaits = "submitted" /\ next.row = task.submitted
        /\ next.oid = task.oid /\ next.rest = {} /\ SameCall(task, next)
    BY <1>3 DEF Running, SameCall
  <2>3. Suspend(t, next, q)
    BY <1>3
  <2> HIDE DEF next
  <2>4. Moves(t, q, next)
    BY <2>1, <2>3, SuspendMoves DEF VenueInv
  <2> QED BY <1>3, <2>1, <2>2, <2>4 DEF Quiet, venueVars
<1> QED BY <1>1, <1>2, <1>3 DEF TryFills

LEMMA TryCancelsDoes ==
  ASSUME VenueInv, NEW t \in Tasks, NEW task \in Running, NEW q, TryCancels(t, task, q)
  PROVE  \/ \E next \in InFlight, o \in Oids :
              /\ Moves(t, q, next) /\ Cancels(o, task.rest, next) /\ SameCall(task, next)
         \/ Moves(t, q, Idle) /\ Quiet
<1>1. CASE Return(t, q) /\ UNCHANGED <<venueVars, cache, clock>>
  BY <1>1, ReturnMoves DEF VenueInv, Quiet, venueVars
<1>2. ASSUME NEW o \in Oids, First(o, task.rest \cap openOrders), ReadsClock(o),
             UNCHANGED <<nextOid, position>>,
             LET cancelled == [allOrders[o] EXCEPT !.status = "CANCELLED", !.updated = clock'[o]]
             IN  /\ allOrders' = [allOrders EXCEPT ![o] = cancelled]
                 /\ openOrders' = WithoutOrder(o)
                 /\ OnOrderUpdate(o, cancelled)
                 /\ Suspend(t, [task EXCEPT !.awaits = "cancelled", !.oid = o, !.row = cancelled,
                                            !.rest = {p \in @ : p > o}], q)
      PROVE  \E next \in InFlight :
               Moves(t, q, next) /\ Cancels(o, task.rest, next) /\ SameCall(task, next)
  <2> DEFINE cancelled == [allOrders[o] EXCEPT !.status = "CANCELLED", !.updated = clock'[o]]
             next == [task EXCEPT !.awaits = "cancelled", !.oid = o, !.row = cancelled,
                                  !.rest = {p \in @ : p > o}]
  <2>1. allOrders[o] \in Order
    BY <1>2 DEF First, VenueInv, TypeOK, OpenIffWorking, NoOrder
  <2>2. clock' \in [Oids -> Nat]
    BY <1>2, OrderPathAssumption DEF ReadsClock, VenueInv, TypeOK
  <2>3. /\ cancelled \in Order /\ cancelled.req = allOrders[o].req
        /\ cancelled.filled = allOrders[o].filled
        /\ cancelled.status = "CANCELLED" /\ cancelled.updated = clock'[o]
    BY <2>1, <2>2 DEF Order, Terminal
  <2>4. /\ allOrders' = [allOrders EXCEPT ![o] = cancelled]
        /\ openOrders' = openOrders \ {o}
        /\ cache' = [cache EXCEPT ![o] = cancelled]
        /\ Suspend(t, next, q)
    BY <1>2 DEF WithoutOrder, OnOrderUpdate
  <2> HIDE DEF cancelled
  <2>5. next \in InFlight
    BY <2>3 DEF Running, InFlight, Awaits
  <2>6. /\ next.awaits = "cancelled" /\ next.oid = o /\ next.row = cancelled
        /\ next.rest = {p \in task.rest : p > o} /\ SameCall(task, next)
    BY DEF Running, SameCall
  <2> HIDE DEF next
  <2>7. Moves(t, q, next)
    BY <2>4, <2>5, SuspendMoves DEF VenueInv
  <2>8. Cancels(o, task.rest, next)
    BY <1>2, <2>3, <2>4, <2>6 DEF Cancels
  <2> QED BY <2>5, <2>6, <2>7, <2>8
<1> QED BY <1>1, <1>2 DEF TryCancels

LEMMA SubmitDoes ==
  ASSUME VenueInv, NEW t \in Tasks, NEW req \in Requests, Submit(t, req)
  PROVE  \E next \in InFlight : Moves(t, queue, next) /\ Begins(t, next)
<1>1. PICK d1 \in ClockSteps, d2 \in ClockSteps, s \in {"ACKED", "REJECTED"},
           rest \in SUBSET {nextOid + 1} :
        LET o     == nextOid + 1
            acked == [req |-> req, status |-> s, filled |-> 0, updated |-> clock[o] + d1 + d2]
            first == [req |-> req, status |-> "SUBMITTED", filled |-> 0,
                      updated |-> clock[o] + d1]
        IN  /\ nextOid' = o
            /\ clock' = [clock EXCEPT ![o] = @ + d1 + d2]
            /\ allOrders' = [allOrders EXCEPT ![o] = acked]
            /\ openOrders' = IF s = "ACKED" THEN openOrders \cup {o} ELSE openOrders
            /\ cache' = [cache EXCEPT ![o] = acked]
            /\ Suspend(t, NewCall("submit", rest, NoBook, acked, first), queue)
  BY DEF Submit, OnOrderUpdate
<1> DEFINE o     == nextOid + 1
           acked == [req |-> req, status |-> s, filled |-> 0, updated |-> clock[o] + d1 + d2]
           first == [req |-> req, status |-> "SUBMITTED", filled |-> 0, updated |-> clock[o] + d1]
           next  == NewCall("submit", rest, NoBook, acked, first)
<1>2. o \in Oids /\ nextOid \in Nat /\ nextOid < MaxOrders /\ allOrders[o] = NoOrder
  BY OrderPathAssumption DEF Submit, Oids, VenueInv, TypeOK
<1>3. /\ clock[o] \in Nat /\ d1 \in Nat /\ d2 \in Nat /\ clock[o] + d1 + d2 \in Nat
      /\ clock[o] + d1 \in Nat
  BY <1>2, OrderPathAssumption DEF VenueInv, TypeOK
<1>4. /\ clock'[o] = clock[o] + d1 + d2 /\ \A p \in Oids \ {o} : clock'[p] = clock[p]
      /\ nextOid' = o
  BY <1>1, <1>2 DEF VenueInv, TypeOK
<1>5. /\ acked \in Order /\ first \in Order
      /\ acked.status = s /\ acked.filled = 0 /\ acked.updated = clock'[o]
      /\ first.filled = 0 /\ first.updated = clock[o] + d1 /\ first.status = "SUBMITTED"
  BY <1>3, <1>4 DEF Order, Terminal, Working
<1>6. 0 \notin ClockSteps => first.updated < clock'[o]
  <2>1. 0 \notin ClockSteps => d2 # 0
    OBVIOUS
  <2>2. first.updated = clock[o] + d1 /\ clock'[o] = clock[o] + d1 + d2
    BY <1>4, <1>5
  <2> HIDE DEF first
  <2> QED BY <1>3, <2>1, <2>2
<1>7. /\ allOrders' = [allOrders EXCEPT ![o] = acked]
      /\ openOrders' = IF acked.status = "ACKED" THEN openOrders \cup {o} ELSE openOrders
      /\ cache' = [cache EXCEPT ![o] = acked]
      /\ Suspend(t, next, queue)
  BY <1>1
<1> HIDE DEF acked, first
<1>8. next \in InFlight
  BY <1>2, <1>5 DEF NewCall, InFlight, Calls, Awaits
<1>9. /\ next.call = "submit" /\ next.submitted = first /\ next.awaits = "ack"
      /\ next.row = acked /\ next.oid = o /\ next.rest \subseteq {o} /\ next.targets = {}
  BY DEF NewCall
<1> HIDE DEF next
<1>10. Moves(t, queue, next)
  BY <1>7, <1>8, SuspendMoves DEF VenueInv
<1>11. first.updated \in Nat
  BY <1>3, <1>5
<1>12. Placing(next)
  BY <1>1, <1>2, <1>4, <1>5, <1>6, <1>7, <1>9, <1>11 DEF Placing
<1>13. MayStart(t) /\ UNCHANGED <<journal, fillLog>>
  BY DEF Submit
<1> QED BY <1>8, <1>10, <1>12, <1>13 DEF Begins

LEMMA OrderbookDoes ==
  ASSUME VenueInv, NEW t \in Tasks, NEW book \in Books, Orderbook(t, book)
  PROVE  \E next \in InFlight \cup {Idle} : Moves(t, queue, next) /\ Begins(t, next)
<1> DEFINE task == NewCall("orderbook", openOrders, book, NoOrder, NoOrder)
<1>1. /\ task \in Running /\ task.call = "orderbook" /\ task.submitted = NoOrder
      /\ task.targets = {}
  BY DEF NewCall, Running, Calls, Awaits, VenueInv, TypeOK
<1>2. TryFills(t, task, queue)
  BY DEF Orderbook
<1> HIDE DEF task
<1>3. \/ \E next \in InFlight, o \in Oids, n \in Nat :
           Moves(t, queue, next) /\ Fills(o, n, next) /\ SameCall(task, next)
      \/ Moves(t, queue, Idle) /\ Quiet
  <2>1. cache' = cache
    BY DEF Orderbook
  <2> QED BY <1>1, <1>2, <2>1, TryFillsDoes DEF SameCall
<1>4. MayStart(t) /\ UNCHANGED <<journal, fillLog>>
  BY DEF Orderbook
<1> QED BY <1>1, <1>3, <1>4 DEF Begins, SameCall

LEMMA CancelDoes ==
  ASSUME CacheInv, NEW t \in Tasks, (\E o \in Oids : Cancel(t, o)) \/ CancelAll(t)
  PROVE  \E next \in InFlight \cup {Idle} : Moves(t, queue, next) /\ Begins(t, next)
<1>1. MayStart(t) /\ UNCHANGED <<journal, fillLog>>
  BY DEF Cancel, CancelAll
<1>2. PICK task \in Running :
        /\ task.call = "cancel" /\ task.submitted = NoOrder
        /\ task.targets \subseteq openOrders \cap task.rest
        /\ TryCancels(t, task, queue)
  <2>1. ASSUME NEW o \in Oids, Cancel(t, o)
        PROVE  \E task \in Running :
                 /\ task.call = "cancel" /\ task.submitted = NoOrder
                 /\ task.targets \subseteq openOrders \cap task.rest
                 /\ TryCancels(t, task, queue)
    <3> DEFINE task == NewCall("cancel", {o}, NoBook, NoOrder, NoOrder)
    <3>1. /\ task \in Running /\ task.call = "cancel" /\ task.submitted = NoOrder
          /\ task.targets = {}
      BY DEF NewCall, Running, Calls, Awaits, CacheInv, VenueInv, TypeOK
    <3> QED BY <2>1, <3>1 DEF Cancel
  <2>2. ASSUME CancelAll(t)
        PROVE  \E task \in Running :
                 /\ task.call = "cancel" /\ task.submitted = NoOrder
                 /\ task.targets \subseteq openOrders \cap task.rest
                 /\ TryCancels(t, task, queue)
    <3> DEFINE call == NewCall("cancel", OpenInCache, NoBook, NoOrder, NoOrder)
               task == [call EXCEPT !.targets = openOrders]
    <3>1. OpenInCache \in SUBSET Oids /\ openOrders \subseteq OpenInCache
      BY DEF OpenInCache, CacheInv, WorkingInCache, VenueInv, TypeOK
    <3>2. call \in Running /\ call.call = "cancel" /\ call.submitted = NoOrder
            /\ call.rest = OpenInCache
      BY <3>1 DEF NewCall, Running, Calls, Awaits, CacheInv, VenueInv, TypeOK
    <3>3. TryCancels(t, task, queue)
      BY <2>2 DEF CancelAll
    <3> HIDE DEF call
    <3>4. openOrders \in SUBSET Oids
      BY DEF CacheInv, VenueInv, TypeOK
    <3>5. /\ task \in Running /\ task.call = "cancel" /\ task.submitted = NoOrder
          /\ task.rest = OpenInCache /\ task.targets = openOrders
      BY <3>2, <3>4 DEF Running
    <3> HIDE DEF task
    <3> QED BY <3>1, <3>3, <3>5
  <2> QED BY <2>1, <2>2
<1>3. \/ \E next \in InFlight, o \in Oids :
           Moves(t, queue, next) /\ Cancels(o, task.rest, next) /\ SameCall(task, next)
      \/ Moves(t, queue, Idle) /\ Quiet
  BY <1>2, TryCancelsDoes DEF CacheInv
<1>4. task.rest \in SUBSET Oids
  BY <1>2 DEF Running
<1> QED BY <1>1, <1>2, <1>3, <1>4 DEF Begins, SameCall

LEMMA FillsResumeDoes ==
  ASSUME VenueInv, NEW t \in Tasks, AckWritten(t) \/ UpdateWritten(t)
  PROVE  \E next \in InFlight \cup {Idle} : Moves(t, Tail(queue), next) /\ GoesOn(t, next)
<1>1. /\ tasks[t] \in Running /\ tasks[t].oid \in Oids /\ Carries(tasks[t], allOrders)
  BY ResumedCall DEF AckWritten, UpdateWritten, Resumes
<1> DEFINE task == IF AckWritten(t) THEN [tasks[t] EXCEPT !.book = latestBook] ELSE tasks[t]
<1>2. /\ task \in Running /\ task.oid = tasks[t].oid /\ task.call = tasks[t].call
      /\ task.submitted = tasks[t].submitted /\ task.targets = tasks[t].targets
      /\ task.rest = tasks[t].rest
  BY <1>1 DEF Running, VenueInv, TypeOK
<1>3. /\ TryFills(t, task, Tail(queue)) /\ Persist(tasks[t].oid, tasks[t].row)
      /\ tasks[t].awaits \in {"ack", "update"} /\ fillLog' = fillLog /\ cache' = cache
  BY DEF AckWritten, UpdateWritten, Resumes
<1> HIDE DEF task
<1>4. task.call = "submit" => task.submitted \in Order /\ task.oid \in Oids
  BY <1>1, <1>2 DEF Carries
<1>5. \/ \E next \in InFlight, o \in Oids, n \in Nat :
           /\ Moves(t, Tail(queue), next) /\ Fills(o, n, next) /\ o \in task.rest
           /\ SameCall(task, next) /\ next.rest \subseteq task.rest
      \/ Moves(t, Tail(queue), Idle) /\ Quiet
      \/ \E next \in InFlight :
           /\ Moves(t, Tail(queue), next) /\ Quiet /\ SameCall(task, next)
           /\ next.call = "submit" /\ next.awaits = "submitted"
           /\ next.row = task.submitted /\ next.oid = task.oid /\ next.rest = {}
  BY <1>2, <1>3, <1>4, TryFillsDoes
<1> QED BY <1>2, <1>3, <1>5 DEF GoesOn, SameCall

LEMMA CancelResumesDoes ==
  ASSUME VenueInv, NEW t \in Tasks, CancelWritten(t)
  PROVE  \E next \in InFlight \cup {Idle} : Moves(t, Tail(queue), next) /\ CancelsOn(t, next)
<1>1. tasks[t] \in Running
  BY ResumedCall DEF CancelWritten, Resumes
<1>2. /\ TryCancels(t, tasks[t], Tail(queue)) /\ Persist(tasks[t].oid, tasks[t].row)
      /\ tasks[t].awaits = "cancelled" /\ fillLog' = fillLog
  BY DEF CancelWritten, Resumes
<1> QED BY <1>1, <1>2, TryCancelsDoes DEF CancelsOn

LEMMA FillWrittenDoes ==
  ASSUME VenueInv, NEW t \in Tasks, FillWritten(t)
  PROVE  \E next \in InFlight : Moves(t, Tail(queue), next) /\ Counts(t, next)
<1> DEFINE task   == tasks[t]
           cached == cache[task.oid]
           filled == cached.filled + task.qty
           row    == [cached EXCEPT !.filled  = filled,
                                    !.status  = StatusAfter(filled, cached.req),
                                    !.updated = task.update.updated]
           next   == [task EXCEPT !.awaits = "fill_row", !.row = row]
<1>1. /\ task \in InFlight /\ task.oid \in Oids
      /\ Carries(task, allOrders) /\ task.awaits = "fill"
  BY ResumedCall DEF FillWritten, Resumes
<1>2. cached \in Order /\ task.update \in Order /\ task.qty \in Nat
  BY <1>1 DEF Carries, VenueInv, TypeOK, InFlight
<1>3. /\ row \in Order /\ row.updated = task.update.updated /\ row.req = cached.req
      /\ row.filled = cached.filled + task.qty
      /\ row.status = StatusAfter(row.filled, row.req)
  <2>1. filled \in Nat /\ StatusAfter(filled, cached.req) \in Terminal \cup Working
    BY <1>2 DEF Order, StatusAfter, Terminal, Working
  <2>2. task.update.updated \in Nat
    BY <1>2 DEF Order
  <2> DEFINE time == task.update.updated
  <2>3. filled = cached.filled + task.qty /\ row = [cached EXCEPT !.filled  = filled,
                                    !.status  = StatusAfter(filled, cached.req),
                                    !.updated = time]
    OBVIOUS
  <2> HIDE DEF filled, cached, time
  <2> QED BY <1>2, <2>1, <2>2, <2>3 DEF Order, time
<1>4. /\ fillLog' = [fillLog EXCEPT ![task.oid] = @ + task.qty]
      /\ cache' = [cache EXCEPT ![task.oid] = row]
      /\ Suspend(t, next, Tail(queue)) /\ journal' = journal
      /\ UNCHANGED <<allOrders, openOrders, clock, nextOid>>
  BY DEF FillWritten, OrderAtFill, venueVars
<1> HIDE DEF row
<1>5. next \in InFlight
  BY <1>1, <1>3 DEF InFlight, Awaits
<1>6. /\ SameFill(task, next) /\ next.awaits = "fill_row" /\ next.row = row
      /\ next.update = task.update /\ next.qty = task.qty
  BY <1>1, <1>4 DEF InFlight, SameFill, SameCall
<1> HIDE DEF next
<1>7. Moves(t, Tail(queue), next)
  BY <1>4, <1>5, SuspendMoves DEF VenueInv
<1>8. Counts(t, next)
  BY <1>1, <1>3, <1>4, <1>6 DEF Counts
<1> QED BY <1>5, <1>7, <1>8

LEMMA FillRowDoes ==
  ASSUME VenueInv, NEW t \in Tasks, FillRowWritten(t)
  PROVE  \E next \in InFlight : Moves(t, Tail(queue), next) /\ Updates(t, next)
<1> DEFINE task == tasks[t]
           next == [task EXCEPT !.awaits = "update", !.row = task.update]
<1>1. /\ task \in InFlight /\ Carries(task, allOrders) /\ task.awaits = "fill_row"
  BY ResumedCall DEF FillRowWritten, Resumes
<1>2. task.update \in Order
  BY <1>1 DEF Carries
<1>3. /\ Persist(task.oid, task.row)
      /\ cache' = [cache EXCEPT ![task.oid] = task.update]
      /\ Suspend(t, next, Tail(queue)) /\ fillLog' = fillLog
      /\ UNCHANGED <<allOrders, openOrders, clock, nextOid>>
  BY DEF FillRowWritten, OnOrderUpdate, venueVars
<1>4. next \in InFlight
  BY <1>1, <1>2 DEF InFlight, Awaits
<1>5. /\ SameFill(task, next) /\ next.awaits = "update" /\ next.row = task.update
      /\ next.update = task.update /\ next.oid = task.oid
  BY <1>1, <1>3 DEF InFlight, SameFill, SameCall
<1> HIDE DEF next
<1>6. Moves(t, Tail(queue), next)
  BY <1>3, <1>4, SuspendMoves DEF VenueInv
<1> QED BY <1>1, <1>3, <1>4, <1>5, <1>6 DEF Updates

\* The callbacks cached the order long before its SUBMITTED row is written.
LEMMA SubmittedDoes ==
  ASSUME CacheInv, NEW t \in Tasks, SubmittedWritten(t)
  PROVE  Moves(t, Tail(queue), Idle) /\ Ends(t, Idle)
<1>1. tasks[t] \in InFlight /\ tasks[t].oid \in Oids
  BY ResumedCall DEF SubmittedWritten, Resumes, CacheInv
<1>2. cache[tasks[t].oid] # NoOrder
  BY <1>1, InFlightIsNotIdle DEF CacheInv, CallsPlaced, VenueInv, TypeOK
<1>3. /\ Persist(tasks[t].oid, tasks[t].row) /\ tasks[t].awaits = "submitted"
      /\ fillLog' = fillLog /\ UNCHANGED <<venueVars, clock>> /\ Return(t, Tail(queue))
      /\ cache' = [cache EXCEPT ![tasks[t].oid] = IF @ = NoOrder THEN tasks[t].row ELSE @]
  BY DEF SubmittedWritten, Resumes
<1>4. cache' = cache
  BY <1>2, <1>3 DEF CacheInv, VenueInv, TypeOK
<1> QED BY <1>3, <1>4, ReturnMoves DEF CacheInv, VenueInv, Ends, Quiet, venueVars

\* Whatever a call does is one of the above, or its write raises.
LEMMA StepDoes ==
  ASSUME CacheInv, NEW t \in Tasks, Step(t)
  PROVE  /\ UNCHANGED wiring
         /\ \/ \E q : Runs(t, q) /\ Moves(t, q, Idle) /\ WriteRaises(t)
            \/ \E q, next : /\ Runs(t, q) /\ Moves(t, q, next)
                            /\ Begins(t, next) \/ Resumed(t, next)
                            /\ UNCHANGED <<faults, restarts, lost>>
<1>1. CASE WriteRaises(t)
  <2>1. Without(Tail(queue), t) /\ tasks[t] # Idle
    BY <1>1, ResumedCall, InFlightIsNotIdle DEF WriteRaises, CacheInv
  <2>2. Moves(t, Tail(queue), Idle)
    BY <1>1, ReturnMoves DEF WriteRaises, CacheInv, VenueInv
  <2> QED BY <1>1, <2>1, <2>2 DEF Runs, WriteRaises, Step
<1>2. ASSUME (\E req \in Requests : Submit(t, req)) \/ (\E book \in Books : Orderbook(t, book))
             \/ (\E o \in Oids : Cancel(t, o)) \/ CancelAll(t),
             UNCHANGED lost
      PROVE  \E q, next : /\ Runs(t, q) /\ Moves(t, q, next) /\ Begins(t, next)
                          /\ UNCHANGED <<faults, restarts, lost>>
  <2>1. \E next \in InFlight \cup {Idle} : Moves(t, queue, next) /\ Begins(t, next)
    BY <1>2, SubmitDoes, OrderbookDoes, CancelDoes DEF CacheInv
  <2>2. MayStart(t) /\ UNCHANGED <<faults, restarts, lost>>
    BY <1>2 DEF Submit, Orderbook, Cancel, CancelAll
  <2>3. Runs(t, queue)
    BY <2>2, Starts DEF Runs, CacheInv, VenueInv
  <2> QED BY <2>1, <2>2, <2>3
<1>3. ASSUME WriteCompletes(t)
      PROVE  \E q, next : /\ Runs(t, q) /\ Moves(t, q, next) /\ Resumed(t, next)
                          /\ UNCHANGED <<faults, restarts, lost>>
  <2>1. queue # <<>> /\ Head(queue) = t /\ UNCHANGED <<faults, restarts, lost>>
    BY <1>3 DEF WriteCompletes, AckWritten, FillWritten, FillRowWritten, UpdateWritten,
                CancelWritten, SubmittedWritten, Resumes
  <2>2. tasks[t] \in InFlight /\ Runs(t, Tail(queue))
    BY <2>1, ResumedCall, InFlightIsNotIdle DEF CacheInv, Runs
  <2>3. \E next : /\ Moves(t, Tail(queue), next)
                  /\ GoesOn(t, next) \/ CancelsOn(t, next) \/ Ends(t, next)
                     \/ Counts(t, next) \/ Updates(t, next)
    <3>1. CASE AckWritten(t) \/ UpdateWritten(t)
      BY <3>1, FillsResumeDoes DEF CacheInv
    <3>2. CASE CancelWritten(t)
      BY <3>2, CancelResumesDoes DEF CacheInv
    <3>3. CASE FillWritten(t)
      BY <3>3, FillWrittenDoes DEF CacheInv
    <3>4. CASE FillRowWritten(t)
      BY <3>4, FillRowDoes DEF CacheInv
    <3>5. CASE SubmittedWritten(t)
      BY <3>5, SubmittedDoes
    <3> QED BY <1>3, <3>1, <3>2, <3>3, <3>4, <3>5 DEF WriteCompletes
  <2> QED BY <2>1, <2>2, <2>3 DEF Resumed
<1> QED BY <1>1, <1>2, <1>3 DEF Step

-----------------------------------------------------------------------------
(* The cache. *)

LEMMA FillingTypes ==
  ASSUME CacheInv, NEW s \in Tasks, Filling(s)
  PROVE  /\ tasks[s] \in InFlight /\ tasks[s] # Idle /\ tasks[s].oid \in Oids
         /\ tasks[s].update \in Order /\ tasks[s].qty \in Nat /\ tasks[s].update.filled \in Nat
         /\ tasks[s].update.updated \in Nat
         /\ allOrders[tasks[s].oid] \in Order /\ cache[tasks[s].oid] \in Order
         /\ allOrders[tasks[s].oid].filled \in Nat /\ cache[tasks[s].oid].filled \in Nat
<1>1. tasks[s] \in InFlight /\ tasks[s] # Idle
  BY InFlightIsNotIdle DEF Filling, Idle, CacheInv, VenueInv, TypeOK
<1>2. tasks[s].oid \in Oids /\ tasks[s].update \in Order /\ tasks[s].qty \in Nat
        /\ allOrders[tasks[s].oid] # NoOrder
  BY <1>1 DEF Filling, CacheInv, VenueInv, TypeOK, CallOK, InFlight
<1>3. allOrders[tasks[s].oid] \in Order /\ cache[tasks[s].oid] \in Order
  BY <1>2 DEF CacheInv, VenueInv, TypeOK
<1>4. \A order \in Order : order.filled \in Nat /\ order.updated \in Nat
  BY DEF Order
<1> QED BY <1>1, <1>2, <1>3, <1>4

LEMMA MovesTo ==
  ASSUME NEW t \in Tasks, NEW q, NEW next, Moves(t, q, next)
  PROVE  /\ tasks'[t] = next /\ \A s \in Tasks \ {t} : tasks'[s] = tasks[s]
         /\ next # Idle => next \in InFlight
         /\ next = Idle => next.awaits = "nothing"
BY DEF Moves, Idle

\* Only the call that ran can have put two fills out of order.
LEMMA FillsStayInOrder ==
  ASSUME CacheInv, NEW t \in Tasks, NEW q, NEW next, Runs(t, q), Moves(t, q, next),
         \/ next.awaits \notin {"fill", "fill_row"}
         \/ /\ next.awaits = "fill"
            /\ \A s \in Tasks \ {t} : Filling(s) /\ tasks[s].oid = next.oid =>
                 tasks[s].update.filled + next.qty <= next.update.filled
         \/ /\ next.awaits = "fill_row" /\ tasks[t].awaits = "fill"
            /\ next.oid = tasks[t].oid /\ next.update = tasks[t].update
  PROVE  FillsInOrder'
<1> SUFFICES ASSUME NEW r \in Tasks, NEW s \in Tasks, r # s, Filling(r)',
                    tasks'[s].awaits = "fill", tasks'[r].oid = tasks'[s].oid,
                    tasks'[r].awaits = "fill_row" \/ Precedes(r, s)'
             PROVE  tasks'[r].update.filled + tasks'[s].qty <= tasks'[s].update.filled
  BY DEF FillsInOrder
<1>1. TypeOK /\ FillsInOrder
  BY DEF CacheInv, VenueInv
<1>2. /\ \A a, b \in Tasks \ {t} : Precedes(a, b)' <=> Precedes(a, b)
      /\ \A a \in Tasks : ~ Precedes(t, a)'
      /\ tasks[t] # Idle => \A a \in Tasks \ {t} : tasks[a] # Idle => Precedes(t, a)
  BY <1>1, QueueOrder
<1>3. tasks'[t] = next /\ \A a \in Tasks \ {t} : tasks'[a] = tasks[a]
  BY MovesTo
<1>4. CASE r # t /\ s # t
  BY <1>1, <1>2, <1>3, <1>4 DEF FillsInOrder, Filling
<1>5. CASE s = t
  BY <1>3, <1>5 DEF Filling
<1>6. CASE r = t
  <2>1. next.awaits = "fill_row" /\ tasks[t].awaits = "fill"
          /\ next.oid = tasks[t].oid /\ next.update = tasks[t].update
    BY <1>2, <1>3, <1>6 DEF Filling
  <2>2. Precedes(t, s) /\ tasks'[s] = tasks[s] /\ Filling(t)
    BY <1>2, <1>3, <1>6, <2>1 DEF Filling, Idle
  <2> QED BY <1>1, <1>3, <1>6, <2>1, <2>2 DEF FillsInOrder
<1> QED BY <1>4, <1>5, <1>6

CacheParts ==
  /\ CallsPlaced /\ CacheBehind /\ WorkingInCache /\ FillsInOrder
  /\ \A t \in Tasks : Filling(t) => FillUnderWay(t)

\* An order open at the venue has not been filled up.
LEMMA OpenIsNotFull ==
  ASSUME VenueInv, NEW o \in openOrders
  PROVE  /\ o \in Oids /\ allOrders[o] \in Order /\ allOrders[o] # NoOrder
         /\ allOrders[o].status # "CANCELLED"
         /\ allOrders[o].filled \in Nat /\ allOrders[o].req.quantity \in Nat
         /\ allOrders[o].filled < allOrders[o].req.quantity
<1>1. o \in Oids /\ allOrders[o].status \in {"ACKED", "PARTIALLY_FILLED"}
  BY DEF VenueInv, OpenIffWorking
<1>2. allOrders[o] \in Order /\ allOrders[o] # NoOrder
  BY <1>1, NotNoOrder DEF VenueInv, TypeOK, NoOrder
<1>3. allOrders[o].filled \in Nat /\ allOrders[o].req.quantity \in Nat
  BY <1>2, OrderPathAssumption DEF Order
<1>4. /\ allOrders[o].filled <= allOrders[o].req.quantity
      /\ allOrders[o].filled # allOrders[o].req.quantity
  BY <1>1, <1>2 DEF VenueInv, NeverOverfilled
<1> QED BY <1>1, <1>2, <1>3, <1>4

LEMMA PlacingKeepsCache ==
  ASSUME CacheInv, VenueInv', NEW t \in Tasks, NEW q, NEW next, Runs(t, q), Moves(t, q, next),
         Placing(next)
  PROVE  CacheParts'
<1> DEFINE o == nextOid + 1
<1>1. PICK acked \in Order :
        /\ acked.status \in {"ACKED", "REJECTED"} /\ acked.filled = 0
        /\ allOrders' = [allOrders EXCEPT ![o] = acked]
        /\ openOrders' = IF acked.status = "ACKED" THEN openOrders \cup {o} ELSE openOrders
        /\ cache' = [cache EXCEPT ![o] = acked]
  BY DEF Placing
<1>2. o \in Oids /\ allOrders[o] = NoOrder /\ next.awaits = "ack" /\ next.oid = o
  BY DEF Placing
<1>3. tasks'[t] = next /\ \A s \in Tasks \ {t} : tasks'[s] = tasks[s]
  BY MovesTo
<1>4. /\ allOrders'[o] = acked /\ cache'[o] = acked
      /\ \A p \in Oids \ {o} : allOrders'[p] = allOrders[p] /\ cache'[p] = cache[p]
  BY <1>1, <1>2 DEF CacheInv, VenueInv, TypeOK
<1>5. acked # NoOrder
  BY NotNoOrder
<1>6. \A s \in Tasks \ {t} : tasks[s] # Idle => tasks[s].oid \in Oids \ {o}
  BY <1>2 DEF CacheInv, CallsPlaced, VenueInv, TypeOK, InFlight
<1>7. CallsPlaced'
  BY <1>2, <1>3, <1>4, <1>5, <1>6 DEF CacheInv, CallsPlaced
<1>8. CacheBehind'
  <2>1. ASSUME NEW p \in Oids \ {o}, allOrders'[p] # NoOrder
        PROVE  /\ cache'[p].req = allOrders'[p].req
               /\ allOrders'[p].status # "CANCELLED" => cache'[p].filled <= allOrders'[p].filled
    BY <1>4, <2>1 DEF CacheInv, CacheBehind
  <2>2. cache'[o].filled = 0 /\ allOrders'[o].filled = 0 /\ cache'[o].req = allOrders'[o].req
    BY <1>1, <1>4
  <2> QED BY <2>1, <2>2 DEF CacheBehind
<1>9. WorkingInCache'
  <2>1. openOrders \subseteq Oids
    BY DEF CacheInv, VenueInv, TypeOK
  <2>2. ASSUME NEW p \in openOrders', p # o PROVE cache'[p].status \in Working
    BY <1>1, <1>4, <2>1, <2>2 DEF CacheInv, WorkingInCache
  <2>3. o \in openOrders' => cache'[o].status \in Working
    <3>1. o \notin openOrders
      BY <1>2, OpenIsNotFull DEF CacheInv
    <3> QED BY <1>1, <1>4, <3>1 DEF Working
  <2> QED BY <2>2, <2>3 DEF WorkingInCache
<1>10. FillsInOrder'
  BY <1>2, FillsStayInOrder
<1>11. ASSUME NEW s \in Tasks, Filling(s)' PROVE FillUnderWay(s)'
  <2>1. s # t /\ tasks'[s] = tasks[s] /\ Filling(s)
    BY <1>2, <1>3, <1>11 DEF Filling
  <2>2. tasks[s].oid \in Oids \ {o}
    BY <1>6, <2>1, FillingTypes
  <2>3. FillUnderWay(s)
    BY <2>1 DEF CacheInv
  <2> QED BY <1>4, <2>1, <2>2, <2>3 DEF FillUnderWay
<1> QED BY <1>7, <1>8, <1>9, <1>10, <1>11 DEF CacheParts

LEMMA FillsKeepCache ==
  ASSUME CacheInv, VenueInv', NEW t \in Tasks, NEW q, NEW next, Runs(t, q), Moves(t, q, next),
         NEW o \in Oids, NEW n \in Nat, Fills(o, n, next)
  PROVE  CacheParts'
<1>1. PICK updated \in Order :
        /\ updated.req = allOrders[o].req /\ updated.filled = allOrders[o].filled + n
        /\ updated.status = StatusAfter(updated.filled, updated.req)
        /\ allOrders' = [allOrders EXCEPT ![o] = updated]
        /\ next.update = updated
  BY DEF Fills
<1>2. /\ o \in openOrders /\ openOrders' \subseteq openOrders /\ cache' = cache
      /\ next.awaits = "fill" /\ next.oid = o /\ next.qty = n
  BY DEF Fills
<1>3. tasks'[t] = next /\ \A s \in Tasks \ {t} : tasks'[s] = tasks[s]
  BY MovesTo
<1>4. /\ allOrders'[o] = updated
      /\ \A p \in Oids \ {o} : allOrders'[p] = allOrders[p]
  BY <1>1 DEF CacheInv, VenueInv, TypeOK
<1>5. /\ allOrders[o] \in Order /\ allOrders[o].status # "CANCELLED"
      /\ cache[o] \in Order /\ cache[o].filled \in Nat /\ allOrders[o].filled \in Nat
      /\ allOrders[o] # NoOrder /\ updated # NoOrder /\ updated.status # "CANCELLED"
  <2>1. allOrders[o].status \in {"ACKED", "PARTIALLY_FILLED"}
    BY <1>2 DEF CacheInv, VenueInv, OpenIffWorking
  <2>2. allOrders[o] \in Order /\ cache[o] \in Order /\ allOrders[o] # NoOrder
    BY <2>1, NotNoOrder DEF CacheInv, VenueInv, TypeOK, NoOrder
  <2>3. updated # NoOrder /\ updated.status # "CANCELLED"
    BY <1>1, NotNoOrder DEF StatusAfter
  <2>4. cache[o].filled \in Nat /\ allOrders[o].filled \in Nat
    BY <2>2 DEF Order
  <2> QED BY <2>1, <2>2, <2>3, <2>4
<1>6. cache[o].req = allOrders[o].req /\ cache[o].filled <= allOrders[o].filled
  BY <1>5 DEF CacheInv, CacheBehind
<1>7. CallsPlaced'
  <2>1. ASSUME NEW s \in Tasks \ {t}, tasks'[s] # Idle PROVE allOrders'[tasks'[s].oid] # NoOrder
    <3>1. tasks'[s] = tasks[s] /\ tasks[s].oid \in Oids /\ allOrders[tasks[s].oid] # NoOrder
      BY <1>3, <2>1 DEF CacheInv, CallsPlaced, VenueInv, TypeOK, InFlight
    <3> QED BY <1>4, <1>5, <3>1
  <2> QED BY <1>2, <1>3, <1>4, <1>5, <2>1 DEF CallsPlaced
<1>8. CacheBehind'
  <2>1. cache[o].filled <= updated.filled
    BY <1>1, <1>5, <1>6
  <2> QED BY <1>1, <1>2, <1>4, <1>6, <2>1 DEF CacheInv, CacheBehind
<1>9. WorkingInCache'
  BY <1>2 DEF CacheInv, WorkingInCache
<1>10. ASSUME NEW s \in Tasks, Filling(s), tasks[s].oid = o
       PROVE  tasks[s].update.filled \in Nat /\ tasks[s].update.filled <= allOrders[o].filled
  BY <1>10, FillingTypes DEF CacheInv, FillUnderWay
<1>11. FillsInOrder'
  <2>1. ASSUME NEW s \in Tasks \ {t}, Filling(s), tasks[s].oid = next.oid
        PROVE  tasks[s].update.filled + next.qty <= next.update.filled
    BY <1>1, <1>2, <1>5, <1>10, <2>1
  <2> QED BY <1>2, <2>1, FillsStayInOrder
<1>12. ASSUME NEW s \in Tasks, Filling(s)' PROVE FillUnderWay(s)'
  <2>1. CASE s = t
    <3>1. tasks'[s] = next /\ allOrders'[next.oid] = updated /\ cache'[next.oid] = cache[o]
      BY <1>2, <1>3, <1>4, <2>1
    <3>2. cache[o].filled + n <= updated.filled /\ updated.filled <= updated.filled
      BY <1>1, <1>5, <1>6
    <3> QED BY <1>1, <1>2, <3>1, <3>2 DEF FillUnderWay
  <2>2. CASE s # t
    <3>1. tasks'[s] = tasks[s] /\ Filling(s) /\ FillUnderWay(s)
      BY <1>3, <1>12, <2>2 DEF Filling, CacheInv
    <3>2. CASE tasks[s].oid # o
      <4>1. tasks[s].oid \in Oids
        BY <3>1, FillingTypes
      <4> QED BY <1>2, <1>4, <3>1, <3>2, <4>1 DEF FillUnderWay
    <3>3. CASE tasks[s].oid = o
      <4>1. tasks[s].update.filled <= updated.filled
        BY <1>1, <1>5, <1>10, <3>1, <3>3
      <4> QED BY <1>1, <1>2, <1>4, <1>5, <3>1, <3>3, <4>1 DEF FillUnderWay
    <3> QED BY <3>2, <3>3
  <2> QED BY <2>1, <2>2
<1> QED BY <1>7, <1>8, <1>9, <1>11, <1>12 DEF CacheParts

LEMMA CancelsKeepCache ==
  ASSUME CacheInv, VenueInv', NEW t \in Tasks, NEW q, NEW next, Runs(t, q), Moves(t, q, next),
         NEW o \in Oids, NEW rest, Cancels(o, rest, next)
  PROVE  CacheParts'
<1>1. PICK cancelled \in Order :
        /\ cancelled.req = allOrders[o].req /\ cancelled.filled = allOrders[o].filled
        /\ cancelled.status = "CANCELLED"
        /\ allOrders' = [allOrders EXCEPT ![o] = cancelled]
        /\ cache' = [cache EXCEPT ![o] = cancelled]
  BY DEF Cancels
<1>2. openOrders' = openOrders \ {o} /\ next.awaits = "cancelled" /\ next.oid = o
  BY DEF Cancels
<1>3. tasks'[t] = next /\ \A s \in Tasks \ {t} : tasks'[s] = tasks[s]
  BY MovesTo
<1>4. /\ allOrders'[o] = cancelled /\ cache'[o] = cancelled /\ cancelled # NoOrder
      /\ \A p \in Oids \ {o} : allOrders'[p] = allOrders[p] /\ cache'[p] = cache[p]
  BY <1>1, NotNoOrder DEF CacheInv, VenueInv, TypeOK
<1>5. CallsPlaced'
  <2>1. ASSUME NEW s \in Tasks \ {t}, tasks'[s] # Idle PROVE allOrders'[tasks'[s].oid] # NoOrder
    <3>1. tasks'[s] = tasks[s] /\ tasks[s].oid \in Oids /\ allOrders[tasks[s].oid] # NoOrder
      BY <1>3, <2>1 DEF CacheInv, CallsPlaced, VenueInv, TypeOK, InFlight
    <3> QED BY <1>4, <3>1
  <2> QED BY <1>2, <1>3, <1>4, <2>1 DEF CallsPlaced
<1>6. CacheBehind'
  BY <1>1, <1>4 DEF CacheInv, CacheBehind
<1>7. WorkingInCache'
  <2>1. openOrders \subseteq Oids
    BY DEF CacheInv, VenueInv, TypeOK
  <2> QED BY <1>2, <1>4, <2>1 DEF CacheInv, WorkingInCache
<1>8. FillsInOrder'
  BY <1>2, FillsStayInOrder
<1>9. ASSUME NEW s \in Tasks, Filling(s)' PROVE FillUnderWay(s)'
  <2>1. s # t /\ tasks'[s] = tasks[s] /\ Filling(s) /\ FillUnderWay(s)
    BY <1>2, <1>3, <1>9 DEF Filling, CacheInv
  <2>2. tasks[s].oid \in Oids
    BY <2>1, FillingTypes
  <2> QED BY <1>1, <1>4, <2>1, <2>2 DEF FillUnderWay
<1> QED BY <1>5, <1>6, <1>7, <1>8, <1>9 DEF CacheParts

\* Neither a call that only moves on nor one that ends disturbs the cache.
LEMMA QuietKeepsCache ==
  ASSUME CacheInv, NEW t \in Tasks, NEW q, NEW next, Runs(t, q), Moves(t, q, next),
         UNCHANGED <<allOrders, openOrders, cache>>,
         \/ next = Idle
         \/ next.awaits = "submitted" /\ next.oid = tasks[t].oid /\ tasks[t] # Idle
  PROVE  CacheParts'
<1>1. tasks'[t] = next /\ \A s \in Tasks \ {t} : tasks'[s] = tasks[s]
  BY MovesTo
<1>2. next.awaits \notin {"fill", "fill_row"}
  BY MovesTo
<1>3. FillsInOrder'
  BY <1>2, FillsStayInOrder
<1>4. CallsPlaced' /\ CacheBehind' /\ WorkingInCache'
  BY <1>1 DEF CacheInv, CallsPlaced, CacheBehind, WorkingInCache
<1>5. ASSUME NEW s \in Tasks, Filling(s)' PROVE FillUnderWay(s)'
  <2>1. s # t /\ tasks'[s] = tasks[s] /\ Filling(s) /\ FillUnderWay(s)
    BY <1>1, <1>2, <1>5 DEF Filling, CacheInv
  <2> QED BY <2>1 DEF FillUnderWay
<1> QED BY <1>3, <1>4, <1>5 DEF CacheParts

\* The row cached for o is behind the venue's order of it, so o stays open in
\* the cache if it is at the venue.
LEMMA RowKeepsCache ==
  ASSUME CacheInv, NEW o \in Oids, NEW row \in Order,
         UNCHANGED <<allOrders, openOrders>>, cache' = [cache EXCEPT ![o] = row],
         row.req = allOrders[o].req, row.status = StatusAfter(row.filled, row.req),
         allOrders[o].status # "CANCELLED" => row.filled <= allOrders[o].filled
  PROVE  CacheBehind' /\ WorkingInCache'
<1>1. cache'[o] = row /\ \A p \in Oids \ {o} : cache'[p] = cache[p]
  BY DEF CacheInv, VenueInv, TypeOK
<1>2. CacheBehind'
  BY <1>1 DEF CacheInv, CacheBehind
<1>3. ASSUME NEW p \in openOrders PROVE cache'[p].status \in Working
  <2>1. p \in Oids
    BY <1>3 DEF CacheInv, VenueInv, TypeOK
  <2>2. CASE p # o
    BY <1>1, <2>1, <2>2 DEF CacheInv, WorkingInCache
  <2>3. CASE p = o
    <3>1. /\ allOrders[o].status # "CANCELLED" /\ allOrders[o].filled \in Nat
          /\ allOrders[o].req.quantity \in Nat
          /\ allOrders[o].filled < allOrders[o].req.quantity
      BY <1>3, <2>3, OpenIsNotFull DEF CacheInv
    <3>2. row.filled \in Nat /\ row.filled <= allOrders[o].filled
            /\ row.req.quantity = allOrders[o].req.quantity
      BY <3>1 DEF Order
    <3>3. ~ row.filled >= row.req.quantity
      BY <3>1, <3>2
    <3> QED BY <1>1, <2>3, <3>3 DEF StatusAfter, Working
  <2> QED BY <2>2, <2>3
<1> QED BY <1>2, <1>3 DEF WorkingInCache

\* The fill counted in the cache, and the venue's update after it, start from
\* a count at or below where the next fill of the order starts.
LEMMA FillCountedKeepsCache ==
  ASSUME CacheInv, NEW t \in Tasks, NEW q, NEW next, Runs(t, q), Moves(t, q, next),
         Resumed(t, next), Counts(t, next) \/ Updates(t, next)
  PROVE  CacheParts'
<1> DEFINE o == tasks[t].oid
<1>1. /\ tasks'[t] = next /\ \A s \in Tasks \ {t} : tasks'[s] = tasks[s]
      /\ Filling(t) /\ tasks[t] # Idle
  <2>1. Filling(t)
    BY DEF Counts, Updates, Filling
  <2> QED BY <2>1, MovesTo, FillingTypes
<1>2. /\ o \in Oids /\ tasks[t].update \in Order /\ tasks[t].update.filled \in Nat
      /\ tasks[t].qty \in Nat
      /\ allOrders[o] # NoOrder /\ allOrders[o].filled \in Nat /\ cache[o].filled \in Nat
  BY <1>1, FillingTypes, NotNoOrder
<1>3. /\ UNCHANGED <<allOrders, openOrders>> /\ next.oid = o /\ next.update = tasks[t].update
      /\ next.qty = tasks[t].qty
      /\ next.awaits \in {"fill_row", "update"} /\ next.row \in Order
      /\ cache' = [cache EXCEPT ![o] = next.row]
  BY <1>2 DEF Counts, Updates, SameFill
<1>4. FillUnderWay(t)
  BY <1>1 DEF CacheInv
<1>5. /\ next.row.req = allOrders[o].req
      /\ next.row.status = StatusAfter(next.row.filled, next.row.req)
      /\ allOrders[o].status # "CANCELLED" => next.row.filled <= tasks[t].update.filled
  <2>1. CASE Counts(t, next)
    <3>1. cache[o].req = allOrders[o].req
      BY <1>2 DEF CacheInv, CacheBehind
    <3>2. tasks[t].awaits = "fill" /\ next.row.req = cache[o].req
            /\ next.row.filled = cache[o].filled + tasks[t].qty
            /\ next.row.status = StatusAfter(next.row.filled, next.row.req)
      BY <1>3, <2>1 DEF Counts
    <3> QED BY <1>4, <3>1, <3>2 DEF FillUnderWay
  <2>2. CASE Updates(t, next)
    <3>1. next.row = tasks[t].update
      BY <1>3, <2>2 DEF Updates
    <3> QED BY <1>2, <1>4, <3>1 DEF FillUnderWay
  <2> QED BY <2>1, <2>2
<1>6. tasks[t].update.filled <= allOrders[o].filled
  BY <1>4 DEF FillUnderWay
<1>7. CacheBehind' /\ WorkingInCache'
  <2>1. next.row.filled \in Nat
    BY <1>3 DEF Order
  <2>2. allOrders[o].status # "CANCELLED" => next.row.filled <= allOrders[o].filled
    BY <1>2, <1>5, <1>6, <2>1
  <2> QED BY <1>2, <1>3, <1>5, <2>2, RowKeepsCache
<1>8. CallsPlaced'
  BY <1>1, <1>3 DEF CacheInv, CallsPlaced
<1>9. FillsInOrder'
  <2>1. CASE Counts(t, next)
    BY <1>3, <2>1, FillsStayInOrder DEF Counts
  <2>2. CASE Updates(t, next)
    BY <1>3, <2>2, FillsStayInOrder DEF Updates
  <2> QED BY <2>1, <2>2
<1>10. ASSUME NEW s \in Tasks, Filling(s)' PROVE FillUnderWay(s)'
  <2>1. CASE s = t
    <3>1. tasks'[s] = next /\ next.awaits = "fill_row"
      BY <1>1, <1>3, <1>10, <2>1 DEF Filling
    <3> QED BY <1>3, <1>4, <3>1 DEF FillUnderWay
  <2>2. CASE s # t
    <3>1. tasks'[s] = tasks[s] /\ Filling(s) /\ FillUnderWay(s)
      BY <1>1, <1>10, <2>2 DEF Filling, CacheInv
    <3>2. tasks[s].oid \in Oids /\ tasks[s] # Idle /\ tasks[s].qty \in Nat
            /\ tasks[s].update.filled \in Nat
      BY <3>1, FillingTypes
    <3>3. \A p \in Oids \ {o} : cache'[p] = cache[p]
      BY <1>3 DEF CacheInv, VenueInv, TypeOK
    <3>4. CASE tasks[s].oid # o
      BY <1>3, <3>1, <3>2, <3>3, <3>4 DEF FillUnderWay
    <3>5. CASE tasks[s].oid = o /\ tasks[s].awaits = "fill" /\ allOrders[o].status # "CANCELLED"
      <4>1. cache'[o] = next.row
        BY <1>2, <1>3 DEF CacheInv, VenueInv, TypeOK
      <4>2. next.row.filled <= tasks[t].update.filled /\ next.row.filled \in Nat
        BY <1>3, <1>5, <3>5 DEF Order
      <4>3. tasks[t].awaits = "fill_row" \/ Precedes(t, s)
        BY <1>1, <2>2, <3>2, QueueOrder DEF CacheInv, VenueInv
      <4>4. tasks[t].update.filled + tasks[s].qty <= tasks[s].update.filled
        BY <1>1, <2>2, <3>5, <4>3 DEF CacheInv, FillsInOrder
      <4>5. cache'[o].filled + tasks[s].qty <= tasks[s].update.filled
        BY <1>2, <3>2, <4>1, <4>2, <4>4
      <4> QED BY <1>3, <3>1, <3>5, <4>5 DEF FillUnderWay
    <3>6. CASE tasks[s].oid = o /\ ~ (tasks[s].awaits = "fill" /\ allOrders[o].status # "CANCELLED")
      BY <1>3, <3>1, <3>6 DEF FillUnderWay
    <3> QED BY <3>4, <3>5, <3>6
  <2> QED BY <2>1, <2>2
<1> QED BY <1>7, <1>8, <1>9, <1>10 DEF CacheParts

LEMMA RestartKeepsCache == ASSUME CacheInv, Restart PROVE CacheParts'
<1>1. /\ \A t \in Tasks : tasks'[t] = Idle
      /\ \A o \in Oids : allOrders'[o] = NoOrder
      /\ openOrders' = {}
  BY DEF Restart
<1>2. \A t \in Tasks : ~ Filling(t)'
  BY <1>1 DEF Filling, Idle
<1>3. FillsInOrder'
  BY <1>2 DEF FillsInOrder
<1> QED BY <1>1, <1>2, <1>3 DEF CacheParts, CallsPlaced, CacheBehind, WorkingInCache

LEMMA CacheInvInductive == CacheInv /\ [Next]_<<vars, wiring>> => CacheInv'
<1> SUFFICES ASSUME CacheInv, [Next]_<<vars, wiring>> PROVE CacheInv'
  OBVIOUS
<1>1. VenueInv'
  BY VenueInvInductive DEF CacheInv
<1>2. CASE UNCHANGED <<vars, wiring>>
  BY <1>1, <1>2 DEF vars, venueVars, CacheInv, CallsPlaced, CacheBehind, WorkingInCache,
                    FillsInOrder, Filling, Precedes, FillUnderWay
<1>3. CASE Restart
  BY <1>1, <1>3, RestartKeepsCache DEF CacheInv, CacheParts
<1>4. ASSUME NEW t \in Tasks, Step(t) PROVE CacheParts'
  <2>1. ASSUME NEW q, Runs(t, q), Moves(t, q, Idle), WriteRaises(t) PROVE CacheParts'
    <3>1. UNCHANGED <<allOrders, openOrders, cache>>
      BY <2>1 DEF WriteRaises, venueVars
    <3> QED BY <2>1, <3>1, QuietKeepsCache
  <2>2. ASSUME NEW q, NEW next, Runs(t, q), Moves(t, q, next), Begins(t, next) PROVE CacheParts'
    <3>1. CASE Placing(next)
      BY <1>1, <2>2, <3>1, PlacingKeepsCache
    <3>2. ASSUME NEW o \in Oids, NEW n \in Nat, Fills(o, n, next) PROVE CacheParts'
      BY <1>1, <2>2, <3>2, FillsKeepCache
    <3>3. ASSUME NEW o \in Oids, NEW rest, Cancels(o, rest, next) PROVE CacheParts'
      BY <1>1, <2>2, <3>3, CancelsKeepCache
    <3>4. CASE Quiet /\ next = Idle
      <4>1. UNCHANGED <<allOrders, openOrders, cache>>
        BY <3>4 DEF Quiet
      <4> QED BY <2>2, <3>4, <4>1, QuietKeepsCache
    <3> QED BY <2>2, <3>1, <3>2, <3>3, <3>4 DEF Begins
  <2>3. ASSUME NEW q, NEW next, Runs(t, q), Moves(t, q, next), Resumed(t, next) PROVE CacheParts'
    <3>1. ASSUME NEW o \in Oids, NEW n \in Nat, Fills(o, n, next) PROVE CacheParts'
      BY <1>1, <2>3, <3>1, FillsKeepCache
    <3>2. ASSUME NEW o \in Oids, NEW rest, Cancels(o, rest, next) PROVE CacheParts'
      BY <1>1, <2>3, <3>2, CancelsKeepCache
    <3>3. ASSUME Quiet, \/ next = Idle
                        \/ next.awaits = "submitted" /\ next.oid = tasks[t].oid
          PROVE  CacheParts'
      <4>1. tasks[t] # Idle
        BY <2>3, InFlightIsNotIdle DEF Resumed
      <4>2. UNCHANGED <<allOrders, openOrders, cache>>
        BY <3>3 DEF Quiet
      <4> QED BY <2>3, <3>3, <4>1, <4>2, QuietKeepsCache
    <3>4. CASE Counts(t, next) \/ Updates(t, next)
      BY <2>3, <3>4, FillCountedKeepsCache
    <3>5. CASE GoesOn(t, next)
      <4>1. \A o : \A n : Fills(o, n, next) => o \in Oids
        BY DEF Fills
      <4> QED BY <3>1, <3>3, <3>5, <4>1 DEF GoesOn
    <3>6. CASE CancelsOn(t, next) \/ Ends(t, next)
      BY <3>2, <3>3, <3>6 DEF CancelsOn, Ends
    <3> QED BY <2>3, <3>4, <3>5, <3>6 DEF Resumed
  <2> QED BY <1>4, <2>1, <2>2, <2>3, StepDoes
<1> QED BY <1>1, <1>2, <1>3, <1>4 DEF Next, CacheInv, CacheParts

LEMMA CacheInvInit == Init => CacheInv
<1> SUFFICES ASSUME Init PROVE CacheInv
  OBVIOUS
<1>1. /\ \A t \in Tasks : tasks[t] = Idle
      /\ \A o \in Oids : allOrders[o] = NoOrder
      /\ openOrders = {}
  BY DEF Init
<1>2. \A t \in Tasks : ~ Filling(t)
  <2>1. Idle.awaits = "nothing"
    BY DEF Idle
  <2> QED BY <1>1, <2>1 DEF Filling
<1>3. FillsInOrder
  BY <1>2 DEF FillsInOrder
<1> QED BY <1>1, <1>2, <1>3, VenueInvInit
       DEF CacheInv, CallsPlaced, CacheBehind, WorkingInCache

\* Every order live at the venue is open in the order manager's cache, which
\* has not counted more of it than the venue filled: cancel_all and the drain,
\* which go by the cache, miss none, whatever fills are being recorded and
\* whatever writes have raised.
THEOREM LiveOrdersCancellable == Spec => []LiveOrdersAreCancellable
<1>1. CacheInv => LiveOrdersAreCancellable
  BY OpenIsNotFull DEF CacheInv, WorkingInCache, CacheBehind, LiveOrdersAreCancellable
<1> QED BY <1>1, CacheInvInit, CacheInvInductive, PTL DEF Spec

-----------------------------------------------------------------------------
(* cancel_all. *)

TargetsInv == TargetsKnown /\ CancelAllReachesEveryOrder

\* A cancel of the first order still open of those left takes none of the
\* others off what is left.
LEMMA CancelsKeepTargets ==
  ASSUME CacheInv, NEW next, NEW rest \in SUBSET Oids, NEW o \in Oids,
         Cancels(o, rest, next), next.targets \cap openOrders \subseteq rest
  PROVE  next.targets \cap openOrders' \subseteq next.rest
<1> SUFFICES ASSUME NEW p \in next.targets, p \in openOrders' PROVE p \in next.rest
  OBVIOUS
<1>1. /\ openOrders' = openOrders \ {o} /\ next.rest = {r \in rest : r > o}
      /\ \A r \in rest \cap openOrders : o <= r
  BY DEF Cancels, First
<1>2. p \in rest \cap openOrders /\ p # o
  BY <1>1
<1>3. p \in Nat /\ o \in Nat /\ o <= p
  BY <1>1, <1>2, OrderPathAssumption DEF Oids
<1> QED BY <1>1, <1>2, <1>3

LEMMA TargetsStay ==
  ASSUME CacheInv, TargetsInv, NEW t \in Tasks, NEW q, NEW next, Runs(t, q), Moves(t, q, next),
         Begins(t, next) \/ Resumed(t, next)
  PROVE  TargetsInv'
<1>1. tasks'[t] = next /\ \A s \in Tasks \ {t} : tasks'[s] = tasks[s]
  BY MovesTo
<1>2. /\ nextOid \in Nat
      /\ \/ nextOid' = nextOid /\ openOrders' \subseteq openOrders
         \/ nextOid' = nextOid + 1 /\ openOrders' \subseteq openOrders \cup {nextOid + 1}
  <2>1. nextOid \in Nat
    BY OrderPathAssumption DEF CacheInv, VenueInv, TypeOK
  <2>2. ASSUME Placing(next)
        PROVE  nextOid' = nextOid + 1 /\ openOrders' \subseteq openOrders \cup {nextOid + 1}
    BY <2>2 DEF Placing
  <2>3. ASSUME NEW o, NEW n, Fills(o, n, next)
        PROVE  nextOid' = nextOid /\ openOrders' \subseteq openOrders
    BY <2>3 DEF Fills
  <2>4. ASSUME NEW o, NEW rest, Cancels(o, rest, next)
        PROVE  nextOid' = nextOid /\ openOrders' \subseteq openOrders
    BY <2>4 DEF Cancels
  <2>5. ASSUME Quiet \/ SameFill(tasks[t], next)
        PROVE  nextOid' = nextOid /\ openOrders' \subseteq openOrders
    BY <2>5 DEF Quiet, SameFill
  <2> QED BY <2>1, <2>2, <2>3, <2>4, <2>5
          DEF Begins, Resumed, GoesOn, CancelsOn, Ends, Counts, Updates
<1>3. ASSUME NEW s \in Tasks \ {t}, tasks'[s] # Idle
      PROVE  /\ tasks'[s].targets \subseteq 1 .. nextOid'
             /\ tasks'[s].awaits # "cancelled" => tasks'[s].targets = {}
             /\ tasks'[s].targets \cap openOrders' \subseteq tasks'[s].rest
  <2>1. /\ tasks'[s] = tasks[s] /\ tasks[s].targets \subseteq 1 .. nextOid
        /\ tasks[s].awaits # "cancelled" => tasks[s].targets = {}
        /\ tasks[s].targets \cap openOrders \subseteq tasks[s].rest
    BY <1>1, <1>3 DEF TargetsInv, TargetsKnown, CancelAllReachesEveryOrder
  <2>2. 1 .. nextOid \subseteq 1 .. nextOid' /\ nextOid + 1 \notin 1 .. nextOid
    BY <1>2
  <2>3. tasks[s].targets \cap openOrders' \subseteq tasks[s].targets \cap openOrders
    BY <1>2, <2>1, <2>2
  <2> QED BY <2>1, <2>2, <2>3
<1>4. ASSUME next # Idle
      PROVE  \/ next.awaits # "cancelled" /\ next.targets = {}
             \/ /\ next.awaits = "cancelled"
                /\ next.targets \subseteq 1 .. nextOid /\ nextOid' = nextOid
                /\ next.targets \cap openOrders' \subseteq next.rest
  <2>1. CASE Placing(next)
    BY <2>1 DEF Placing
  <2>2. ASSUME NEW o, NEW n, Fills(o, n, next), next.targets = {}
        PROVE  next.awaits # "cancelled" /\ next.targets = {}
    BY <2>2 DEF Fills
  <2>3. ASSUME NEW o \in Oids, NEW rest \in SUBSET Oids, Cancels(o, rest, next),
               next.targets \cap openOrders \subseteq rest, next.targets \subseteq 1 .. nextOid
        PROVE  /\ next.awaits = "cancelled"
               /\ next.targets \subseteq 1 .. nextOid /\ nextOid' = nextOid
               /\ next.targets \cap openOrders' \subseteq next.rest
    <3>1. nextOid' = nextOid /\ next.awaits = "cancelled"
      BY <2>3 DEF Cancels
    <3> QED BY <2>3, <3>1, CancelsKeepTargets
  <2>4. CASE Begins(t, next)
    <3>1. openOrders \subseteq 1 .. nextOid
      <4>1. \A o \in openOrders : o \in Oids /\ allOrders[o] # NoOrder
        BY OpenIsNotFull DEF CacheInv
      <4> QED BY <1>2, <4>1 DEF CacheInv, VenueInv, TypeOK, Oids
    <3> QED BY <1>4, <2>1, <2>2, <2>3, <2>4, <3>1 DEF Begins
  <2>5. CASE Resumed(t, next)
    <3>1. /\ tasks[t] # Idle /\ tasks[t].targets \subseteq 1 .. nextOid
          /\ tasks[t].awaits # "cancelled" => tasks[t].targets = {}
          /\ tasks[t].targets \cap openOrders \subseteq tasks[t].rest
          /\ tasks[t].rest \in SUBSET Oids
      BY <2>5, InFlightIsNotIdle
         DEF Resumed, TargetsInv, TargetsKnown, CancelAllReachesEveryOrder, InFlight
    <3>2. CASE GoesOn(t, next)
      BY <1>4, <2>2, <3>1, <3>2 DEF GoesOn, SameCall
    <3>3. CASE CancelsOn(t, next)
      BY <1>4, <2>3, <3>1, <3>3 DEF CancelsOn, SameCall
    <3>4. CASE Ends(t, next)
      BY <1>4, <3>4 DEF Ends
    <3>5. CASE Counts(t, next) \/ Updates(t, next)
      BY <3>1, <3>5 DEF Counts, Updates, SameFill, SameCall
    <3> QED BY <2>5, <3>2, <3>3, <3>4, <3>5 DEF Resumed
  <2> QED BY <2>4, <2>5
<1>5. ASSUME next # Idle
      PROVE  /\ next.targets \subseteq 1 .. nextOid'
             /\ next.awaits # "cancelled" => next.targets = {}
             /\ next.targets \cap openOrders' \subseteq next.rest
  BY <1>4, <1>5
<1> QED BY <1>1, <1>3, <1>5 DEF TargetsInv, TargetsKnown, CancelAllReachesEveryOrder

LEMMA TargetsInvInductive == CacheInv /\ TargetsInv /\ [Next]_<<vars, wiring>> => TargetsInv'
<1> SUFFICES ASSUME CacheInv, TargetsInv, [Next]_<<vars, wiring>> PROVE TargetsInv'
  OBVIOUS
<1>1. CASE UNCHANGED <<vars, wiring>>
  BY <1>1 DEF vars, venueVars, TargetsInv, TargetsKnown, CancelAllReachesEveryOrder
<1>2. CASE Restart
  BY <1>2 DEF Restart, TargetsInv, TargetsKnown, CancelAllReachesEveryOrder
<1>3. ASSUME NEW t \in Tasks, Step(t) PROVE TargetsInv'
  <2>1. ASSUME NEW q, Moves(t, q, Idle), WriteRaises(t) PROVE TargetsInv'
    <3>1. tasks'[t] = Idle /\ \A s \in Tasks \ {t} : tasks'[s] = tasks[s]
      BY <2>1, MovesTo
    <3>2. UNCHANGED <<nextOid, openOrders>>
      BY <2>1 DEF WriteRaises, venueVars
    <3> QED BY <3>1, <3>2 DEF TargetsInv, TargetsKnown, CancelAllReachesEveryOrder
  <2> QED BY <1>3, <2>1, StepDoes, TargetsStay
<1> QED BY <1>1, <1>2, <1>3 DEF Next

\* A cancel_all under way has still before it every order that was at the
\* venue when it began and is there yet, whatever fills and other cancels run
\* between its writes; unless a write raises, none of them outlives it.
THEOREM CancelAllReaches == Spec => []CancelAllReachesEveryOrder
<1>1. Init => TargetsInv
  BY DEF Init, TargetsInv, TargetsKnown, CancelAllReachesEveryOrder
<1>2. CacheInv /\ TargetsInv => CancelAllReachesEveryOrder
  BY DEF TargetsInv
<1> QED BY <1>1, <1>2, CacheInvInit, CacheInvInductive, TargetsInvInductive, PTL DEF Spec

-----------------------------------------------------------------------------
(* Times, and the in-memory journal. *)

\* What a call can do to the venue's orders: nothing, or change one it has to
\* a later time.  A cancelled order stays as it is.
OrdersMove(t, next) ==
  \/ UNCHANGED <<allOrders, openOrders, clock>>
  \/ Placing(next) /\ tasks[t] = Idle
  \/ \E o \in Oids, n \in Nat : Fills(o, n, next) /\ ~ Filling(t)
  \/ \E o \in Oids, rest \in SUBSET Oids : Cancels(o, rest, next) /\ ~ Filling(t)

\* o is placed, or changed at a later time.
Changed(o, order) ==
  /\ allOrders'[o] = order
  /\ \A p \in Oids \ {o} : allOrders'[p] = allOrders[p] /\ clock'[p] = clock[p]
  /\ order.updated = clock'[o] /\ clock'[o] \in Nat
  /\ allOrders[o].status # "CANCELLED" /\ allOrders[o].filled <= order.filled
  /\ allOrders[o] # NoOrder =>
       /\ clock[o] \in Nat /\ clock[o] <= clock'[o]
       /\ 0 \notin ClockSteps => clock[o] < clock'[o]

LEMMA OrdersMoveBy ==
  ASSUME CacheInv, NEW t \in Tasks, NEW next, Begins(t, next) \/ Resumed(t, next)
  PROVE  /\ OrdersMove(t, next)
         /\ \/ next.awaits \notin {"fill", "fill_row"}
            \/ \E o \in Oids, n \in Nat : Fills(o, n, next)
            \/ Counts(t, next) /\ Filling(t)
<1>1. CASE Begins(t, next)
  <2>1. ~ Filling(t) /\ tasks[t] = Idle /\ Idle.awaits = "nothing"
    BY <1>1 DEF Begins, MayStart, Filling, Idle
  <2> QED BY <1>1, <2>1 DEF Begins, OrdersMove, Placing, Cancels, Quiet
<1>2. CASE Resumed(t, next)
  <2>1. tasks[t].rest \in SUBSET Oids /\ Idle.awaits = "nothing"
    BY <1>2 DEF Resumed, InFlight, Idle
  <2>2. CASE GoesOn(t, next)
    <3>1. ~ Filling(t)
      BY <2>2 DEF GoesOn, Filling
    <3> QED BY <2>1, <2>2, <3>1 DEF GoesOn, OrdersMove, Quiet
  <2>3. CASE CancelsOn(t, next)
    <3>1. ~ Filling(t)
      BY <2>3 DEF CancelsOn, Filling
    <3> QED BY <2>1, <2>3, <3>1 DEF CancelsOn, OrdersMove, Quiet, Cancels
  <2>4. CASE Ends(t, next)
    BY <2>1, <2>4 DEF Ends, OrdersMove, Quiet
  <2>5. CASE Counts(t, next)
    BY <2>5 DEF Counts, SameFill, OrdersMove, Filling
  <2>6. CASE Updates(t, next)
    BY <2>6 DEF Updates, SameFill, OrdersMove
  <2> QED BY <1>2, <2>2, <2>3, <2>4, <2>5, <2>6 DEF Resumed
<1> QED BY <1>1, <1>2

LEMMA ClockAdvances ==
  ASSUME TypeOK, NEW o \in Oids, ReadsClock(o)
  PROVE  /\ clock[o] \in Nat /\ clock'[o] \in Nat /\ clock[o] <= clock'[o]
         /\ 0 \notin ClockSteps => clock[o] < clock'[o]
         /\ \A p \in Oids \ {o} : clock'[p] = clock[p]
<1>1. PICK d \in ClockSteps : clock' = [clock EXCEPT ![o] = @ + d]
  BY DEF ReadsClock
<1>2. clock[o] \in Nat /\ d \in Nat /\ clock'[o] = clock[o] + d
        /\ \A p \in Oids \ {o} : clock'[p] = clock[p]
  BY <1>1, OrderPathAssumption DEF TypeOK
<1>3. 0 \notin ClockSteps => d # 0
  OBVIOUS
<1> QED BY <1>2, <1>3

LEMMA OneOrderChanges ==
  ASSUME CacheInv, VenueInv', NEW t \in Tasks, NEW next, OrdersMove(t, next)
  PROVE  \/ UNCHANGED <<allOrders, openOrders, clock>>
         \/ \E o \in Oids, order \in Order : Changed(o, order)
<1>1. TypeOK /\ TypeOK'
  BY DEF CacheInv, VenueInv
<1>2. CASE UNCHANGED <<allOrders, openOrders, clock>>
  BY <1>2
<1>3. CASE Placing(next)
  <2> DEFINE o == nextOid + 1
  <2>1. PICK acked \in Order :
          /\ acked.filled = 0 /\ acked.updated = clock'[o]
          /\ allOrders' = [allOrders EXCEPT ![o] = acked]
    BY <1>3 DEF Placing
  <2>2. o \in Oids /\ allOrders[o] = NoOrder /\ \A p \in Oids \ {o} : clock'[p] = clock[p]
    BY <1>3 DEF Placing
  <2>3. clock'[o] \in Nat
    BY <1>1, <2>2 DEF TypeOK
  <2>4. allOrders'[o] = acked /\ \A p \in Oids \ {o} : allOrders'[p] = allOrders[p]
    BY <1>1, <2>1, <2>2 DEF TypeOK
  <2>5. allOrders[o].status # "CANCELLED" /\ allOrders[o].filled <= acked.filled
    BY <2>1, <2>2 DEF NoOrder
  <2> QED BY <2>1, <2>2, <2>3, <2>4, <2>5 DEF Changed
<1>4. ASSUME NEW o \in Oids, o \in openOrders, ReadsClock(o), NEW order \in Order,
             order.updated = clock'[o], allOrders' = [allOrders EXCEPT ![o] = order],
             allOrders[o].filled <= order.filled
      PROVE  Changed(o, order)
  <2>1. allOrders'[o] = order /\ \A p \in Oids \ {o} : allOrders'[p] = allOrders[p]
    BY <1>1, <1>4 DEF TypeOK
  <2>2. allOrders[o].status # "CANCELLED"
    BY <1>4, OpenIsNotFull DEF CacheInv
  <2> QED BY <1>1, <1>4, <2>1, <2>2, ClockAdvances DEF Changed
<1>5. ASSUME NEW o \in Oids, NEW n \in Nat, Fills(o, n, next)
      PROVE  \E order \in Order : Changed(o, order)
  <2>1. PICK order \in Order :
          /\ order.filled = allOrders[o].filled + n /\ order.updated = clock'[o]
          /\ allOrders' = [allOrders EXCEPT ![o] = order]
    BY <1>5 DEF Fills
  <2>2. o \in openOrders /\ ReadsClock(o)
    BY <1>5 DEF Fills
  <2>3. allOrders[o].filled \in Nat
    BY <2>2, OpenIsNotFull DEF CacheInv
  <2>4. allOrders[o].filled <= order.filled
    BY <2>1, <2>3
  <2> QED BY <1>4, <2>1, <2>2, <2>4
<1>6. ASSUME NEW o \in Oids, NEW rest, Cancels(o, rest, next)
      PROVE  \E order \in Order : Changed(o, order)
  <2>1. PICK order \in Order :
          /\ order.filled = allOrders[o].filled /\ order.updated = clock'[o]
          /\ allOrders' = [allOrders EXCEPT ![o] = order]
    BY <1>6 DEF Cancels
  <2>2. o \in openOrders /\ ReadsClock(o)
    BY <1>6 DEF Cancels, First
  <2>3. allOrders[o].filled \in Nat
    BY <2>2, OpenIsNotFull DEF CacheInv
  <2>4. allOrders[o].filled <= order.filled
    BY <2>1, <2>3
  <2> QED BY <1>4, <2>1, <2>2, <2>4
<1> QED BY <1>2, <1>3, <1>5, <1>6 DEF OrdersMove

LEMMA StampsStay ==
  ASSUME CacheInv, VenueInv', 0 \notin ClockSteps, Stamped, NEW t \in Tasks, NEW q, NEW next,
         Moves(t, q, next), Begins(t, next) \/ Resumed(t, next)
  PROVE  Stamped'
<1>1. tasks'[t] = next /\ \A s \in Tasks \ {t} : tasks'[s] = tasks[s]
  BY MovesTo
<1>2. \/ UNCHANGED <<allOrders, openOrders, clock>>
      \/ \E o \in Oids, order \in Order : Changed(o, order)
  BY OrdersMoveBy, OneOrderChanges
<1>3. \A o \in Oids : allOrders'[o] # NoOrder => allOrders'[o].updated = clock'[o]
  BY <1>2 DEF Stamped, Changed
<1>4. ASSUME NEW s \in Tasks, Filling(s)
      PROVE  LET order == allOrders'[tasks[s].oid]
             IN  /\ tasks[s].update.updated <= order.updated
                 /\ order.status = "CANCELLED" => tasks[s].update.updated < order.updated
  <2>1. /\ tasks[s].oid \in Oids /\ allOrders[tasks[s].oid] # NoOrder
        /\ tasks[s].update.updated \in Nat
        /\ tasks[s].update.updated <= clock[tasks[s].oid]
        /\ allOrders[tasks[s].oid].updated = clock[tasks[s].oid]
        /\ allOrders[tasks[s].oid].status = "CANCELLED" =>
             tasks[s].update.updated < clock[tasks[s].oid]
    BY <1>4, FillingTypes, NotNoOrder DEF Stamped
  <2>2. CASE UNCHANGED <<allOrders, openOrders, clock>>
    BY <2>1, <2>2
  <2>3. ASSUME NEW o \in Oids, NEW order \in Order, Changed(o, order)
        PROVE  LET after == allOrders'[tasks[s].oid]
               IN  /\ tasks[s].update.updated <= after.updated
                   /\ after.status = "CANCELLED" => tasks[s].update.updated < after.updated
    <3>1. CASE tasks[s].oid # o
      BY <2>1, <2>3, <3>1 DEF Changed
    <3>2. CASE tasks[s].oid = o
      <4>1. /\ allOrders'[o].updated = clock'[o] /\ clock'[o] \in Nat /\ clock[o] \in Nat
            /\ clock[o] < clock'[o]
        BY <2>1, <2>3, <3>2 DEF Changed
      <4> QED BY <2>1, <3>2, <4>1
    <3> QED BY <3>1, <3>2
  <2> QED BY <1>2, <2>2, <2>3
<1>5. ASSUME Filling(t)'
      PROVE  LET order == allOrders'[next.oid]
             IN  /\ next.row.updated = next.update.updated
                 /\ next.update.updated <= order.updated
                 /\ order.status = "CANCELLED" => next.update.updated < order.updated
  <2>1. ASSUME NEW o \in Oids, NEW n, Fills(o, n, next)
        PROVE  /\ next.oid = o /\ next.row = next.update /\ next.update \in Order
               /\ allOrders'[o] = next.update /\ next.update.status # "CANCELLED"
    BY <2>1 DEF Fills, StatusAfter, CacheInv, VenueInv, TypeOK
  <2>2. ASSUME NEW order \in Order PROVE order.updated <= order.updated
    BY DEF Order
  <2>3. CASE Counts(t, next) /\ Filling(t)
    BY <1>4, <2>3 DEF Counts, SameFill
  <2> QED BY <1>1, <1>5, <2>1, <2>2, <2>3, OrdersMoveBy DEF Filling
<1>6. ASSUME NEW s \in Tasks \ {t}, Filling(s)'
      PROVE  Filling(s) /\ tasks'[s].row.updated = tasks'[s].update.updated
  <2>1. Filling(s)
    BY <1>1, <1>6 DEF Filling
  <2> QED BY <1>1, <2>1 DEF Stamped
<1> QED BY <1>1, <1>3, <1>4, <1>5, <1>6 DEF Stamped

\* With the in-memory journal t runs only when no other call is in flight.
LEMMA AloneRuns ==
  ASSUME TypeOK, Alone, wiring = "memory", NEW t \in Tasks, NEW q, Runs(t, q)
  PROVE  \A s \in Tasks \ {t} : tasks[s] = Idle
<1>1. CASE MayStart(t)
  <2>1. queue = <<>>
    BY <1>1 DEF MayStart
  <2> QED BY <2>1 DEF TypeOK, CallOK
<1>2. CASE tasks[t] # Idle
  BY <1>2 DEF Alone
<1> QED BY <1>1, <1>2 DEF Runs

LEMMA AloneStays ==
  ASSUME CacheInv, Alone, NEW t \in Tasks, NEW q, NEW next, Runs(t, q), Moves(t, q, next),
         Begins(t, next) \/ Resumed(t, next),
         UNCHANGED wiring
  PROVE  Alone'
<1> SUFFICES ASSUME wiring = "memory" PROVE Alone'
  BY DEF Alone
<1>1. tasks'[t] = next /\ \A s \in Tasks \ {t} : tasks'[s] = tasks[s] /\ tasks[s] = Idle
  BY MovesTo, AloneRuns DEF CacheInv, VenueInv
<1>2. Filling(t)' => allOrders'[next.oid].status # "CANCELLED"
  <2>1. ASSUME NEW o \in Oids, NEW n, Fills(o, n, next)
        PROVE  allOrders'[next.oid].status # "CANCELLED"
    BY <2>1 DEF Fills, StatusAfter, CacheInv, VenueInv, TypeOK
  <2>2. CASE Counts(t, next) /\ Filling(t)
    BY <2>2 DEF Counts, SameFill, Alone
  <2> QED BY <1>1, <2>1, <2>2, OrdersMoveBy DEF Filling
<1>3. \A s \in Tasks \ {t} : ~ Filling(s)'
  <2>1. Idle.awaits = "nothing"
    BY DEF Idle
  <2> QED BY <1>1, <2>1 DEF Filling
<1> QED BY <1>1, <1>2, <1>3 DEF Alone

-----------------------------------------------------------------------------
(* The journal's fills. *)

LEMMA LogOnlyCounts ==
  ASSUME NEW t \in Tasks, NEW next, Begins(t, next) \/ Resumed(t, next), ~ Counts(t, next)
  PROVE  fillLog' = fillLog
BY DEF Begins, Resumed, GoesOn, CancelsOn, Ends, Updates

LEMMA LogStaysBehind ==
  ASSUME CacheInv, VenueInv', LogBehind, NEW t \in Tasks, NEW q, NEW next, Runs(t, q),
         Moves(t, q, next), Begins(t, next) \/ Resumed(t, next), UNCHANGED <<faults, restarts>>
  PROVE  LogBehind'
<1> SUFFICES ASSUME faults = 0, restarts = 0
             PROVE  /\ \A o \in Oids : fillLog'[o] <= allOrders'[o].filled
                    /\ \A s \in Tasks : tasks'[s].awaits = "fill" =>
                         fillLog'[tasks'[s].oid] + tasks'[s].qty <= tasks'[s].update.filled
  BY DEF LogBehind
<1>1. tasks'[t] = next /\ \A s \in Tasks \ {t} : tasks'[s] = tasks[s]
  BY MovesTo
<1>2. /\ fillLog \in [Oids -> Nat]
      /\ \A o \in Oids : fillLog[o] <= allOrders[o].filled
      /\ \A o \in Oids : allOrders[o].filled \in Nat
      /\ \A s \in Tasks : tasks[s].awaits = "fill" =>
           /\ Filling(s) /\ tasks[s].oid \in Oids
           /\ fillLog[tasks[s].oid] + tasks[s].qty <= tasks[s].update.filled
  <2>1. \A s \in Tasks : tasks[s].awaits = "fill" => Filling(s)
    BY DEF Filling
  <2>2. \A order \in Order \cup {NoOrder} : order.filled \in Nat
    BY DEF Order, NoOrder
  <2> QED BY <2>1, <2>2, FillingTypes DEF LogBehind, CacheInv, VenueInv, TypeOK
<1>3. \A o \in Oids : allOrders'[o].filled \in Nat /\ allOrders[o].filled <= allOrders'[o].filled
  <2>1. \A order \in Order \cup {NoOrder} : order.filled \in Nat
    BY DEF Order, NoOrder
  <2>2. \A o \in Oids : allOrders'[o].filled \in Nat
    BY <2>1 DEF VenueInv, TypeOK
  <2>3. \/ UNCHANGED <<allOrders, openOrders, clock>>
        \/ \E o \in Oids, order \in Order : Changed(o, order)
    BY OrdersMoveBy, OneOrderChanges
  <2>4. \A o \in Oids : allOrders'[o] = allOrders[o] \/ allOrders[o].filled <= allOrders'[o].filled
    BY <2>3 DEF Changed
  <2>5. \A o \in Oids : allOrders[o].filled <= allOrders[o].filled
    BY <1>2
  <2> QED BY <2>2, <2>4, <2>5
<1>4. CASE Counts(t, next)
  <2> DEFINE o == tasks[t].oid
  <2>1. /\ Filling(t) /\ o \in Oids /\ tasks[t].qty \in Nat /\ tasks[t].update.filled \in Nat
        /\ tasks[t] # Idle
    <3>1. Filling(t)
      BY <1>4 DEF Counts, Filling
    <3> QED BY <3>1, FillingTypes
  <2>2. /\ next.awaits = "fill_row" /\ allOrders' = allOrders /\ next.qty = tasks[t].qty
        /\ fillLog' = [fillLog EXCEPT ![o] = @ + next.qty] /\ tasks[t].awaits = "fill"
    BY <1>4 DEF Counts, SameFill
  <2>3. /\ fillLog'[o] = fillLog[o] + tasks[t].qty
        /\ \A p \in Oids \ {o} : fillLog'[p] = fillLog[p]
    BY <1>2, <2>1, <2>2
  <2>4. fillLog'[o] <= tasks[t].update.filled /\ fillLog'[o] \in Nat
    BY <1>2, <2>1, <2>2, <2>3
  <2>5. tasks[t].update.filled <= allOrders[o].filled
    BY <2>1 DEF CacheInv, FillUnderWay
  <2>6. \A p \in Oids : fillLog'[p] <= allOrders'[p].filled
    BY <1>2, <2>1, <2>2, <2>3, <2>4, <2>5
  <2>7. ASSUME NEW s \in Tasks \ {t}, tasks[s].awaits = "fill"
        PROVE  fillLog'[tasks[s].oid] + tasks[s].qty <= tasks[s].update.filled
    <3>1. CASE tasks[s].oid # o
      BY <1>2, <2>3, <2>7, <3>1
    <3>2. CASE tasks[s].oid = o
      <4>1. /\ Filling(s) /\ tasks[s].qty \in Nat /\ tasks[s].update.filled \in Nat
            /\ tasks[s] # Idle
        BY <1>2, <2>7, FillingTypes
      <4>2. Precedes(t, s)
        BY <2>1, <4>1, QueueOrder DEF CacheInv, VenueInv
      <4>3. tasks[t].update.filled + tasks[s].qty <= tasks[s].update.filled
        BY <2>1, <2>7, <3>2, <4>2 DEF CacheInv, FillsInOrder
      <4> QED BY <2>1, <2>4, <3>2, <4>1, <4>3
    <3> QED BY <3>1, <3>2
  <2> QED BY <1>1, <2>2, <2>6, <2>7
<1>5. CASE ~ Counts(t, next)
  <2>1. fillLog' = fillLog
    BY <1>5, LogOnlyCounts
  <2>2. \A p \in Oids : fillLog'[p] <= allOrders'[p].filled
    BY <1>2, <1>3, <2>1
  <2>3. ASSUME next.awaits = "fill" PROVE fillLog'[next.oid] + next.qty <= next.update.filled
    <3>1. PICK o \in Oids, n \in Nat : Fills(o, n, next)
      BY <1>5, <2>3, OrdersMoveBy
    <3>2. /\ next.oid = o /\ next.qty = n /\ next.update.filled = allOrders[o].filled + n
      BY <3>1 DEF Fills
    <3> QED BY <1>2, <2>1, <3>2
  <2> QED BY <1>1, <1>2, <2>1, <2>2, <2>3
<1> QED BY <1>4, <1>5

-----------------------------------------------------------------------------
(* The journal's order rows. *)

\* A row handed to the journal becomes current, or the current one is later.
LEMMA PersistDoes ==
  ASSUME TypeOK, NEW o \in Oids, NEW row \in Order, Persist(o, row)
  PROVE  /\ \A p \in Oids \ {o} : journal'[p] = journal[p]
         /\ journal'[o] \in Order /\ journal'[o] # NoOrder
         /\ \/ /\ journal'[o] = row
               /\ wiring = "sqlite" /\ journal[o] # NoOrder => journal[o].updated <= row.updated
            \/ /\ journal'[o] = journal[o] /\ wiring = "sqlite"
               /\ row.updated < journal[o].updated
<1>1. /\ \A p \in Oids \ {o} : journal'[p] = journal[p]
      /\ journal'[o] = IF Supersedes(row, journal[o]) THEN row ELSE journal[o]
  BY DEF Persist, TypeOK
<1>2. row # NoOrder /\ row.updated \in Nat
  BY NotNoOrder DEF Order
<1>3. journal[o] # NoOrder => journal[o] \in Order /\ journal[o].updated \in Nat
  BY DEF TypeOK, Order
<1>4. CASE Supersedes(row, journal[o])
  <2>1. wiring = "sqlite" /\ journal[o] # NoOrder => journal[o].updated <= row.updated
    BY <1>2, <1>3, <1>4 DEF Supersedes
  <2> QED BY <1>1, <1>2, <1>4, <2>1
<1>5. CASE ~ Supersedes(row, journal[o])
  <2>1. /\ wiring # "memory" /\ journal[o] # NoOrder
        /\ ~ row.updated >= journal[o].updated
    BY <1>5 DEF Supersedes
  <2>2. wiring = "sqlite"
    BY <2>1, OrderPathAssumption DEF TypeOK
  <2> QED BY <1>1, <1>2, <1>3, <1>5, <2>1, <2>2
<1> QED BY <1>4, <1>5

\* Which row t handed to the journal.
LEMMA JournalTakes ==
  ASSUME CacheInv, NEW t \in Tasks, NEW next, Begins(t, next) \/ Resumed(t, next)
  PROVE  /\ \/ journal' = journal /\ tasks[t].awaits \notin {"cancelled", "fill_row"}
            \/ /\ tasks[t] \in InFlight /\ tasks[t].awaits # "fill" /\ Resumed(t, next)
               /\ tasks[t].oid \in Oids /\ tasks[t].row \in Order
               /\ Persist(tasks[t].oid, tasks[t].row)
         /\ tasks[t].awaits = "fill" => Counts(t, next)
<1>1. CASE Begins(t, next)
  <2>1. tasks[t].awaits = "nothing" /\ journal' = journal
    BY <1>1 DEF Begins, MayStart, Idle
  <2> QED BY <2>1
<1>2. CASE Resumed(t, next)
  <2>1. tasks[t] \in InFlight /\ tasks[t].oid \in Oids /\ tasks[t].row \in Order
    BY <1>2 DEF Resumed, InFlight
  <2> QED BY <1>2, <2>1 DEF Resumed, GoesOn, CancelsOn, Ends, Counts, Updates
<1> QED BY <1>1, <1>2

\* A cancelled order stays as it is, and so does the journal's word of it.
LEMMA CancelStaysOnRecord ==
  ASSUME CacheInv, VenueInv', wiring = "sqlite", NEW t \in Tasks, NEW next,
         Begins(t, next) \/ Resumed(t, next),
         NEW o \in Oids, allOrders[o].status = "CANCELLED"
  PROVE  /\ allOrders'[o] = allOrders[o]
         /\ CancelOnRecord(o) => CancelOnRecord(o)'
         /\ CancelBeingWritten(t, o) => CancelOnRecord(o)'
<1>1. allOrders'[o] = allOrders[o]
  <2>1. \/ UNCHANGED <<allOrders, openOrders, clock>>
        \/ \E p \in Oids, order \in Order : Changed(p, order)
    BY OrdersMoveBy, OneOrderChanges
  <2> QED BY <2>1 DEF Changed
<1>2. allOrders[o].updated \in Nat
  BY DEF CacheInv, VenueInv, TypeOK, Order, NoOrder
<1>3. \A p \in Oids : journal[p] # NoOrder => journal[p].updated \in Nat
  BY DEF CacheInv, VenueInv, TypeOK, Order
<1>4. CASE journal' = journal /\ tasks[t].awaits # "cancelled"
  BY <1>1, <1>4 DEF CancelOnRecord, CancelBeingWritten
<1>5. ASSUME tasks[t].oid \in Oids, tasks[t].row \in Order, Persist(tasks[t].oid, tasks[t].row)
      PROVE  /\ CancelOnRecord(o) => CancelOnRecord(o)'
             /\ CancelBeingWritten(t, o) => CancelOnRecord(o)'
  <2>1. /\ \A p \in Oids \ {tasks[t].oid} : journal'[p] = journal[p]
        /\ journal'[tasks[t].oid] \in Order /\ journal'[tasks[t].oid] # NoOrder
        /\ \/ /\ journal'[tasks[t].oid] = tasks[t].row
              /\ journal[tasks[t].oid] # NoOrder =>
                   journal[tasks[t].oid].updated <= tasks[t].row.updated
           \/ /\ journal'[tasks[t].oid] = journal[tasks[t].oid]
              /\ tasks[t].row.updated < journal[tasks[t].oid].updated
    BY <1>5, PersistDoes DEF CacheInv, VenueInv
  <2>2. tasks[t].row.updated \in Nat /\ journal'[tasks[t].oid].updated \in Nat
    BY <1>5, <2>1 DEF Order
  <2>3. CASE tasks[t].oid # o
    BY <1>1, <2>1, <2>3 DEF CancelOnRecord, CancelBeingWritten
  <2>4. CASE tasks[t].oid = o
    <3>1. /\ journal'[o] # NoOrder /\ journal'[o].updated >= tasks[t].row.updated
          /\ journal[o] # NoOrder => journal'[o].updated >= journal[o].updated
      BY <1>3, <2>1, <2>2, <2>4
    <3>2. journal'[o].updated \in Nat
      BY <2>2, <2>4
    <3>3. CancelBeingWritten(t, o) => CancelOnRecord(o)'
      BY <1>1, <3>1 DEF CancelOnRecord, CancelBeingWritten
    <3>4. CancelOnRecord(o) => CancelOnRecord(o)'
      BY <1>1, <1>2, <1>3, <3>1, <3>2 DEF CancelOnRecord
    <3> QED BY <3>3, <3>4
  <2> QED BY <2>3, <2>4
<1> QED BY <1>1, <1>4, <1>5, JournalTakes

LEMMA CancelsStayRecorded ==
  ASSUME CacheInv, VenueInv', CancelsRecorded, NEW t \in Tasks, NEW q, NEW next,
         Moves(t, q, next), Begins(t, next) \/ Resumed(t, next),
         UNCHANGED <<wiring, lost>>
  PROVE  CancelsRecorded'
<1> SUFFICES ASSUME wiring = "sqlite", NEW o \in Oids \ lost,
                    allOrders'[o].status = "CANCELLED"
             PROVE  CancelOnRecord(o)' \/ \E s \in Tasks : CancelBeingWritten(s, o)'
  BY DEF CancelsRecorded
<1>1. tasks'[t] = next /\ \A s \in Tasks \ {t} : tasks'[s] = tasks[s]
  BY MovesTo
<1>2. CASE allOrders[o].status = "CANCELLED"
  <2>1. /\ allOrders'[o] = allOrders[o]
        /\ CancelOnRecord(o) => CancelOnRecord(o)'
        /\ CancelBeingWritten(t, o) => CancelOnRecord(o)'
    BY <1>2, CancelStaysOnRecord
  <2>2. ASSUME NEW s \in Tasks \ {t}, CancelBeingWritten(s, o) PROVE CancelBeingWritten(s, o)'
    BY <1>1, <2>1, <2>2 DEF CancelBeingWritten
  <2> QED BY <1>2, <2>1, <2>2 DEF CancelsRecorded
<1>3. CASE allOrders[o].status # "CANCELLED"
  <2>1. allOrders \in [Oids -> Order \cup {NoOrder}]
    BY DEF CacheInv, VenueInv, TypeOK
  <2>2. ~ UNCHANGED allOrders
    BY <1>3
  <2>3. ~ Placing(next)
    BY <1>3, <2>1 DEF Placing
  <2>4. ~ \E p \in Oids, n \in Nat : Fills(p, n, next)
    BY <1>3, <2>1 DEF Fills, StatusAfter
  <2>5. PICK p \in Oids, rest \in SUBSET Oids : Cancels(p, rest, next)
    BY <2>2, <2>3, <2>4, OrdersMoveBy DEF OrdersMove
  <2>6. /\ next.awaits = "cancelled" /\ next.oid = p
        /\ \E cancelled : /\ next.row = cancelled
                          /\ allOrders' = [allOrders EXCEPT ![p] = cancelled]
    BY <2>5 DEF Cancels
  <2>7. p = o /\ next.row = allOrders'[o]
    BY <1>3, <2>1, <2>6
  <2> QED BY <1>1, <2>6, <2>7 DEF CancelBeingWritten
<1> QED BY <1>2, <1>3

\* What the journal has of fills, it keeps; what it is about to have, it will.
LEMMA CoverStays ==
  ASSUME CacheInv, RowsCovered, NEW t \in Tasks, NEW q, NEW next,
         Runs(t, q), Moves(t, q, next), Begins(t, next) \/ Resumed(t, next)
  PROVE  /\ \A o \in Oids : fillLog[o] \in Nat /\ fillLog'[o] \in Nat /\ fillLog[o] <= fillLog'[o]
         /\ tasks[t].awaits = "fill" /\ tasks[t].oid \notin lost =>
              tasks[t].update.filled <= fillLog'[tasks[t].oid]
         /\ \A n \in Int, o \in Oids \ lost :
              /\ Covered(n, o) => Covered(n, o)' /\ (next # Idle => CoveredAt(n, o, t)')
              /\ \A r \in Tasks \ {t} : CoveredAt(n, o, r) => CoveredAt(n, o, r)'
              /\ CoveredAt(n, o, t) => n <= fillLog[o]
<1>1. tasks'[t] = next /\ \A s \in Tasks \ {t} : tasks'[s] = tasks[s]
  BY MovesTo
<1>2. /\ \A a, b \in Tasks \ {t} : Precedes(a, b)' <=> Precedes(a, b)
      /\ next # Idle => \A a \in Tasks \ {t} : tasks[a] # Idle => Precedes(a, t)'
      /\ \A a \in Tasks : ~ Precedes(a, t)
  BY QueueOrder DEF CacheInv, VenueInv
<1>3. \A o \in Oids : \A n \in Int : CoveredAt(n, o, t) => n <= fillLog[o]
  BY <1>2 DEF CoveredAt
<1>4. ASSUME Counts(t, next)
      PROVE  /\ fillLog' = [fillLog EXCEPT ![tasks[t].oid] = @ + tasks[t].qty]
             /\ tasks[t].oid \in Oids /\ tasks[t].qty \in Nat /\ tasks[t].awaits = "fill"
             /\ tasks[t].update.filled \in Nat
             /\ tasks[t].oid \notin lost =>
                  tasks[t].update.filled - tasks[t].qty <= fillLog[tasks[t].oid]
  <2>1. Filling(t) /\ tasks[t].awaits = "fill" /\ next.qty = tasks[t].qty
    BY <1>4 DEF Counts, Filling, SameFill
  <2>2. /\ tasks[t] # Idle /\ tasks[t].oid \in Oids /\ tasks[t].qty \in Nat
        /\ tasks[t].update.filled \in Nat
    BY <2>1, FillingTypes
  <2>3. tasks[t].oid \notin lost =>
          CoveredAt(tasks[t].update.filled - tasks[t].qty, tasks[t].oid, t)
    BY <2>1, <2>2 DEF RowsCovered, RowCovered
  <2> QED BY <1>3, <1>4, <2>1, <2>2, <2>3 DEF Counts
<1>5. fillLog \in [Oids -> Nat]
  BY DEF CacheInv, VenueInv, TypeOK
<1>6. \A o \in Oids : fillLog[o] \in Nat /\ fillLog'[o] \in Nat /\ fillLog[o] <= fillLog'[o]
  BY <1>4, <1>5, LogOnlyCounts
<1>7. tasks[t].awaits = "fill" /\ tasks[t].oid \notin lost =>
        tasks[t].update.filled <= fillLog'[tasks[t].oid]
  BY <1>4, <1>5, JournalTakes
<1>8. ASSUME NEW n \in Int, NEW o \in Oids \ lost, NEW s \in Tasks, tasks[s].awaits = "fill",
             tasks[s].oid = o, n <= tasks[s].update.filled
      PROVE  \/ n <= fillLog'[o]
             \/ s # t /\ tasks'[s] = tasks[s] /\ tasks[s] # Idle
  <2>1. tasks[s] # Idle /\ tasks[s].update.filled \in Nat
    BY <1>8, FillingTypes DEF Filling
  <2> QED BY <1>1, <1>6, <1>7, <1>8, <2>1
<1>9. ASSUME NEW n \in Int, NEW o \in Oids \ lost
      PROVE  /\ n <= fillLog[o] => n <= fillLog'[o]
             /\ Covered(n, o) => Covered(n, o)' /\ (next # Idle => CoveredAt(n, o, t)')
             /\ \A r \in Tasks \ {t} : CoveredAt(n, o, r) => CoveredAt(n, o, r)'
             /\ CoveredAt(n, o, t) => n <= fillLog[o]
  <2>1. n <= fillLog[o] => n <= fillLog'[o]
    BY <1>6
  <2>2. Covered(n, o) => Covered(n, o)' /\ (next # Idle => CoveredAt(n, o, t)')
    BY <1>2, <1>8, <2>1 DEF Covered, CoveredAt
  <2>3. \A r \in Tasks \ {t} : CoveredAt(n, o, r) => CoveredAt(n, o, r)'
    BY <1>2, <1>8, <2>1 DEF CoveredAt
  <2> QED BY <1>3, <2>1, <2>2, <2>3
<1> QED BY <1>6, <1>7, <1>9

\* What makes the invariant of the rows: the times and the cancels on record.
RecordInv == Stamped /\ Alone /\ CancelsRecorded /\ RowsCovered /\ NothingLost

LEMMA OvertakenStays ==
  ASSUME CacheInv, VenueInv', NEW t \in Tasks, NEW q, NEW next,
         Runs(t, q), Moves(t, q, next), Begins(t, next) \/ Resumed(t, next),
         NEW s \in Tasks \ {t}, tasks[s] # Idle, Overtaken(s),
         UNCHANGED wiring
  PROVE  Overtaken(s)'
<1>1. tasks'[s] = tasks[s] /\ \A r \in Tasks \ {t} : tasks'[r] = tasks[r]
  BY MovesTo
<1>2. PICK o \in Oids : o = tasks[s].oid
  BY DEF CacheInv, VenueInv, TypeOK, InFlight
<1>3. wiring = "sqlite" /\ allOrders[o].status = "CANCELLED"
  BY <1>2 DEF Overtaken
<1>4. /\ allOrders'[o] = allOrders[o]
      /\ CancelOnRecord(o) => CancelOnRecord(o)'
      /\ CancelBeingWritten(t, o) => CancelOnRecord(o)'
  BY <1>2, <1>3, CancelStaysOnRecord
<1>5. ASSUME NEW r \in Tasks, CancelBeingWritten(r, o), Precedes(r, s), r # t
      PROVE  CancelBeingWritten(r, o)' /\ Precedes(r, s)'
  <2>1. Precedes(r, s)'
    BY <1>5, QueueOrder DEF CacheInv, VenueInv
  <2> QED BY <1>1, <1>4, <1>5, <2>1 DEF CancelBeingWritten
<1>6. CancelOnRecord(o)' \/ \E r \in Tasks : CancelBeingWritten(r, o)' /\ Precedes(r, s)'
  BY <1>2, <1>4, <1>5 DEF Overtaken
<1> QED BY <1>1, <1>2, <1>3, <1>4, <1>6 DEF Overtaken

\* Nothing becomes current in the journal that counts more than its fills: the
\* one row that may, of a fill counted twice, finds the cancel's row there.
LEMMA JournalStaysCovered ==
  ASSUME CacheInv, RecordInv, 0 \notin ClockSteps, NEW t \in Tasks, NEW q, NEW next,
         Runs(t, q), Moves(t, q, next), Begins(t, next) \/ Resumed(t, next)
  PROVE  \A o \in Oids \ lost : journal'[o].filled <= fillLog'[o]
<1>1. /\ \A o \in Oids : fillLog[o] \in Nat /\ fillLog'[o] \in Nat /\ fillLog[o] <= fillLog'[o]
      /\ \A n \in Int, o \in Oids \ lost : CoveredAt(n, o, t) => n <= fillLog[o]
  BY CoverStays DEF RecordInv
<1>2. \A o \in Oids \ lost : journal[o].filled \in Nat /\ journal[o].filled <= fillLog[o]
  <2>1. \A order \in Order \cup {NoOrder} : order.filled \in Nat
    BY DEF Order, NoOrder
  <2> QED BY <2>1 DEF RecordInv, RowsCovered, CacheInv, VenueInv, TypeOK
<1>3. CASE journal' = journal
  BY <1>1, <1>2, <1>3
<1>4. ASSUME tasks[t] \in InFlight, tasks[t].awaits # "fill", Resumed(t, next),
             tasks[t].oid \in Oids, tasks[t].row \in Order,
             Persist(tasks[t].oid, tasks[t].row)
      PROVE  \A p \in Oids \ lost : journal'[p].filled <= fillLog'[p]
  <2> DEFINE o   == tasks[t].oid
             row == tasks[t].row
  <2>1. /\ \A p \in Oids \ {o} : journal'[p] = journal[p]
        /\ \/ /\ journal'[o] = row
              /\ wiring = "sqlite" /\ journal[o] # NoOrder => journal[o].updated <= row.updated
           \/ journal'[o] = journal[o]
    BY <1>4, PersistDoes DEF CacheInv, VenueInv
  <2>2. row.filled \in Nat /\ row.updated \in Nat
    BY <1>4 DEF Order
  <2>0. CASE o \in lost
    BY <1>1, <1>2, <2>0, <2>1
  <2>3. tasks[t] # Idle /\ (o \notin lost => RowCovered(t))
    BY <1>4, InFlightIsNotIdle DEF RecordInv, RowsCovered
  <2>4. CASE o \notin lost /\ tasks[t].awaits \in {"ack", "submitted", "update", "cancelled"}
    <3>1. row.filled <= fillLog[o]
      BY <1>1, <1>4, <2>2, <2>3, <2>4 DEF RowCovered
    <3> QED BY <1>1, <1>2, <2>1, <2>2, <3>1
  <2>5. CASE o \notin lost /\ tasks[t].awaits = "fill_row"
    <3>1. Filling(t)
      BY <2>5 DEF Filling
    <3>2. /\ tasks[t].update.filled \in Nat /\ tasks[t].update.updated \in Nat
          /\ tasks[t].update.filled <= fillLog[o]
          /\ row.filled <= tasks[t].update.filled \/ Overtaken(t)
          /\ row.updated = tasks[t].update.updated
          /\ allOrders[o].status = "CANCELLED" =>
               tasks[t].update.updated < allOrders[o].updated
          /\ allOrders[o].updated \in Nat
      BY <2>3, <2>5, <3>1, FillingTypes DEF RecordInv, Stamped, RowCovered, Order
    <3>3. ASSUME Overtaken(t) PROVE journal'[o] = journal[o]
      <4>1. /\ wiring = "sqlite" /\ allOrders[o].status = "CANCELLED"
            /\ CancelOnRecord(o) \/ \E s \in Tasks : Precedes(s, t)
        BY <3>3 DEF Overtaken
      <4>2. \A s \in Tasks : ~ Precedes(s, t)
        BY QueueOrder DEF CacheInv, VenueInv
      <4>3. journal[o] # NoOrder /\ journal[o].updated >= allOrders[o].updated
        BY <4>1, <4>2 DEF CancelOnRecord
      <4>4. journal[o].updated \in Nat
        BY <1>4, <4>3 DEF CacheInv, VenueInv, TypeOK, Order
      <4>5. ~ journal[o].updated <= row.updated
        BY <3>2, <4>1, <4>3, <4>4
      <4> QED BY <2>1, <4>1, <4>3, <4>5
    <3>4. row.filled <= tasks[t].update.filled => row.filled <= fillLog[o]
      BY <1>1, <1>4, <2>2, <3>2
    <3> QED BY <1>1, <1>2, <2>1, <2>2, <3>2, <3>3, <3>4
  <2> QED BY <1>4, <2>0, <2>4, <2>5 DEF InFlight, Awaits
<1> QED BY <1>3, <1>4, JournalTakes

\* What t has to write next is covered.
LEMMA NextRowCovered ==
  ASSUME CacheInv, VenueInv', RecordInv, NEW t \in Tasks, NEW q, NEW next,
         Runs(t, q), Moves(t, q, next), Begins(t, next) \/ Resumed(t, next), next # Idle,
         UNCHANGED wiring
  PROVE  next.submitted.filled = 0 /\ (next.oid \notin lost => RowCovered(t)')
<1>0. next.submitted.filled = 0
  <2>1. NoOrder.filled = 0
    BY DEF NoOrder
  <2>2. CASE Begins(t, next)
    BY <2>1, <2>2 DEF Begins, Placing
  <2>3. CASE Resumed(t, next)
    <3>1. tasks[t].submitted.filled = 0
      BY <2>3, InFlightIsNotIdle DEF Resumed, RecordInv, RowsCovered
    <3> QED BY <2>3, <3>1
            DEF Resumed, GoesOn, CancelsOn, Ends, Counts, Updates, SameFill, SameCall
  <2> QED BY <2>2, <2>3
<1> SUFFICES ASSUME next.oid \notin lost PROVE RowCovered(t)'
  BY <1>0
<1>1. tasks'[t] = next /\ \A s \in Tasks \ {t} : tasks'[s] = tasks[s]
  BY MovesTo
<1>2. /\ \A o \in Oids : fillLog[o] \in Nat /\ fillLog'[o] \in Nat /\ fillLog[o] <= fillLog'[o]
      /\ tasks[t].awaits = "fill" /\ tasks[t].oid \notin lost =>
           tasks[t].update.filled <= fillLog'[tasks[t].oid]
      /\ \A n \in Int, o \in Oids \ lost : Covered(n, o) => CoveredAt(n, o, t)'
  BY CoverStays DEF RecordInv
<1>3. \A o \in Oids \ lost : Covered(allOrders[o].filled, o)
  BY DEF RecordInv, RowsCovered
<1>4. ASSUME Resumed(t, next)
      PROVE  /\ tasks[t] # Idle /\ tasks[t].submitted.filled = 0
             /\ tasks[t].oid \notin lost => RowCovered(t)
  BY <1>4, InFlightIsNotIdle DEF Resumed, RecordInv, RowsCovered
<1>5. CASE Placing(next)
  BY <1>1, <1>5 DEF Placing, RowCovered
<1>6. ASSUME NEW o \in Oids, NEW n \in Nat, Fills(o, n, next)
      PROVE  RowCovered(t)'
  <2>1. PICK m \in Nat : m = allOrders[o].filled
    BY <1>6, OpenIsNotFull DEF Fills, CacheInv
  <2>2. /\ next.awaits = "fill" /\ next.oid = o /\ next.update.filled - next.qty = m
    BY <1>6, <2>1 DEF Fills
  <2>3. CoveredAt(m, o, t)'
    BY <1>2, <1>3, <2>1, <2>2
  <2> QED BY <1>1, <1>6, <2>2, <2>3 DEF RowCovered
<1>7. ASSUME NEW o \in Oids, NEW rest, Cancels(o, rest, next)
      PROVE  RowCovered(t)'
  <2>1. PICK m \in Nat : m = allOrders[o].filled
    BY <1>7, OpenIsNotFull DEF Cancels, First, CacheInv
  <2>2. next.awaits = "cancelled" /\ next.oid = o /\ next.row.filled = m
    BY <1>7, <2>1 DEF Cancels
  <2>3. CoveredAt(m, o, t)'
    BY <1>2, <1>3, <2>1, <2>2
  <2> QED BY <1>1, <1>7, <2>2, <2>3 DEF RowCovered
<1>8. CASE Counts(t, next)
  <2>1. PICK o \in Oids : o = tasks[t].oid
    BY <1>8, FillingTypes DEF Counts, Filling
  <2>2. /\ Filling(t) /\ tasks[t].awaits = "fill" /\ FillUnderWay(t)
        /\ tasks[t].update.filled \in Nat /\ tasks[t] # Idle
    <3>1. Filling(t)
      BY <1>8 DEF Counts, Filling
    <3> QED BY <1>8, <3>1, FillingTypes DEF CacheInv, Counts
  <2>3. /\ next.awaits = "fill_row" /\ next.oid = o /\ next.update = tasks[t].update
        /\ next.row.filled = cache[o].filled + tasks[t].qty
        /\ next.submitted = tasks[t].submitted /\ allOrders' = allOrders /\ journal' = journal
    BY <1>8, <2>1 DEF Counts, SameFill, SameCall
  <2>4. o \notin lost
    BY <2>3
  <2>5. next.update.filled <= fillLog'[o]
    BY <1>2, <2>1, <2>2, <2>3, <2>4
  <2>6. CASE allOrders[o].status # "CANCELLED"
    <3>1. next.row.filled <= next.update.filled
      BY <2>1, <2>2, <2>3, <2>6 DEF FillUnderWay
    <3> QED BY <1>1, <2>3, <2>4, <2>5, <3>1 DEF RowCovered
  <2>7. CASE allOrders[o].status = "CANCELLED"
    <3>1. wiring = "sqlite"
      BY <2>1, <2>2, <2>7, OrderPathAssumption DEF RecordInv, Alone, CacheInv, VenueInv, TypeOK
    <3>2. CancelOnRecord(o) \/ \E s \in Tasks : CancelBeingWritten(s, o)
      BY <2>4, <2>7, <3>1 DEF RecordInv, CancelsRecorded
    <3>3. CancelOnRecord(o) => CancelOnRecord(o)'
      BY <2>3 DEF CancelOnRecord
    <3>4. ASSUME NEW s \in Tasks, CancelBeingWritten(s, o)
          PROVE  CancelBeingWritten(s, o)' /\ Precedes(s, t)'
      <4>1. s # t /\ tasks[s] # Idle
        BY <2>2, <3>4 DEF CancelBeingWritten, Idle
      <4>2. Precedes(s, t)'
        BY <4>1, QueueOrder DEF CacheInv, VenueInv
      <4> QED BY <1>1, <2>3, <3>4, <4>1, <4>2 DEF CancelBeingWritten
    <3>5. Overtaken(t)'
      BY <1>1, <2>3, <2>7, <3>1, <3>2, <3>3, <3>4 DEF Overtaken
    <3> QED BY <1>1, <2>3, <2>4, <2>5, <3>5 DEF RowCovered
  <2> QED BY <2>6, <2>7
<1>9. CASE Updates(t, next)
  <2>1. PICK o \in Oids : o = tasks[t].oid
    BY <1>9, FillingTypes DEF Updates, Filling
  <2>2. tasks[t] # Idle /\ tasks[t].awaits = "fill_row" /\ tasks[t].update.filled \in Nat
    BY <1>9, FillingTypes DEF Updates, Filling
  <2>3. o \notin lost => tasks[t].update.filled <= fillLog[o]
    BY <2>1, <2>2 DEF RecordInv, RowsCovered, RowCovered
  <2>4. /\ next.awaits = "update" /\ next.oid = o /\ next.row = tasks[t].update
        /\ next.submitted = tasks[t].submitted
    BY <1>9, <2>1 DEF Updates, SameFill, SameCall
  <2>5. tasks[t].update.filled <= fillLog'[o]
    BY <1>2, <2>1, <2>2, <2>3, <2>4
  <2> QED BY <1>1, <2>3, <2>4, <2>5 DEF RowCovered
<1>10. CASE Begins(t, next)
  BY <1>5, <1>6, <1>7, <1>10 DEF Begins
<1>11. CASE GoesOn(t, next) /\ Resumed(t, next)
  <2>1. tasks[t].submitted.filled = 0
    BY <1>4, <1>11
  <2>2. ASSUME next.awaits = "submitted", next.row = tasks[t].submitted, SameCall(tasks[t], next)
        PROVE  RowCovered(t)'
    BY <1>1, <2>1, <2>2 DEF RowCovered, SameCall
  <2>3. \A o : \A n : Fills(o, n, next) => o \in Oids
    BY DEF Fills
  <2> QED BY <1>6, <1>11, <2>1, <2>2, <2>3 DEF GoesOn, SameCall
<1>12. CASE CancelsOn(t, next) /\ Resumed(t, next)
  BY <1>7, <1>12 DEF CancelsOn
<1> QED BY <1>8, <1>9, <1>10, <1>11, <1>12 DEF Resumed, Ends

LEMMA RowsStayCovered ==
  ASSUME CacheInv, VenueInv', RecordInv, 0 \notin ClockSteps, NEW t \in Tasks, NEW q, NEW next,
         Runs(t, q), Moves(t, q, next), Begins(t, next) \/ Resumed(t, next),
         UNCHANGED <<wiring, lost>>
  PROVE  RowsCovered'
<1> SUFFICES /\ \A o \in Oids \ lost : journal'[o].filled <= fillLog'[o]
             /\ \A o \in Oids \ lost : Covered(allOrders[o].filled, o)'
             /\ \A s \in Tasks : tasks'[s] # Idle =>
                  /\ tasks'[s].submitted.filled = 0
                  /\ tasks'[s].oid \notin lost => RowCovered(s)'
  BY DEF RowsCovered
<1>1. tasks'[t] = next /\ \A s \in Tasks \ {t} : tasks'[s] = tasks[s]
  BY MovesTo
<1>2. /\ \A o \in Oids : fillLog[o] \in Nat /\ fillLog'[o] \in Nat /\ fillLog[o] <= fillLog'[o]
      /\ \A n \in Int, o \in Oids \ lost :
           /\ Covered(n, o) => Covered(n, o)'
           /\ \A r \in Tasks \ {t} : CoveredAt(n, o, r) => CoveredAt(n, o, r)'
  BY CoverStays DEF RecordInv
<1>3. \A o \in Oids \ lost : journal'[o].filled <= fillLog'[o]
  BY JournalStaysCovered
<1>4. \A s \in Tasks : tasks[s] # Idle =>
        tasks[s].submitted.filled = 0 /\ (tasks[s].oid \notin lost => RowCovered(s))
  BY DEF RecordInv, RowsCovered
<1>5. tasks'[t] # Idle =>
        tasks'[t].submitted.filled = 0 /\ (tasks'[t].oid \notin lost => RowCovered(t)')
  BY <1>1, NextRowCovered
<1>6. ASSUME NEW o \in Oids \ lost PROVE Covered(allOrders[o].filled, o)'
  <2>1. allOrders[o] \in Order \cup {NoOrder} /\ allOrders'[o] \in Order \cup {NoOrder}
    BY DEF CacheInv, VenueInv, TypeOK
  <2>2. allOrders[o].filled \in Nat /\ allOrders'[o].filled \in Nat
    BY <2>1 DEF Order, NoOrder
  <2>3. CASE allOrders'[o].filled = allOrders[o].filled
    <3>1. PICK m \in Nat : m = allOrders[o].filled
      BY <2>2
    <3>2. Covered(m, o)'
      BY <1>2, <3>1 DEF RecordInv, RowsCovered
    <3> QED BY <2>3, <3>1, <3>2 DEF Covered
  <2>4. CASE allOrders'[o].filled = 0
    BY <1>2, <2>4 DEF Covered
  <2>5. ASSUME NEW p \in Oids, NEW n \in Nat, Fills(p, n, next),
               allOrders'[o].filled # allOrders[o].filled
        PROVE  Covered(allOrders[o].filled, o)'
    <3>1. PICK updated \in Order :
            /\ allOrders' = [allOrders EXCEPT ![p] = updated]
            /\ next.update = updated /\ next.awaits = "fill" /\ next.oid = p
      BY <2>5 DEF Fills
    <3>2. p = o /\ allOrders'[o] = next.update
      BY <2>5, <3>1 DEF CacheInv, VenueInv, TypeOK
    <3>3. allOrders'[o].filled <= next.update.filled
      BY <2>2, <3>2
    <3> QED BY <1>1, <3>1, <3>2, <3>3 DEF Covered
  <2>6. ASSUME ~ \E p \in Oids, n \in Nat : Fills(p, n, next)
        PROVE  allOrders'[o].filled \in {0, allOrders[o].filled}
    <3>1. CASE Placing(next)
      BY <3>1 DEF Placing, CacheInv, VenueInv, TypeOK
    <3>2. ASSUME NEW p \in Oids, NEW rest, Cancels(p, rest, next)
          PROVE  allOrders'[o].filled = allOrders[o].filled
      BY <3>2 DEF Cancels, CacheInv, VenueInv, TypeOK
    <3> QED BY <2>6, <3>1, <3>2, OrdersMoveBy DEF OrdersMove
  <2> QED BY <2>3, <2>4, <2>5, <2>6
<1>7. ASSUME NEW s \in Tasks \ {t}, tasks'[s] # Idle, tasks'[s].oid \notin lost
      PROVE  RowCovered(s)'
  <2>1. tasks'[s] = tasks[s] /\ tasks[s] # Idle /\ RowCovered(s) /\ tasks[s].oid \notin lost
    BY <1>1, <1>4, <1>7
  <2>2. tasks[s] \in InFlight
    BY <2>1 DEF CacheInv, VenueInv, TypeOK
  <2>3. PICK o \in Oids \ lost : o = tasks[s].oid
    BY <2>1, <2>2 DEF InFlight
  <2>4. tasks[s].row.filled \in Nat /\ tasks[s].qty \in Nat
    BY <2>2 DEF InFlight, Order
  <2>5. CASE tasks[s].awaits = "fill"
    <3>1. tasks[s].update.filled \in Nat
      BY <2>5, FillingTypes DEF Filling
    <3>2. PICK m \in Int : m = tasks[s].update.filled - tasks[s].qty
      BY <2>4, <3>1
    <3>3. CoveredAt(m, o, s)
      BY <2>1, <2>3, <2>5, <3>2 DEF RowCovered
    <3>4. CoveredAt(m, o, s)'
      BY <1>2, <3>3
    <3> QED BY <2>1, <2>3, <2>5, <3>2, <3>4 DEF RowCovered
  <2>6. CASE tasks[s].awaits = "fill_row"
    <3>1. tasks[s].update.filled \in Nat
      BY <2>6, FillingTypes DEF Filling
    <3>2. /\ tasks[s].update.filled <= fillLog[o]
          /\ tasks[s].row.filled <= tasks[s].update.filled \/ Overtaken(s)
      BY <2>1, <2>3, <2>6 DEF RowCovered
    <3>3. tasks[s].update.filled <= fillLog'[o]
      BY <1>2, <3>1, <3>2
    <3>4. Overtaken(s) => Overtaken(s)'
      BY <2>1, OvertakenStays
    <3> QED BY <2>1, <2>3, <2>6, <3>2, <3>3, <3>4 DEF RowCovered
  <2>7. CASE tasks[s].awaits = "update"
    <3>1. tasks[s].row.filled <= fillLog[o]
      BY <2>1, <2>3, <2>7 DEF RowCovered
    <3>2. tasks[s].row.filled <= fillLog'[o]
      BY <1>2, <2>4, <3>1
    <3> QED BY <2>1, <2>3, <2>7, <3>2 DEF RowCovered
  <2>8. CASE tasks[s].awaits = "cancelled"
    <3>1. PICK m \in Nat : m = tasks[s].row.filled
      BY <2>4
    <3>2. CoveredAt(m, o, s)
      BY <2>1, <2>3, <2>8, <3>1 DEF RowCovered
    <3>3. CoveredAt(m, o, s)'
      BY <1>2, <3>2
    <3> QED BY <2>1, <2>3, <2>8, <3>1, <3>3 DEF RowCovered
  <2>9. CASE tasks[s].awaits \in {"ack", "submitted"}
    BY <2>1, <2>9 DEF RowCovered
  <2> QED BY <2>2, <2>5, <2>6, <2>7, <2>8, <2>9 DEF InFlight, Awaits
<1>8. \A s \in Tasks \ {t} : tasks'[s] # Idle => tasks'[s].submitted.filled = 0
  BY <1>1, <1>4
<1> QED BY <1>3, <1>5, <1>6, <1>7, <1>8

\* A write raises: the call is given up, and an order whose fill's record or
\* cancel's row it was is lost.
LEMMA RaiseKeepsRecords ==
  ASSUME CacheInv, RecordInv, NEW t \in Tasks, NEW q, Runs(t, q), Moves(t, q, Idle),
         WriteRaises(t), UNCHANGED wiring
  PROVE  RecordInv'
<1>1. tasks'[t] = Idle /\ \A s \in Tasks \ {t} : tasks'[s] = tasks[s]
  BY MovesTo
<1>2. /\ UNCHANGED <<allOrders, journal, fillLog, clock>>
      /\ faults' = faults + 1 /\ faults \in Nat
      /\ lost \subseteq lost' /\ lost' \subseteq Oids
      /\ tasks[t].awaits \in {"fill", "cancelled"} => tasks[t].oid \in lost'
  BY OrderPathAssumption, ResumedCall DEF WriteRaises, venueVars, CacheInv, VenueInv, TypeOK
<1>3. Idle.awaits = "nothing"
  BY DEF Idle
<1>4. \A s \in Tasks : Filling(s)' => s # t /\ Filling(s) /\ tasks'[s] = tasks[s]
  BY <1>1, <1>3 DEF Filling
<1>5. \A s, u \in Tasks \ {t} : Precedes(s, u) => Precedes(s, u)'
  BY QueueOrder DEF CacheInv, VenueInv
<1>6. Stamped' /\ Alone'
  <2>1. Stamped'
    BY <1>2, <1>4 DEF RecordInv, Stamped
  <2>2. Alone'
    BY <1>1, <1>2, <1>4 DEF RecordInv, Alone
  <2> QED BY <2>1, <2>2
<1>7. ASSUME NEW o \in Oids \ lost', NEW s \in Tasks, CancelBeingWritten(s, o)
      PROVE  s # t /\ CancelBeingWritten(s, o)'
  <2>1. s # t
    BY <1>2, <1>7 DEF CancelBeingWritten
  <2> QED BY <1>1, <1>2, <1>7, <2>1 DEF CancelBeingWritten
<1>8. \A o : CancelOnRecord(o) => CancelOnRecord(o)'
  BY <1>2 DEF CancelOnRecord
<1>9. CancelsRecorded'
  <2> SUFFICES ASSUME wiring = "sqlite", NEW o \in Oids \ lost', allOrders[o].status = "CANCELLED"
               PROVE  CancelOnRecord(o)' \/ \E s \in Tasks : CancelBeingWritten(s, o)'
    BY <1>2 DEF CancelsRecorded
  <2>1. CancelOnRecord(o) \/ \E s \in Tasks : CancelBeingWritten(s, o)
    BY <1>2 DEF RecordInv, CancelsRecorded
  <2> QED BY <1>7, <1>8, <2>1
<1>10. ASSUME NEW o \in Oids \ lost', NEW n, NEW u \in Tasks \ {t}
       PROVE  /\ Covered(n, o) => Covered(n, o)'
              /\ CoveredAt(n, o, u) => CoveredAt(n, o, u)'
  <2>1. \A s \in Tasks : tasks[s].awaits = "fill" /\ tasks[s].oid = o => s # t
    BY <1>2
  <2>2. Covered(n, o) => Covered(n, o)'
    BY <1>1, <1>2, <2>1 DEF Covered
  <2>3. CoveredAt(n, o, u) => CoveredAt(n, o, u)'
    BY <1>1, <1>2, <1>5, <2>1 DEF CoveredAt
  <2> QED BY <2>2, <2>3
<1>11. ASSUME NEW s \in Tasks, tasks'[s] # Idle
       PROVE  tasks'[s].submitted.filled = 0 /\ (tasks'[s].oid \notin lost' => RowCovered(s)')
  <2>1. s # t /\ tasks'[s] = tasks[s] /\ tasks[s] # Idle
    BY <1>1, <1>11
  <2>2. tasks[s].submitted.filled = 0 /\ (tasks[s].oid \notin lost => RowCovered(s))
    BY <2>1 DEF RecordInv, RowsCovered
  <2>3. ASSUME tasks[s].oid \notin lost' PROVE RowCovered(s)'
    <3>1. PICK o \in Oids \ lost' : o = tasks[s].oid
      BY <2>1, <2>3 DEF CacheInv, VenueInv, TypeOK, InFlight
    <3>2. RowCovered(s)
      BY <1>2, <2>2, <2>3
    <3>3. \A n : CoveredAt(n, o, s) => CoveredAt(n, o, s)'
      BY <1>10, <2>1
    <3>4. Overtaken(s) => Overtaken(s)'
      BY <1>2, <1>5, <1>7, <1>8, <2>1, <3>1 DEF Overtaken
    <3> QED BY <1>2, <2>1, <3>1, <3>2, <3>3, <3>4 DEF RowCovered
  <2> QED BY <2>1, <2>2, <2>3
<1>12. RowsCovered'
  <2>1. \A o \in Oids \ lost' : journal'[o].filled <= fillLog'[o]
    BY <1>2 DEF RecordInv, RowsCovered
  <2>2. \A o \in Oids \ lost' : Covered(allOrders[o].filled, o)'
    <3> SUFFICES ASSUME NEW o \in Oids \ lost' PROVE Covered(allOrders[o].filled, o)'
      OBVIOUS
    <3>1. PICK n : n = allOrders[o].filled
      OBVIOUS
    <3>2. Covered(n, o)
      BY <1>2, <3>1 DEF RecordInv, RowsCovered
    <3>3. Covered(n, o)'
      <4>1. \A s \in Tasks : tasks[s].awaits = "fill" /\ tasks[s].oid = o => s # t
        BY <1>2
      <4> QED BY <1>1, <1>2, <3>2, <4>1 DEF Covered
    <3> QED BY <1>2, <3>1, <3>3 DEF Covered
  <2> QED BY <1>11, <2>1, <2>2 DEF RowsCovered
<1>13. NothingLost'
  <2>1. faults' # 0
    BY <1>2
  <2> QED BY <2>1 DEF NothingLost
<1> QED BY <1>6, <1>9, <1>12, <1>13 DEF RecordInv

LEMMA RecordInvInductive ==
  ASSUME CacheInv, RecordInv, 0 \notin ClockSteps, [Next]_<<vars, wiring>>
  PROVE  RecordInv'
<1>1. VenueInv'
  BY VenueInvInductive DEF CacheInv
<1>2. CASE UNCHANGED <<vars, wiring>>
  BY <1>2 DEF vars, venueVars, RecordInv, Stamped, Alone, CancelsRecorded, RowsCovered, NothingLost,
              Filling, CancelOnRecord, CancelBeingWritten, Covered, CoveredAt, Overtaken,
              RowCovered, Precedes
<1>3. CASE Restart
  <2>1. /\ \A t \in Tasks : tasks'[t] = Idle
        /\ \A o \in Oids : allOrders'[o] = NoOrder
        /\ UNCHANGED <<journal, fillLog, faults, lost>>
    BY <1>3 DEF Restart
  <2>2. \A t \in Tasks : ~ Filling(t)'
    <3>1. Idle.awaits = "nothing"
      BY DEF Idle
    <3> QED BY <2>1, <3>1 DEF Filling
  <2>3. NoOrder.status # "CANCELLED" /\ NoOrder.filled = 0
    BY DEF NoOrder
  <2>4. \A o \in Oids : Covered(allOrders[o].filled, o)'
    <3>1. \A o \in Oids : fillLog'[o] \in Nat
      BY <1>1 DEF VenueInv, TypeOK
    <3> QED BY <2>1, <2>3, <3>1 DEF Covered
  <2>5. RowsCovered'
    BY <2>1, <2>4 DEF RecordInv, RowsCovered
  <2> QED BY <2>1, <2>2, <2>3, <2>5 DEF RecordInv, Stamped, Alone, CancelsRecorded, NothingLost
<1>4. ASSUME NEW t \in Tasks, Step(t) PROVE RecordInv'
  <2>1. ASSUME NEW q, Runs(t, q), Moves(t, q, Idle), WriteRaises(t), UNCHANGED wiring PROVE RecordInv'
    BY <2>1, RaiseKeepsRecords
  <2>2. ASSUME NEW q, NEW next, Runs(t, q), Moves(t, q, next), Begins(t, next) \/ Resumed(t, next),
               UNCHANGED <<faults, restarts, lost, wiring>>
        PROVE  RecordInv'
    <3>1. Stamped' /\ Alone' /\ CancelsRecorded'
      BY <1>1, <2>2, StampsStay, AloneStays, CancelsStayRecorded DEF RecordInv
    <3>2. RowsCovered'
      BY <1>1, <2>2, RowsStayCovered
    <3>3. NothingLost'
      BY <2>2 DEF RecordInv, NothingLost
    <3> QED BY <3>1, <3>2, <3>3 DEF RecordInv
  <2> QED BY <1>4, <2>1, <2>2, StepDoes
<1> QED BY <1>2, <1>3, <1>4 DEF Next

LEMMA RecordInvInit == Init => RecordInv
<1> SUFFICES ASSUME Init PROVE RecordInv
  OBVIOUS
<1>1. /\ \A t \in Tasks : tasks[t] = Idle
      /\ \A o \in Oids : allOrders[o] = NoOrder /\ journal[o] = NoOrder /\ fillLog[o] = 0
  BY DEF Init
<1>2. NoOrder.status # "CANCELLED" /\ NoOrder.filled = 0 /\ Idle.awaits = "nothing"
  BY DEF NoOrder, Idle
<1>3. RowsCovered
  BY <1>1, <1>2 DEF RowsCovered, Covered
<1>4. NothingLost
  BY DEF Init, NothingLost
<1> QED BY <1>1, <1>2, <1>3, <1>4 DEF RecordInv, Stamped, Alone, CancelsRecorded, Filling

LEMMA LogBehindInductive == CacheInv /\ LogBehind /\ [Next]_<<vars, wiring>> => LogBehind'
<1> SUFFICES ASSUME CacheInv, LogBehind, [Next]_<<vars, wiring>> PROVE LogBehind'
  OBVIOUS
<1>1. VenueInv'
  BY VenueInvInductive DEF CacheInv
<1>2. CASE UNCHANGED <<vars, wiring>>
  BY <1>2 DEF vars, venueVars, LogBehind
<1>3. CASE Restart
  <2>1. restarts' = restarts + 1 /\ restarts \in Nat
    BY <1>3, OrderPathAssumption DEF Restart, CacheInv, VenueInv, TypeOK
  <2>2. restarts' # 0
    BY <2>1
  <2> QED BY <2>2 DEF LogBehind
<1>4. ASSUME NEW t \in Tasks, Step(t) PROVE LogBehind'
  <2>1. CASE WriteRaises(t)
    <3>1. faults' = faults + 1 /\ faults \in Nat
      BY <2>1, OrderPathAssumption DEF WriteRaises, CacheInv, VenueInv, TypeOK
    <3>2. faults' # 0
      BY <3>1
    <3> QED BY <3>2 DEF LogBehind
  <2> QED BY <1>1, <1>4, <2>1, StepDoes, LogStaysBehind
<1> QED BY <1>2, <1>3, <1>4 DEF Next

LEMMA LogBehindInit == Init => LogBehind
<1> SUFFICES ASSUME Init PROVE LogBehind
  OBVIOUS
<1>1. Idle.awaits = "nothing" /\ NoOrder.filled = 0
  BY DEF Idle, NoOrder
<1> QED BY <1>1 DEF Init, LogBehind

\* The journal's current row of an order never counts a fill whose record is
\* not durable, so no restart restores a quantity without the fills behind it:
\* for any calls in flight, any writes of other orders that raise and any
\* restarts, until the record of one of the order's own fills or its cancel's
\* row is lost, with a clock that tells two of its readings apart.
THEOREM FillRecordsFirst ==
  ASSUME 0 \notin ClockSteps
  PROVE  Spec => []FillRecordsCoverOrderRows
<1>1. CacheInv /\ RecordInv /\ [Next]_<<vars, wiring>> => RecordInv'
  BY RecordInvInductive
<1>2. RecordInv => FillRecordsCoverOrderRows
  BY DEF RecordInv, RowsCovered, FillRecordsCoverOrderRows
<1> QED BY <1>1, <1>2, CacheInvInit, CacheInvInductive, RecordInvInit, PTL DEF Spec

\* Neither the journal's order rows nor its fills report more than the venue
\* did, while no write has raised and the process has not died.
THEOREM JournalBehindVenue ==
  ASSUME 0 \notin ClockSteps
  PROVE  Spec => []JournalNeverAhead
<1>1. CacheInv /\ RecordInv /\ [Next]_<<vars, wiring>> => RecordInv'
  BY RecordInvInductive
<1>2. CacheInv /\ RecordInv /\ LogBehind => JournalNeverAhead
  <2> SUFFICES ASSUME CacheInv, RecordInv, LogBehind, faults = 0, restarts = 0, NEW o \in Oids
               PROVE  journal[o].filled <= allOrders[o].filled /\ fillLog[o] <= allOrders[o].filled
    BY DEF JournalNeverAhead
  <2>1. journal[o].filled <= fillLog[o] /\ fillLog[o] <= allOrders[o].filled
    BY DEF RecordInv, RowsCovered, NothingLost, LogBehind
  <2>2. \A order \in Order \cup {NoOrder} : order.filled \in Nat
    BY DEF Order, NoOrder
  <2>3. journal[o].filled \in Nat /\ fillLog[o] \in Nat /\ allOrders[o].filled \in Nat
    BY <2>2 DEF CacheInv, VenueInv, TypeOK
  <2> QED BY <2>1, <2>3
<1> QED BY <1>1, <1>2, CacheInvInit, CacheInvInductive, RecordInvInit, LogBehindInit,
           LogBehindInductive, PTL DEF Spec

-----------------------------------------------------------------------------
(* When no call is in flight. *)

LEMMA CacheStaysCaughtUp ==
  ASSUME CacheInv, VenueInv', Alone, CacheCatchesUp, NEW t \in Tasks, NEW q, NEW next,
         Runs(t, q), Moves(t, q, next), Begins(t, next) \/ Resumed(t, next),
         UNCHANGED wiring
  PROVE  CacheCatchesUp'
<1> SUFFICES ASSUME wiring = "memory"
             PROVE  /\ \A o \in Oids : \/ cache'[o] = allOrders'[o]
                                       \/ \E s \in Tasks : Filling(s)' /\ tasks'[s].oid = o
                    /\ \A s \in Tasks : Filling(s)' => tasks'[s].update = allOrders'[tasks'[s].oid]
  BY DEF CacheCatchesUp
<1>1. tasks'[t] = next /\ \A s \in Tasks \ {t} : tasks'[s] = tasks[s] /\ tasks[s] = Idle
  BY MovesTo, AloneRuns DEF CacheInv, VenueInv
<1>2. \A s \in Tasks \ {t} : ~ Filling(s) /\ ~ Filling(s)'
  <2>1. Idle.awaits = "nothing"
    BY DEF Idle
  <2> QED BY <1>1, <2>1 DEF Filling
<1>3. \A o \in Oids : cache[o] = allOrders[o] \/ (Filling(t) /\ tasks[t].oid = o)
  BY <1>2 DEF CacheCatchesUp
<1>4. /\ allOrders \in [Oids -> Order \cup {NoOrder}] /\ cache \in [Oids -> Order \cup {NoOrder}]
  BY DEF CacheInv, VenueInv, TypeOK
<1> DEFINE Goal == /\ \A o \in Oids : cache'[o] = allOrders'[o] \/ (Filling(t)' /\ next.oid = o)
                   /\ Filling(t)' => next.update = allOrders'[next.oid]
<1>40. ASSUME NEW p \in Oids, NEW order \in Order, ~ Filling(t),
              allOrders' = [allOrders EXCEPT ![p] = order], cache' = [cache EXCEPT ![p] = order]
       PROVE  \A o \in Oids : cache'[o] = allOrders'[o]
  <2>1. \A o \in Oids : cache[o] = allOrders[o]
    BY <1>3, <1>40
  <2> QED BY <1>4, <1>40, <2>1
<1>5. ASSUME Placing(next), ~ Filling(t) PROVE Goal
  <2>1. ~ Filling(t)'
    BY <1>1, <1>5 DEF Placing, Filling
  <2>2. \A o \in Oids : cache'[o] = allOrders'[o]
    BY <1>5, <1>40 DEF Placing
  <2> QED BY <2>1, <2>2
<1>6. ASSUME NEW o \in Oids, NEW n, Fills(o, n, next), ~ Filling(t) PROVE Goal
  <2>1. Filling(t)'
    BY <1>1, <1>6 DEF Fills, Filling
  <2> QED BY <1>3, <1>4, <1>6, <2>1 DEF Fills
<1>7. ASSUME NEW o \in Oids, NEW rest, Cancels(o, rest, next), ~ Filling(t) PROVE Goal
  <2>1. ~ Filling(t)'
    BY <1>1, <1>7 DEF Cancels, Filling
  <2>2. \A p \in Oids : cache'[p] = allOrders'[p]
    BY <1>7, <1>40 DEF Cancels
  <2> QED BY <2>1, <2>2
<1>8. ASSUME Quiet, ~ Filling(t), next = Idle \/ next.awaits = "submitted" PROVE Goal
  <2>1. ~ Filling(t)'
    BY <1>1, <1>8 DEF Filling, Idle
  <2> QED BY <1>3, <1>8, <2>1 DEF Quiet
<1>9. ASSUME Counts(t, next) PROVE Goal
  <2>1. Filling(t) /\ Filling(t)' /\ tasks[t].update = allOrders[tasks[t].oid]
    BY <1>1, <1>9 DEF Counts, Filling, CacheCatchesUp
  <2>2. /\ next.oid = tasks[t].oid /\ next.update = tasks[t].update /\ allOrders' = allOrders
        /\ \A o \in Oids : o # next.oid => cache'[o] = cache[o]
    BY <1>4, <1>9 DEF Counts, SameFill
  <2> QED BY <1>3, <2>1, <2>2
<1>10. ASSUME Updates(t, next) PROVE Goal
  <2>1. Filling(t) /\ ~ Filling(t)'
    BY <1>1, <1>10 DEF Updates, Filling
  <2>2. tasks[t].update = allOrders[tasks[t].oid]
    BY <2>1 DEF CacheCatchesUp
  <2>3. /\ next.oid = tasks[t].oid /\ next.update = tasks[t].update /\ allOrders' = allOrders
        /\ cache' = [cache EXCEPT ![next.oid] = next.update]
    BY <1>10 DEF Updates, SameFill
  <2>4. \A o \in Oids : cache'[o] = IF o = next.oid THEN next.update ELSE cache[o]
    BY <1>4, <2>3
  <2>5. \A o \in Oids : cache'[o] = allOrders'[o]
    BY <1>3, <2>2, <2>3, <2>4
  <2> QED BY <2>1, <2>5
<1>11. Goal
  <2>1. CASE Begins(t, next)
    <3>1. ~ Filling(t)
      BY <2>1 DEF Begins, MayStart, Filling, Idle
    <3> HIDE DEF Goal
    <3> QED BY <1>5, <1>6, <1>7, <1>8, <2>1, <3>1 DEF Begins
  <2>2. CASE GoesOn(t, next)
    <3>1. ~ Filling(t)
      BY <2>2 DEF GoesOn, Filling
    <3>2. \A o : \A n : Fills(o, n, next) => o \in Oids
      BY DEF Fills
    <3> HIDE DEF Goal
    <3> QED BY <1>6, <1>8, <2>2, <3>1, <3>2 DEF GoesOn
  <2>3. CASE CancelsOn(t, next) \/ Ends(t, next)
    <3>1. ~ Filling(t)
      BY <2>3 DEF CancelsOn, Ends, Filling
    <3> HIDE DEF Goal
    <3> QED BY <1>7, <1>8, <2>3, <3>1 DEF CancelsOn, Ends
  <2> HIDE DEF Goal
  <2> QED BY <1>9, <1>10, <2>1, <2>2, <2>3 DEF Resumed
<1> QED BY <1>1, <1>2, <1>11

LEMMA MemoryCacheInit == Init => Alone /\ CacheCatchesUp
<1>1. Idle.awaits = "nothing"
  BY DEF Idle
<1> QED BY <1>1 DEF Init, Alone, CacheCatchesUp, Filling

LEMMA MemoryCacheInductive ==
  ASSUME CacheInv, Alone, CacheCatchesUp, [Next]_<<vars, wiring>>
  PROVE  Alone' /\ CacheCatchesUp'
<1>1. VenueInv'
  BY VenueInvInductive DEF CacheInv
<1>2. CASE UNCHANGED <<vars, wiring>>
  BY <1>2 DEF vars, venueVars, Alone, CacheCatchesUp, Filling
<1>3. Restart \/ (\E t \in Tasks : WriteRaises(t) /\ UNCHANGED wiring) => Alone' /\ CacheCatchesUp'
  <2>1. Restart \/ (\E t \in Tasks : WriteRaises(t) /\ UNCHANGED wiring) => wiring' = "sqlite"
    BY DEF Restart, WriteRaises
  <2> QED BY <2>1 DEF Alone, CacheCatchesUp
<1>4. ASSUME NEW t \in Tasks, Step(t) PROVE Alone' /\ CacheCatchesUp'
  BY <1>1, <1>3, <1>4, StepDoes, AloneStays, CacheStaysCaughtUp
<1> QED BY <1>2, <1>3, <1>4 DEF Next

\* With the in-memory journal the cache is the venue's own view whenever no
\* call is running: with one call at a time no fill is counted twice.
THEOREM MemoryCacheAgrees == Spec => []CacheAgreesInMemory
<1> DEFINE Inv == CacheInv /\ Alone /\ CacheCatchesUp
<1>1. Init => Inv
  BY CacheInvInit, MemoryCacheInit
<1>2. Inv /\ [Next]_<<vars, wiring>> => Inv'
  BY CacheInvInductive, MemoryCacheInductive
<1>3. Inv => CacheAgreesInMemory
  <2> SUFFICES ASSUME Inv, wiring = "memory", queue = <<>> PROVE cache = allOrders
    BY DEF CacheAgreesInMemory, CacheAgreesAtRest
  <2>0. queue = <<>>
    OBVIOUS
  <2>1. \A t \in Tasks : tasks[t] = Idle
    <3>1. DOMAIN queue = {}
      BY <2>0
    <3> QED BY <3>1 DEF CacheInv, VenueInv, TypeOK, CallOK
  <2>2. \A t \in Tasks : ~ Filling(t)
    <3>1. Idle.awaits = "nothing"
      BY DEF Idle
    <3> QED BY <2>1, <3>1 DEF Filling
  <2>3. \A o \in Oids : cache[o] = allOrders[o]
    BY <2>2 DEF CacheCatchesUp
  <2> QED BY <2>3 DEF CacheInv, VenueInv, TypeOK
<1> HIDE DEF Inv
<1> QED BY <1>1, <1>2, <1>3, PTL DEF Spec

-----------------------------------------------------------------------------
(* SQLite's journal when no call is in flight. *)

LEMMA BroughtTypes ==
  ASSUME CacheInv, NEW s \in Tasks, tasks[s] # Idle
  PROVE  /\ tasks[s] \in InFlight /\ tasks[s].oid \in Oids /\ allOrders[tasks[s].oid] \in Order
         /\ Brought(s) \in Order /\ Brought(s).updated \in Nat
         /\ allOrders[tasks[s].oid].updated \in Nat
         /\ tasks[s].call = "submit" => tasks[s].submitted.updated \in Nat
<1>1. /\ tasks[s] \in InFlight /\ tasks[s].oid \in Oids /\ tasks[s].row \in Order
      /\ allOrders[tasks[s].oid] \in Order
  BY DEF CacheInv, CallsPlaced, VenueInv, TypeOK, InFlight
<1>2. Filling(s) => tasks[s].update \in Order
  BY FillingTypes
<1>3. tasks[s].call = "submit" => tasks[s].submitted \in Order
  BY DEF CacheInv, VenueInv, TypeOK, CallOK
<1>4. \A order \in Order : order.updated \in Nat
  BY DEF Order
<1> QED BY <1>1, <1>2, <1>3, <1>4 DEF Brought

\* What the row t handed over leaves of it: the journal keeps up with the
\* order, or another write, or _on_fill's next one, will bring it there.
LEMMA JournalKeepsUp ==
  ASSUME CacheInv, Stamped, JournalCatchesUp, wiring = "sqlite", faults = 0, restarts = 0,
         NEW t \in Tasks, NEW next, Begins(t, next) \/ Resumed(t, next), NEW o \in Oids
  PROVE  /\ allOrders[o] = NoOrder => journal'[o] = NoOrder
         /\ journal'[o] # NoOrder => journal'[o].updated <= allOrders[o].updated
         /\ \/ journal'[o] = allOrders[o]
            \/ \E s \in Tasks \ {t} : Brings(s, o)
            \/ Filling(t) /\ Brings(t, o)
<1>1. /\ allOrders[o] = NoOrder => journal[o] = NoOrder
      /\ journal[o] # NoOrder => journal[o].updated <= allOrders[o].updated
      /\ journal[o] = allOrders[o] \/ \E s \in Tasks : Brings(s, o)
      /\ tasks[t] # Idle => RowInTime(t)
  BY DEF JournalCatchesUp
<1>2. \/ journal' = journal /\ (tasks[t] = Idle \/ tasks[t].awaits = "fill")
      \/ tasks[t] # Idle /\ tasks[t].awaits # "fill" /\ Persist(tasks[t].oid, tasks[t].row)
  <2>1. CASE Begins(t, next)
    BY <2>1 DEF Begins, MayStart
  <2>2. CASE Resumed(t, next)
    <3>1. tasks[t] # Idle
      BY <2>2, InFlightIsNotIdle DEF Resumed
    <3> QED BY <2>2, <3>1 DEF Resumed, GoesOn, CancelsOn, Ends, Counts, Updates
  <2> QED BY <2>1, <2>2
<1>3. CASE journal' = journal /\ (tasks[t] = Idle \/ tasks[t].awaits = "fill")
  <2>1. Brings(t, o) => Filling(t)
    BY <1>3 DEF Brings, Filling
  <2> QED BY <1>1, <1>3, <2>1
<1>4. CASE tasks[t] # Idle /\ tasks[t].awaits # "fill" /\ Persist(tasks[t].oid, tasks[t].row)
  <2> DEFINE p == tasks[t].oid
             row == tasks[t].row
             order == allOrders[p]
  <2>1. p \in Oids /\ row \in Order /\ row.updated \in Nat /\ order \in Order
        /\ Brought(t) \in Order /\ Brought(t).updated \in Nat /\ order.updated \in Nat
    <3>1. row \in Order
      BY <1>4, BroughtTypes DEF InFlight
    <3> QED BY <1>4, <3>1, BroughtTypes DEF Order
  <2>2. /\ Brought(t).updated < order.updated \/ Brought(t) = order
        /\ row.updated = Brought(t).updated
        /\ ~ Filling(t) => row = Brought(t)
    <3>1. Brought(t).updated < order.updated \/ Brought(t) = order
      BY <1>1, <1>4 DEF RowInTime
    <3>2. row.updated = Brought(t).updated
      BY DEF Stamped, Brought
    <3> QED BY <3>1, <3>2 DEF Brought
  <2>3. CASE o # p
    <3>1. journal'[o] = journal[o]
      BY <1>4, <2>1, <2>3, PersistDoes DEF CacheInv, VenueInv
    <3>2. ~ Brings(t, o)
      BY <2>3 DEF Brings
    <3> QED BY <1>1, <3>1, <3>2
  <2>4. CASE o = p
    <3>1. /\ journal'[o] \in Order /\ journal'[o] # NoOrder
          /\ \/ /\ journal'[o] = row
                /\ journal[o] # NoOrder => journal[o].updated <= row.updated
             \/ journal'[o] = journal[o] /\ row.updated < journal[o].updated
      BY <1>4, <2>1, <2>4, PersistDoes DEF CacheInv, VenueInv
    <3>2. order # NoOrder
      BY <2>1, NotNoOrder
    <3>3. journal'[o].updated <= order.updated
      BY <1>1, <2>1, <2>2, <2>4, <3>1
    <3>4. CASE Brought(t) = order
      <4>1. Filling(t) => Brings(t, o)
        BY <1>4, <2>4, <3>4 DEF Brings
      <4>2. ~ Filling(t) => journal'[o] = order
        <5> SUFFICES ASSUME ~ Filling(t) PROVE journal'[o] = order
          OBVIOUS
        <5>1. row = order
          BY <2>2, <3>4
        <5>2. CASE journal'[o] = journal[o] /\ row.updated < journal[o].updated
          <6>1. journal'[o].updated <= row.updated /\ journal'[o].updated \in Nat
            BY <3>1, <3>3, <5>1 DEF Order
          <6> QED BY <2>1, <5>2, <6>1
        <5> QED BY <3>1, <5>1, <5>2
      <4>3. journal'[o] = allOrders[o] \/ (Filling(t) /\ Brings(t, o))
        BY <2>4, <4>1, <4>2
      <4>4. allOrders[o] # NoOrder /\ journal'[o].updated <= allOrders[o].updated
        BY <2>4, <3>2, <3>3
      <4> QED BY <4>3, <4>4
    <3>5. CASE Brought(t) # order
      <4>1. ~ Brings(t, o)
        BY <2>4, <3>5 DEF Brings
      <4>2. CASE journal[o] = order
        <5>1. row.updated < order.updated
          BY <2>2, <3>5
        <5>2. journal'[o] = order
          BY <2>1, <3>1, <3>2, <4>2, <5>1
        <5> QED BY <2>4, <3>2, <3>3, <5>2
      <4>3. CASE journal[o] # order
        <5>1. \E s \in Tasks \ {t} : Brings(s, o)
          BY <1>1, <2>4, <4>1, <4>3
        <5> QED BY <2>4, <3>2, <3>3, <5>1
      <4> QED BY <4>2, <4>3
    <3> QED BY <3>4, <3>5
  <2> QED BY <2>3, <2>4
<1> QED BY <1>2, <1>3, <1>4

\* t brings the order it has just placed, filled or cancelled.
BringsNew(t, next) ==
  \E o \in Oids, order \in Order :
    /\ Changed(o, order) /\ ~ Filling(t)
    /\ next # Idle /\ next.oid = o /\ Brought(t)' = order
    /\ next.call = "submit" => next.rest \subseteq {o} /\ next.submitted.updated < order.updated

LEMMA NewOrderBrought ==
  ASSUME CacheInv, VenueInv', Stamped, 0 \notin ClockSteps, NEW t \in Tasks, NEW q, NEW next,
         Moves(t, q, next), Begins(t, next) \/ Resumed(t, next),
         tasks[t] # Idle => RowInTime(t),
         \/ Placing(next) /\ tasks[t] = Idle
         \/ \E o \in Oids, n \in Nat : Fills(o, n, next)
         \/ \E o \in Oids, rest \in SUBSET Oids : Cancels(o, rest, next)
  PROVE  BringsNew(t, next)
<1>1. tasks'[t] = next
  BY MovesTo
<1>2. /\ allOrders \in [Oids -> Order \cup {NoOrder}]
      /\ \A order \in Order : order # NoOrder
  BY NotNoOrder DEF CacheInv, VenueInv, TypeOK
<1>3. CASE Placing(next) /\ tasks[t] = Idle
  <2>1. ~ Filling(t)
    BY <1>3 DEF Filling, Idle
  <2>2. PICK o \in Oids : o = nextOid + 1
    BY <1>3 DEF Placing
  <2>3. PICK order \in Order :
          order.updated = clock'[o] /\ allOrders' = [allOrders EXCEPT ![o] = order]
          /\ order.filled = 0 /\ next.row = order
    BY <1>3, <2>2 DEF Placing
  <2>4. /\ allOrders[o] = NoOrder /\ \A p \in Oids \ {o} : clock'[p] = clock[p]
        /\ next.awaits = "ack" /\ next.oid = o /\ next.rest \subseteq {o}
        /\ next.submitted.updated < clock'[o]
    BY <1>3, <2>2 DEF Placing
  <2>5. clock'[o] \in Nat
    BY DEF VenueInv, TypeOK
  <2>6. allOrders'[o] = order /\ \A p \in Oids \ {o} : allOrders'[p] = allOrders[p]
    BY <1>2, <2>3
  <2>7. Changed(o, order)
    BY <2>3, <2>4, <2>5, <2>6 DEF Changed, NoOrder
  <2>8. Brought(t)' = order
    BY <1>1, <2>3, <2>4 DEF Brought, Filling
  <2>9. next # Idle
    BY <2>4 DEF Idle
  <2> QED BY <2>1, <2>3, <2>4, <2>7, <2>8, <2>9 DEF BringsNew
\* An order filled or cancelled, and what a submit in flight keeps.
<1>4. ASSUME NEW o \in Oids, o \in openOrders, ReadsClock(o), NEW order \in Order,
             order.updated = clock'[o], allOrders' = [allOrders EXCEPT ![o] = order],
             allOrders[o].filled <= order.filled
      PROVE  Changed(o, order) /\ clock[o] = allOrders[o].updated
  <2>1. allOrders'[o] = order /\ \A p \in Oids \ {o} : allOrders'[p] = allOrders[p]
    BY <1>2, <1>4
  <2>2. allOrders[o].status # "CANCELLED" /\ allOrders[o] # NoOrder
    BY <1>4, OpenIsNotFull DEF CacheInv, NoOrder
  <2>3. TypeOK /\ allOrders[o].updated = clock[o]
    BY <2>2 DEF CacheInv, VenueInv, Stamped
  <2> QED BY <1>4, <2>1, <2>2, <2>3, ClockAdvances DEF Changed
<1>5. Idle.awaits = "nothing" /\ (Resumed(t, next) => tasks[t] # Idle /\ tasks[t] \in InFlight)
  BY InFlightIsNotIdle DEF Idle, Resumed
<1>6. ASSUME NEW o \in Oids, NEW n \in Nat, Fills(o, n, next) PROVE BringsNew(t, next)
  <2>1. next.awaits = "fill" /\ next.oid = o /\ o \in openOrders /\ ReadsClock(o)
    BY <1>6 DEF Fills
  <2>2. PICK order \in Order :
          /\ order.updated = clock'[o] /\ order.filled = allOrders[o].filled + n
          /\ allOrders' = [allOrders EXCEPT ![o] = order] /\ next.update = order
    BY <1>6 DEF Fills
  <2>3. allOrders[o].filled <= order.filled
    BY <2>1, <2>2, OpenIsNotFull DEF CacheInv
  <2>4. Changed(o, order) /\ clock[o] = allOrders[o].updated /\ allOrders[o] # NoOrder
    BY <1>4, <2>1, <2>2, <2>3, OpenIsNotFull DEF CacheInv
  <2>5. \/ Begins(t, next) /\ next.call = "orderbook"
        \/ Resumed(t, next) /\ GoesOn(t, next) /\ o \in tasks[t].rest /\ SameCall(tasks[t], next)
           /\ next.rest \subseteq tasks[t].rest
    <3>1. CASE Begins(t, next)
      BY <1>5, <2>1, <3>1 DEF Begins, Placing, Cancels
    <3>2. CASE Resumed(t, next)
      <4>1. GoesOn(t, next)
        BY <1>5, <2>1, <3>2 DEF Resumed, CancelsOn, Ends, Counts, Updates, Cancels
      <4>2. PICK r \in tasks[t].rest, m \in Nat :
              Fills(r, m, next) /\ SameCall(tasks[t], next) /\ next.rest \subseteq tasks[t].rest
        BY <1>5, <2>1, <4>1 DEF GoesOn
      <4>3. r = o
        BY <2>1, <4>2 DEF Fills
      <4> QED BY <3>2, <4>1, <4>2, <4>3
    <3> QED BY <3>1, <3>2
  <2>6. ~ Filling(t) /\ Brought(t)' = order
    <3>1. ~ Filling(t)
      BY <2>5 DEF Filling, Begins, MayStart, GoesOn, Idle
    <3> QED BY <1>1, <2>1, <2>2, <3>1 DEF Brought, Filling
  <2>7. next.call = "submit" => next.rest \subseteq {o} /\ next.submitted.updated < order.updated
    <3> SUFFICES ASSUME next.call = "submit"
                 PROVE  next.rest \subseteq {o} /\ next.submitted.updated < order.updated
      OBVIOUS
    <3>1. /\ tasks[t] # Idle /\ tasks[t].call = "submit" /\ o \in tasks[t].rest
          /\ next.rest \subseteq tasks[t].rest /\ next.submitted = tasks[t].submitted
      BY <1>5, <2>5 DEF SameCall
    <3>2. tasks[t].rest \subseteq {o} /\ tasks[t].submitted.updated < allOrders[o].updated
      BY <3>1 DEF RowInTime
    <3>3. /\ tasks[t].submitted.updated \in Nat /\ clock[o] < clock'[o]
          /\ clock[o] \in Nat /\ clock'[o] \in Nat
      BY <2>4, <3>1, BroughtTypes DEF Changed
    <3> QED BY <2>2, <2>4, <3>1, <3>2, <3>3
  <2>8. next # Idle
    BY <1>5, <2>1
  <2> QED BY <2>1, <2>4, <2>6, <2>7, <2>8 DEF BringsNew
<1>7. ASSUME NEW o \in Oids, NEW rest \in SUBSET Oids, Cancels(o, rest, next)
      PROVE  BringsNew(t, next)
  <2>1. /\ next.awaits = "cancelled" /\ next.oid = o /\ o \in openOrders /\ ReadsClock(o)
        /\ o \in rest /\ next.rest = {r \in rest : r > o}
    BY <1>7 DEF Cancels, First
  <2>2. PICK order \in Order :
          /\ order.updated = clock'[o] /\ order.filled = allOrders[o].filled
          /\ allOrders' = [allOrders EXCEPT ![o] = order] /\ next.row = order
    BY <1>7 DEF Cancels
  <2>3. allOrders[o].filled <= order.filled
    BY <2>1, <2>2, OpenIsNotFull DEF CacheInv
  <2>4. Changed(o, order) /\ clock[o] = allOrders[o].updated /\ allOrders[o] # NoOrder
    BY <1>4, <2>1, <2>2, <2>3, OpenIsNotFull DEF CacheInv
  <2>5. \/ Begins(t, next) /\ next.call = "cancel"
        \/ Resumed(t, next) /\ CancelsOn(t, next) /\ o \in tasks[t].rest
           /\ next.rest \subseteq tasks[t].rest /\ SameCall(tasks[t], next)
    <3>1. CASE Begins(t, next)
      BY <1>5, <2>1, <3>1 DEF Begins, Placing, Fills
    <3>2. CASE Resumed(t, next)
      <4>1. CancelsOn(t, next)
        BY <1>5, <2>1, <3>2 DEF Resumed, GoesOn, Ends, Counts, Updates, Fills
      <4>2. PICK r \in Oids : Cancels(r, tasks[t].rest, next) /\ SameCall(tasks[t], next)
        BY <1>5, <2>1, <4>1 DEF CancelsOn
      <4>3. r = o /\ r \in tasks[t].rest /\ next.rest \subseteq tasks[t].rest
        BY <2>1, <4>2 DEF Cancels, First
      <4> QED BY <3>2, <4>1, <4>2, <4>3
    <3> QED BY <3>1, <3>2
  <2>6. ~ Filling(t) /\ Brought(t)' = order
    <3>1. ~ Filling(t)
      BY <2>5 DEF Filling, Begins, MayStart, CancelsOn, Idle
    <3> QED BY <1>1, <2>1, <2>2, <3>1 DEF Brought, Filling
  <2>7. next.call = "submit" => next.rest \subseteq {o} /\ next.submitted.updated < order.updated
    <3> SUFFICES ASSUME next.call = "submit"
                 PROVE  next.rest \subseteq {o} /\ next.submitted.updated < order.updated
      OBVIOUS
    <3>1. /\ tasks[t] # Idle /\ tasks[t].call = "submit" /\ o \in tasks[t].rest
          /\ next.rest \subseteq tasks[t].rest /\ next.submitted = tasks[t].submitted
      BY <1>5, <2>5 DEF SameCall
    <3>2. tasks[t].rest \subseteq {o} /\ tasks[t].submitted.updated < allOrders[o].updated
      BY <3>1 DEF RowInTime
    <3>3. /\ tasks[t].submitted.updated \in Nat /\ clock[o] < clock'[o]
          /\ clock[o] \in Nat /\ clock'[o] \in Nat
      BY <2>4, <3>1, BroughtTypes DEF Changed
    <3> QED BY <2>2, <2>4, <3>1, <3>2, <3>3
  <2>8. next # Idle
    BY <1>5, <2>1
  <2> QED BY <2>1, <2>4, <2>6, <2>7, <2>8 DEF BringsNew
<1> QED BY <1>3, <1>6, <1>7

\* What t brings while the venue's orders stay as they are.
LEMMA SameOrdersBrought ==
  ASSUME CacheInv, NEW t \in Tasks, NEW q, NEW next, Moves(t, q, next),
         Begins(t, next) \/ Resumed(t, next), tasks[t] # Idle => RowInTime(t)
  PROVE  \/ Placing(next) /\ tasks[t] = Idle
         \/ \E o \in Oids, n \in Nat : Fills(o, n, next)
         \/ \E o \in Oids, rest \in SUBSET Oids : Cancels(o, rest, next)
         \/ /\ allOrders' = allOrders
            /\ \/ next = Idle /\ ~ Filling(t)
               \/ /\ RowInTime(t)'
                  /\ Filling(t) => next # Idle /\ next.oid = tasks[t].oid /\ Brought(t)' = Brought(t)
<1>1. tasks'[t] = next /\ Idle.awaits = "nothing"
  BY MovesTo DEF Idle
<1>2. CASE Begins(t, next)
  <2>1. tasks[t] = Idle /\ ~ Filling(t)
    BY <1>1, <1>2 DEF Begins, MayStart, Filling
  <2> QED BY <1>2, <2>1 DEF Begins, Quiet
<1>3. CASE Resumed(t, next)
  <2>1. /\ tasks[t] \in InFlight /\ tasks[t] # Idle /\ tasks[t].rest \in SUBSET Oids
        /\ tasks[t].rest \subseteq Oids
    BY <1>3, InFlightIsNotIdle DEF Resumed, InFlight
  <2>2. CASE GoesOn(t, next)
    <3>1. ~ Filling(t)
      BY <2>2 DEF GoesOn, Filling
    <3>2. CASE Quiet /\ SameCall(tasks[t], next) /\ next.call = "submit"
               /\ next.awaits = "submitted" /\ next.row = tasks[t].submitted
               /\ next.oid = tasks[t].oid /\ next.rest = {}
      <4>1. Brought(t)' = tasks[t].submitted /\ allOrders' = allOrders
        BY <1>1, <3>2 DEF Brought, Filling, Quiet
      <4>2. tasks[t].submitted.updated < allOrders[tasks[t].oid].updated
        BY <2>1, <3>2 DEF RowInTime, SameCall
      <4>3. RowInTime(t)'
        BY <1>1, <3>2, <4>1, <4>2 DEF RowInTime, SameCall
      <4> QED BY <3>1, <4>1, <4>3
    <3>3. CASE Quiet /\ next = Idle
      BY <3>1, <3>3 DEF Quiet
    <3>4. CASE \E o \in tasks[t].rest, n \in Nat : Fills(o, n, next)
      BY <2>1, <3>4
    <3> QED BY <2>2, <3>2, <3>3, <3>4 DEF GoesOn
  <2>3. CASE CancelsOn(t, next)
    <3>1. ~ Filling(t)
      BY <2>3 DEF CancelsOn, Filling
    <3> QED BY <2>1, <2>3, <3>1 DEF CancelsOn, Quiet
  <2>4. CASE Ends(t, next)
    BY <2>4 DEF Ends, Filling, Quiet
  <2>5. CASE Counts(t, next) \/ Updates(t, next)
    <3>1. /\ next.oid = tasks[t].oid /\ next.update = tasks[t].update /\ next.rest = tasks[t].rest
          /\ next.call = tasks[t].call /\ next.submitted = tasks[t].submitted
          /\ allOrders' = allOrders
      BY <2>5 DEF Counts, Updates, SameFill, SameCall
    <3>2. Filling(t) /\ Brought(t) = tasks[t].update /\ Brought(t)' = next.update
      BY <1>1, <2>5 DEF Counts, Updates, Filling, Brought
    <3>3. next # Idle
      BY <1>1, <2>5 DEF Counts, Updates
    <3>4. RowInTime(t)'
      BY <1>1, <2>1, <3>1, <3>2 DEF RowInTime
    <3> QED BY <3>1, <3>2, <3>3, <3>4
  <2> QED BY <1>3, <2>2, <2>3, <2>4, <2>5 DEF Resumed
<1> QED BY <1>2, <1>3

LEMMA JournalStaysCaughtUp ==
  ASSUME CacheInv, VenueInv', Stamped, 0 \notin ClockSteps, JournalCatchesUp,
         NEW t \in Tasks, NEW q, NEW next, Moves(t, q, next),
         Begins(t, next) \/ Resumed(t, next), UNCHANGED <<faults, restarts>>,
         UNCHANGED wiring
  PROVE  JournalCatchesUp'
<1> SUFFICES ASSUME wiring = "sqlite", faults = 0, restarts = 0
             PROVE  JournalCatchesUp'
  BY DEF JournalCatchesUp
<1> DEFINE Agrees(o) == /\ allOrders'[o] = NoOrder => journal'[o] = NoOrder
                        /\ journal'[o] # NoOrder => journal'[o].updated <= allOrders'[o].updated
                        /\ journal'[o] = allOrders'[o] \/ \E s \in Tasks : Brings(s, o)'
<1>1. /\ tasks'[t] = next /\ \A s \in Tasks \ {t} : tasks'[s] = tasks[s]
      /\ tasks[t] # Idle => RowInTime(t)
  BY MovesTo DEF JournalCatchesUp
<1>2. \A o \in Oids :
        /\ allOrders[o] = NoOrder => journal'[o] = NoOrder
        /\ journal'[o] # NoOrder => journal'[o].updated <= allOrders[o].updated
        /\ \/ journal'[o] = allOrders[o]
           \/ \E s \in Tasks \ {t} : Brings(s, o)
           \/ Filling(t) /\ Brings(t, o)
  BY JournalKeepsUp
<1>3. \A s \in Tasks \ {t} : /\ Brought(s)' = Brought(s)
                             /\ tasks[s] # Idle => RowInTime(s)
  BY <1>1 DEF Brought, Filling, JournalCatchesUp
<1>4. CASE /\ allOrders' = allOrders
           /\ \/ next = Idle /\ ~ Filling(t)
              \/ /\ RowInTime(t)'
                 /\ Filling(t) => next # Idle /\ next.oid = tasks[t].oid /\ Brought(t)' = Brought(t)
  <2>1. ASSUME NEW o \in Oids PROVE Agrees(o)
    <3>1. ASSUME NEW s \in Tasks \ {t}, Brings(s, o) PROVE Brings(s, o)'
      BY <1>1, <1>3, <1>4, <3>1 DEF Brings
    <3>2. Filling(t) /\ Brings(t, o) => Brings(t, o)'
      BY <1>1, <1>4 DEF Brings
    <3> QED BY <1>2, <1>4, <3>1, <3>2
  <2>2. ASSUME NEW s \in Tasks, tasks'[s] # Idle PROVE RowInTime(s)'
    <3>1. CASE s = t
      BY <1>1, <1>4, <2>2, <3>1
    <3>2. CASE s # t
      BY <1>1, <1>3, <1>4, <2>2, <3>2 DEF RowInTime
    <3> QED BY <3>1, <3>2
  <2> QED BY <2>1, <2>2 DEF JournalCatchesUp
<1>5. CASE BringsNew(t, next)
  <2>1. PICK o \in Oids, order \in Order :
          /\ Changed(o, order) /\ ~ Filling(t)
          /\ next # Idle /\ next.oid = o /\ Brought(t)' = order
          /\ next.call = "submit" => next.rest \subseteq {o} /\ next.submitted.updated < order.updated
    BY <1>5 DEF BringsNew
  <2>2. /\ allOrders'[o] = order /\ order # NoOrder /\ order.updated \in Nat
        /\ \A p \in Oids \ {o} : allOrders'[p] = allOrders[p]
        /\ allOrders[o] # NoOrder =>
             allOrders[o].updated < order.updated /\ allOrders[o].updated \in Nat
    BY <2>1, NotNoOrder DEF Changed, Stamped
  <2>3. journal' \in [Oids -> Order \cup {NoOrder}]
    BY DEF VenueInv, TypeOK
  <2>4. Agrees(o)
    <3>1. Brings(t, o)'
      BY <1>1, <2>1, <2>2 DEF Brings
    <3>2. journal'[o] # NoOrder => journal'[o].updated <= order.updated
      <4>1. journal'[o] # NoOrder => journal'[o].updated \in Nat
        BY <2>3 DEF Order
      <4> QED BY <1>2, <2>2, <4>1
    <3> QED BY <2>2, <3>1, <3>2
  <2>5. ASSUME NEW p \in Oids \ {o} PROVE Agrees(p)
    <3>1. ASSUME NEW s \in Tasks \ {t}, Brings(s, p) PROVE Brings(s, p)'
      BY <1>1, <1>3, <2>2, <2>5, <3>1 DEF Brings
    <3>2. allOrders'[p] = allOrders[p]
      BY <2>2, <2>5
    <3> QED BY <1>2, <2>1, <3>1, <3>2
  <2>6. ASSUME NEW s \in Tasks, tasks'[s] # Idle PROVE RowInTime(s)'
    <3>1. CASE s = t
      BY <1>1, <2>1, <2>2, <3>1 DEF RowInTime
    <3>2. CASE s # t
      <4>1. /\ tasks'[s] = tasks[s] /\ tasks[s] # Idle /\ RowInTime(s) /\ Brought(s)' = Brought(s)
            /\ tasks[s].oid \in Oids /\ allOrders[tasks[s].oid] # NoOrder
            /\ Brought(s).updated \in Nat /\ allOrders[tasks[s].oid].updated \in Nat
            /\ tasks[s].call = "submit" => tasks[s].submitted.updated \in Nat
        BY <1>1, <1>3, <2>6, <3>2, BroughtTypes, NotNoOrder
      <4>2. CASE tasks[s].oid # o
        BY <2>2, <4>1, <4>2 DEF RowInTime
      <4>3. CASE tasks[s].oid = o
        <5>1. Brought(s).updated <= allOrders[o].updated /\ allOrders[o].updated < order.updated
          BY <2>2, <4>1, <4>3 DEF RowInTime
        <5>2. Brought(s).updated < order.updated
          BY <2>2, <4>1, <4>3, <5>1
        <5>3. tasks[s].call = "submit" =>
                tasks[s].rest \subseteq {o} /\ tasks[s].submitted.updated < order.updated
          BY <2>2, <4>1, <4>3 DEF RowInTime
        <5> QED BY <2>2, <4>1, <4>3, <5>2, <5>3 DEF RowInTime
      <4> QED BY <4>2, <4>3
    <3> QED BY <3>1, <3>2
  <2> QED BY <2>4, <2>5, <2>6 DEF JournalCatchesUp
<1> QED BY <1>1, <1>4, <1>5, SameOrdersBrought, NewOrderBrought

\* A restart and a raised write are counted.
LEMMA FaultsCounted ==
  ASSUME TypeOK
  PROVE  (Restart => restarts' # 0) /\ \A t \in Tasks : WriteRaises(t) => faults' # 0
<1>1. restarts \in Nat /\ faults \in Nat
  BY OrderPathAssumption DEF TypeOK
<1>2. Restart => restarts' = restarts + 1
  BY DEF Restart
<1>3. \A t \in Tasks : WriteRaises(t) => faults' = faults + 1
  BY DEF WriteRaises
<1> QED BY <1>1, <1>2, <1>3

LEMMA JournalCatchesUpInductive ==
  ASSUME CacheInv, RecordInv, 0 \notin ClockSteps, JournalCatchesUp, [Next]_<<vars, wiring>>
  PROVE  JournalCatchesUp'
<1>1. TypeOK /\ VenueInv'
  BY VenueInvInductive DEF CacheInv, VenueInv
<1>2. CASE UNCHANGED <<vars, wiring>>
  BY <1>2 DEF vars, venueVars, JournalCatchesUp, RowInTime, Brings, Brought, Filling
<1>3. CASE Restart
  BY <1>1, <1>3, FaultsCounted DEF JournalCatchesUp
<1>4. ASSUME NEW t \in Tasks, WriteRaises(t) PROVE JournalCatchesUp'
  BY <1>1, <1>4, FaultsCounted DEF JournalCatchesUp
<1>5. ASSUME NEW t \in Tasks, Step(t) PROVE JournalCatchesUp'
  BY <1>1, <1>4, <1>5, StepDoes, JournalStaysCaughtUp DEF RecordInv
<1> QED BY <1>2, <1>3, <1>5 DEF Next

\* When no call is in flight SQLite's current row of every order is the order
\* as the venue has it, and every fill is on record, however the writes of the
\* calls were interleaved: with a clock that tells two of its readings apart,
\* until a write raises or the process dies.
THEOREM SQLiteJournalAgrees ==
  ASSUME 0 \notin ClockSteps
  PROVE  Spec => []JournalAgreesInSQLite
<1> DEFINE Inv == CacheInv /\ RecordInv /\ LogBehind /\ JournalCatchesUp
<1>1. Init => JournalCatchesUp
  BY DEF Init, JournalCatchesUp
<1>2. Inv /\ [Next]_<<vars, wiring>> => Inv'
  BY CacheInvInductive, RecordInvInductive, LogBehindInductive, JournalCatchesUpInductive
<1>3. Inv => JournalAgreesInSQLite
  <2> SUFFICES ASSUME Inv, wiring = "sqlite", queue = <<>>, faults = 0, restarts = 0, NEW o \in Oids
               PROVE  journal[o] = allOrders[o] /\ fillLog[o] = allOrders[o].filled
    BY DEF JournalAgreesInSQLite, JournalAgreesAtRest
  <2>1. \A t \in Tasks : tasks[t] = Idle
    <3>1. DOMAIN queue = {}
      OBVIOUS
    <3> QED BY <3>1 DEF CacheInv, VenueInv, TypeOK, CallOK
  <2>2. \A t \in Tasks : ~ Brings(t, o) /\ tasks[t].awaits # "fill"
    <3>1. Idle.awaits = "nothing"
      BY DEF Idle
    <3> QED BY <2>1, <3>1 DEF Brings
  <2>3. journal[o] = allOrders[o]
    BY <2>2 DEF JournalCatchesUp
  <2>4. allOrders[o].filled <= fillLog[o]
    BY <2>2 DEF RecordInv, RowsCovered, NothingLost, Covered
  <2>5. fillLog[o] <= allOrders[o].filled
    BY DEF LogBehind
  <2>6. fillLog[o] \in Nat /\ allOrders[o].filled \in Nat
    BY DEF CacheInv, VenueInv, TypeOK, Order, NoOrder
  <2> QED BY <2>3, <2>4, <2>5, <2>6
<1> HIDE DEF Inv
<1>4. Init => Inv
  BY <1>1, CacheInvInit, RecordInvInit, LogBehindInit DEF Inv
<1> QED BY <1>2, <1>3, <1>4, PTL DEF Spec

-----------------------------------------------------------------------------
(* A closed order stays closed in SQLite. *)

\* Why no row makes a closed order open again: a terminal row still to be
\* written is the order as it is, _on_fill's row is of that order, and the
\* journal is behind a fill that is being recorded and is the newest change.
RowIsFinal(t) ==
  LET task    == tasks[t]
      order   == allOrders[task.oid]
      current == journal[task.oid]
  IN  /\ task.submitted.status \notin Terminal
      /\ Brought(t).status \in Terminal => Brought(t) = order
      /\ task.awaits = "fill_row" =>
           task.row.req = order.req /\ task.row.status = StatusAfter(task.row.filled, order.req)
      /\ Filling(t) /\ Brought(t) = order =>
           current = NoOrder \/ current.updated < order.updated

JournalFinal ==
  wiring = "sqlite" /\ faults = 0 /\ restarts = 0 =>
    /\ \A o \in Oids : journal[o].status \in Terminal => journal[o] = allOrders[o]
    /\ \A o \in Oids : \A s, t \in Tasks : Brings(s, o) /\ Brings(t, o) => s = t
    /\ \A t \in Tasks : tasks[t] # Idle => RowIsFinal(t)

LEMMA SameOrder ==
  \A a, b \in Order :
    a.req = b.req /\ a.status = b.status /\ a.filled = b.filled /\ a.updated = b.updated => a = b
BY DEF Order

\* _on_fill's row of a filled order, when the journal takes it, is the order as
\* the venue has it.
LEMMA FillRowIsFinal ==
  ASSUME CacheInv, RecordInv, faults = 0, wiring = "sqlite",
         NEW t \in Tasks, NEW q, NEW next, Runs(t, q), Moves(t, q, next),
         tasks[t].awaits = "fill_row", RowIsFinal(t), tasks[t].row \in Order,
         tasks[t].row.status \in Terminal,
         journal[tasks[t].oid] # NoOrder =>
           journal[tasks[t].oid].updated <= tasks[t].row.updated
  PROVE  tasks[t].row = allOrders[tasks[t].oid]
<1> DEFINE o      == tasks[t].oid
           order  == allOrders[o]
           row    == tasks[t].row
           update == tasks[t].update
<1>1. /\ Filling(t) /\ tasks[t] # Idle /\ o \in Oids /\ update \in Order /\ order \in Order
      /\ update.filled \in Nat /\ order.filled \in Nat /\ update.updated \in Nat
  <2>1. Filling(t)
    BY DEF Filling
  <2> QED BY <2>1, FillingTypes
<1>2. /\ row.filled \in Nat /\ row.req = order.req /\ order.req.quantity \in Nat
      /\ row.status = StatusAfter(row.filled, order.req) /\ order.updated \in Nat
  BY <1>1, OrderPathAssumption DEF RowIsFinal, Order
<1>3. row.filled >= order.req.quantity /\ row.status = "FILLED"
  BY <1>2 DEF StatusAfter, Terminal
<1>4. /\ update.req = order.req /\ update.filled <= order.filled
      /\ update.status = StatusAfter(update.filled, order.req)
  BY <1>1 DEF CacheInv, FillUnderWay
<1>5. order.filled <= order.req.quantity
  BY <1>1, NotNoOrder DEF CacheInv, VenueInv, NeverOverfilled
<1>6. row.updated = update.updated
      /\ (order.status = "CANCELLED" => update.updated < order.updated)
  BY <1>1 DEF RecordInv, Stamped
<1>7. ~ Overtaken(t)
  <2> SUFFICES ASSUME Overtaken(t) PROVE FALSE
    OBVIOUS
  <2>1. update.updated < order.updated
    BY <1>6 DEF Overtaken
  <2>2. ~ CancelOnRecord(o)
    <3>1. journal[o] # NoOrder => journal[o].updated \in Nat
      BY <1>1 DEF CacheInv, VenueInv, TypeOK, Order
    <3> QED BY <1>1, <1>2, <1>6, <2>1, <3>1 DEF CancelOnRecord
  <2>3. \A s \in Tasks : ~ Precedes(s, t)
    BY QueueOrder DEF CacheInv, VenueInv
  <2> QED BY <2>2, <2>3 DEF Overtaken
<1>8. row.filled <= update.filled
  BY <1>1, <1>7 DEF RecordInv, RowsCovered, RowCovered, NothingLost
<1>9. update.filled = row.filled /\ update.status = "FILLED"
  BY <1>1, <1>2, <1>3, <1>4, <1>5, <1>8 DEF StatusAfter
<1>10. row = update
  <2>1. /\ row.req = update.req /\ row.status = update.status /\ row.filled = update.filled
        /\ row.updated = update.updated
    BY <1>2, <1>3, <1>4, <1>6, <1>9
  <2> QED BY <1>1, <2>1, SameOrder
<1>11. update = order
  BY <1>1, <1>9 DEF RowIsFinal, Brought, Terminal
<1> QED BY <1>10, <1>11

\* What the row t handed over does to an order of the venue: it is one that is
\* closed for good, or it leaves a closed one alone.
LEMMA RowTaken ==
  ASSUME CacheInv, RecordInv, JournalCatchesUp, JournalFinal,
         wiring = "sqlite", faults = 0, restarts = 0,
         NEW t \in Tasks, NEW q, NEW next, Runs(t, q), Moves(t, q, next),
         Begins(t, next) \/ Resumed(t, next), NEW o \in Oids
  PROVE  /\ journal'[o].status \in Terminal => journal'[o] = allOrders[o]
         /\ journal[o].status \in Terminal => journal'[o] = journal[o]
         /\ \A s \in Tasks \ {t} : Filling(s) /\ Brings(s, o) =>
              journal'[o] = NoOrder \/ journal'[o].updated < allOrders[o].updated
<1>1. /\ journal[o].status \in Terminal => journal[o] = allOrders[o]
      /\ \A s \in Tasks : tasks[s] # Idle => RowIsFinal(s)
      /\ \A s \in Tasks : Brings(s, o) /\ Brings(t, o) => s = t
      /\ tasks[t] # Idle => RowInTime(t)
  BY DEF JournalFinal, JournalCatchesUp
<1>2. \A s \in Tasks : Filling(s) /\ Brings(s, o) =>
        journal[o] = NoOrder \/ journal[o].updated < allOrders[o].updated
  BY <1>1 DEF RowIsFinal, Brings
<1>3. CASE journal' = journal
  BY <1>1, <1>2, <1>3
<1>4. CASE /\ tasks[t] \in InFlight /\ tasks[t].awaits # "fill"
           /\ tasks[t].oid \in Oids /\ tasks[t].row \in Order
           /\ Persist(tasks[t].oid, tasks[t].row)
  <2> DEFINE p     == tasks[t].oid
             row   == tasks[t].row
             order == allOrders[p]
  <2>1. /\ tasks[t] # Idle /\ p \in Oids /\ order \in Order /\ order # NoOrder
        /\ Brought(t) \in Order /\ Brought(t).updated \in Nat /\ order.updated \in Nat
        /\ row \in Order /\ row.updated \in Nat
    <3>1. tasks[t] # Idle
      BY <1>4, InFlightIsNotIdle
    <3> QED BY <1>4, <3>1, BroughtTypes, NotNoOrder DEF Order
  <2>2. /\ Brought(t).updated < order.updated \/ Brought(t) = order
        /\ row.updated = Brought(t).updated
        /\ RowIsFinal(t)
    <3>1. row.updated = Brought(t).updated
      BY DEF RecordInv, Stamped, Brought
    <3> QED BY <1>1, <2>1, <3>1 DEF RowInTime
  <2>3. CASE o # p
    <3>1. journal'[o] = journal[o]
      BY <1>4, <2>3, PersistDoes DEF CacheInv, VenueInv
    <3> QED BY <1>1, <1>2, <3>1
  <2>4. CASE o = p
    <3>1. \/ /\ journal'[o] = row
             /\ journal[o] # NoOrder => journal[o].updated <= row.updated
          \/ journal'[o] = journal[o]
      BY <1>4, <2>4, PersistDoes DEF CacheInv, VenueInv
    <3>2. CASE journal'[o] = journal[o]
      BY <1>1, <1>2, <3>2
    <3>3. CASE /\ journal'[o] = row
               /\ journal[o] # NoOrder => journal[o].updated <= row.updated
      <4>1. row.status \in Terminal => row = order
        <5>1. CASE ~ Filling(t)
          BY <2>2, <5>1 DEF RowIsFinal, Brought
        <5>2. ASSUME Filling(t), row.status \in Terminal PROVE row = order
          <6>1. tasks[t].awaits = "fill_row"
            BY <1>4, <5>2 DEF Filling
          <6> QED BY <1>4, <2>2, <2>4, <3>3, <5>2, <6>1, FillRowIsFinal
        <5> QED BY <5>1, <5>2
      <4>2. journal[o].status \in Terminal => row = journal[o]
        <5> SUFFICES ASSUME journal[o].status \in Terminal PROVE row = journal[o]
          OBVIOUS
        <5>1. journal[o] = order /\ journal[o] # NoOrder
          BY <1>1, <2>1, <2>4
        <5>2. Brought(t) = order
          BY <2>1, <2>2, <3>3, <5>1
        <5>3. ~ Filling(t)
          BY <2>1, <2>2, <2>4, <5>1, <5>2 DEF RowIsFinal
        <5> QED BY <5>1, <5>2, <5>3 DEF Brought
      <4>3. ASSUME NEW s \in Tasks \ {t}, Filling(s), Brings(s, o)
            PROVE  row.updated < order.updated
        <5>1. Brought(t) # order
          BY <1>1, <2>1, <2>4, <4>3 DEF Brings
        <5> QED BY <2>2, <5>1
      <4> QED BY <2>4, <3>3, <4>1, <4>2, <4>3
    <3> QED BY <3>1, <3>2, <3>3
  <2> QED BY <2>3, <2>4
<1> QED BY <1>3, <1>4, JournalTakes

\* A closed order is not changed, and no order changes what was asked.
LEMMA ClosedStaysClosed ==
  ASSUME CacheInv, NEW t \in Tasks, NEW next, Begins(t, next) \/ Resumed(t, next), NEW o \in Oids
  PROVE  /\ allOrders[o].status \in Terminal => allOrders'[o] = allOrders[o]
         /\ allOrders[o] # NoOrder => allOrders'[o].req = allOrders[o].req
<1>1. /\ allOrders \in [Oids -> Order \cup {NoOrder}]
      /\ NoOrder.status \notin Terminal
      /\ \A p \in openOrders : allOrders[p].status \notin Terminal
  BY DEF CacheInv, VenueInv, TypeOK, OpenIffWorking, NoOrder, Terminal
<1>2. CASE Placing(next)
  <2>1. PICK acked \in Order : allOrders' = [allOrders EXCEPT ![nextOid + 1] = acked]
    BY <1>2 DEF Placing
  <2>2. allOrders[nextOid + 1] = NoOrder
    BY <1>2 DEF Placing
  <2> QED BY <1>1, <2>1, <2>2
<1>3. ASSUME NEW p \in Oids, NEW n \in Nat, Fills(p, n, next)
      PROVE  /\ allOrders[o].status \in Terminal => allOrders'[o] = allOrders[o]
             /\ allOrders'[o].req = allOrders[o].req
  <2>1. p \in openOrders /\ \E updated \in Order :
          updated.req = allOrders[p].req /\ allOrders' = [allOrders EXCEPT ![p] = updated]
    BY <1>3 DEF Fills
  <2> QED BY <1>1, <2>1
<1>4. ASSUME NEW p \in Oids, NEW rest, Cancels(p, rest, next)
      PROVE  /\ allOrders[o].status \in Terminal => allOrders'[o] = allOrders[o]
             /\ allOrders'[o].req = allOrders[o].req
  <2>1. p \in openOrders /\ \E cancelled \in Order :
          cancelled.req = allOrders[p].req /\ allOrders' = [allOrders EXCEPT ![p] = cancelled]
    BY <1>4 DEF Cancels, First
  <2> QED BY <1>1, <2>1
<1> QED BY <1>2, <1>3, <1>4, OrdersMoveBy DEF OrdersMove

\* What t is to write next, while the venue's orders stay as they are.
LEMMA SameOrdersRow ==
  ASSUME CacheInv, NEW t \in Tasks, NEW q, NEW next, Moves(t, q, next),
         Begins(t, next) \/ Resumed(t, next),
         tasks[t] # Idle => RowInTime(t) /\ RowIsFinal(t)
  PROVE  \/ Placing(next) /\ tasks[t] = Idle
         \/ \E o \in Oids, n \in Nat : Fills(o, n, next)
         \/ \E o \in Oids, rest \in SUBSET Oids : Cancels(o, rest, next)
         \/ /\ allOrders' = allOrders
            /\ \/ next = Idle
               \/ /\ RowIsFinal(t)' /\ tasks[t] # Idle /\ next.oid = tasks[t].oid
                  /\ \/ Brought(t)' = Brought(t)
                     \/ Brought(t)' # allOrders[next.oid]
<1>1. tasks'[t] = next
  BY MovesTo
<1>2. CASE Begins(t, next)
  BY <1>2 DEF Begins, MayStart, Quiet
<1>3. CASE Resumed(t, next)
  <2>1. /\ tasks[t] \in InFlight /\ tasks[t] # Idle /\ tasks[t].rest \in SUBSET Oids
        /\ RowInTime(t) /\ RowIsFinal(t) /\ tasks[t].oid \in Oids
        /\ allOrders[tasks[t].oid] \in Order
    BY <1>3, InFlightIsNotIdle, BroughtTypes DEF Resumed, InFlight
  <2>2. CASE /\ tasks[t].awaits \in {"ack", "update"} /\ Quiet /\ SameCall(tasks[t], next)
             /\ next.call = "submit" /\ next.awaits = "submitted"
             /\ next.row = tasks[t].submitted /\ next.oid = tasks[t].oid
    <3>1. Brought(t)' = tasks[t].submitted /\ allOrders' = allOrders /\ ~ Filling(t)'
      BY <1>1, <2>2 DEF Brought, Filling, Quiet
    <3>2. /\ tasks[t].submitted.updated < allOrders[tasks[t].oid].updated
          /\ tasks[t].submitted.updated \in Nat
      BY <2>1, <2>2, BroughtTypes DEF RowInTime, SameCall
    <3>3. Brought(t)' # allOrders[next.oid]
      <4>1. allOrders[tasks[t].oid].updated \in Nat
        BY <2>1 DEF Order
      <4> QED BY <2>2, <3>1, <3>2, <4>1
    <3>4. tasks[t].submitted.status \notin Terminal
      BY <2>1 DEF RowIsFinal
    <3>5. RowIsFinal(t)'
      BY <1>1, <2>2, <3>1, <3>4 DEF RowIsFinal, SameCall
    <3> QED BY <2>1, <2>2, <3>1, <3>3, <3>5
  <2>3. CASE Counts(t, next)
    <3>1. /\ allOrders' = allOrders /\ next.oid = tasks[t].oid /\ next.update = tasks[t].update
          /\ next.submitted = tasks[t].submitted /\ journal' = journal
          /\ tasks[t].awaits = "fill" /\ next.awaits = "fill_row"
          /\ next.row.status = StatusAfter(next.row.filled, next.row.req)
          /\ next.row.req = cache[tasks[t].oid].req
      BY <2>3 DEF Counts, SameFill, SameCall
    <3>2. Filling(t) /\ Filling(t)' /\ Brought(t)' = Brought(t)
      BY <1>1, <3>1 DEF Filling, Brought
    <3>3. next.row.req = allOrders[tasks[t].oid].req
      BY <2>1, <3>1, NotNoOrder DEF CacheInv, CacheBehind
    <3>4. RowIsFinal(t)'
      BY <1>1, <2>1, <3>1, <3>2, <3>3 DEF RowIsFinal
    <3> QED BY <2>1, <3>1, <3>2, <3>4
  <2>4. CASE Updates(t, next)
    <3>1. /\ allOrders' = allOrders /\ next.oid = tasks[t].oid /\ next.row = tasks[t].update
          /\ next.submitted = tasks[t].submitted
          /\ tasks[t].awaits = "fill_row" /\ next.awaits = "update"
      BY <2>4 DEF Updates, SameFill, SameCall
    <3>2. Filling(t) /\ ~ Filling(t)' /\ Brought(t)' = Brought(t)
      BY <1>1, <3>1 DEF Filling, Brought
    <3>3. RowIsFinal(t)'
      BY <1>1, <2>1, <3>1, <3>2 DEF RowIsFinal
    <3> QED BY <2>1, <3>1, <3>2, <3>3
  <2>5. CASE Quiet /\ next = Idle
    BY <2>5 DEF Quiet
  <2>6. CASE \E o \in tasks[t].rest, n \in Nat : Fills(o, n, next)
    BY <2>1, <2>6
  <2>7. CASE \E o \in Oids : Cancels(o, tasks[t].rest, next)
    BY <2>1, <2>7
  <2> QED BY <1>3, <2>2, <2>3, <2>4, <2>5, <2>6, <2>7 DEF Resumed, GoesOn, CancelsOn, Ends
<1> QED BY <1>2, <1>3

\* A call's SUBMITTED row is not a terminal one.
LEMMA NextCall ==
  ASSUME CacheInv, NEW t \in Tasks, NEW next, Begins(t, next) \/ Resumed(t, next),
         tasks[t] # Idle => tasks[t].submitted.status \notin Terminal, next # Idle
  PROVE  next.submitted.status \notin Terminal
<1>1. NoOrder.status \notin Terminal /\ "SUBMITTED" \notin Terminal
  BY DEF NoOrder, Terminal
<1>2. CASE Begins(t, next)
  BY <1>1, <1>2 DEF Begins, Placing
<1>3. CASE Resumed(t, next)
  <2>1. next.submitted = tasks[t].submitted
    BY <1>3 DEF Resumed, GoesOn, CancelsOn, Ends, Counts, Updates, SameFill, SameCall
  <2> QED BY <1>3, <2>1, InFlightIsNotIdle DEF Resumed
<1> QED BY <1>2, <1>3

\* A new state of an order comes from the call that made it, and the journal
\* had none of its closed states before.
LEMMA JournalFinalStays ==
  ASSUME CacheInv, VenueInv', RecordInv, Stamped, 0 \notin ClockSteps, JournalCatchesUp,
         JournalFinal, NEW t \in Tasks, NEW q, NEW next, Runs(t, q), Moves(t, q, next),
         Begins(t, next) \/ Resumed(t, next), UNCHANGED <<faults, restarts>>, UNCHANGED wiring
  PROVE  JournalFinal'
<1> SUFFICES ASSUME wiring = "sqlite", faults = 0, restarts = 0
             PROVE  JournalFinal'
  BY DEF JournalFinal
<1>1. /\ tasks'[t] = next /\ \A s \in Tasks \ {t} : tasks'[s] = tasks[s]
      /\ \A s \in Tasks \ {t} : Brought(s)' = Brought(s) /\ Filling(s)' = Filling(s)
  BY MovesTo DEF Brought, Filling
<1>2. /\ \A s \in Tasks : tasks[s] # Idle => RowInTime(s) /\ RowIsFinal(s)
      /\ \A o \in Oids, r, s \in Tasks : Brings(r, o) /\ Brings(s, o) => r = s
  BY DEF JournalCatchesUp, JournalFinal
<1>3. \A o \in Oids :
        /\ journal'[o].status \in Terminal => journal'[o] = allOrders[o]
        /\ \A s \in Tasks \ {t} : Filling(s) /\ Brings(s, o) =>
             journal'[o] = NoOrder \/ journal'[o].updated < allOrders[o].updated
  BY RowTaken
<1>4. CASE /\ allOrders' = allOrders
           /\ \/ next = Idle
              \/ /\ RowIsFinal(t)' /\ tasks[t] # Idle /\ next.oid = tasks[t].oid
                 /\ \/ Brought(t)' = Brought(t)
                    \/ Brought(t)' # allOrders[next.oid]
  <2>1. ASSUME NEW s \in Tasks, NEW o \in Oids, Brings(s, o)' PROVE Brings(s, o)
    BY <1>1, <1>4, <2>1 DEF Brings
  <2>2. ASSUME NEW s \in Tasks, tasks'[s] # Idle PROVE RowIsFinal(s)'
    <3>1. CASE s = t
      BY <1>1, <1>4, <2>2, <3>1
    <3>2. CASE s # t
      <4>1. /\ tasks'[s] = tasks[s] /\ tasks[s] # Idle /\ RowIsFinal(s) /\ tasks[s].oid \in Oids
            /\ Brought(s)' = Brought(s) /\ Filling(s)' = Filling(s)
        BY <1>1, <1>2, <2>2, <3>2, BroughtTypes
      <4>2. Filling(s) /\ Brought(s) = allOrders[tasks[s].oid] =>
              \/ journal'[tasks[s].oid] = NoOrder
              \/ journal'[tasks[s].oid].updated < allOrders[tasks[s].oid].updated
        BY <1>3, <3>2, <4>1 DEF Brings
      <4> QED BY <1>4, <4>1, <4>2 DEF RowIsFinal
    <3> QED BY <3>1, <3>2
  <2> QED BY <1>2, <1>3, <1>4, <2>1, <2>2 DEF JournalFinal
<1>5. CASE \/ Placing(next) /\ tasks[t] = Idle
           \/ \E o \in Oids, n \in Nat : Fills(o, n, next)
           \/ \E o \in Oids, rest \in SUBSET Oids : Cancels(o, rest, next)
  <2>1. PICK o \in Oids, order \in Order :
          /\ Changed(o, order) /\ next # Idle /\ next.oid = o /\ Brought(t)' = order
    BY <1>2, <1>5, NewOrderBrought DEF BringsNew
  <2>2. /\ allOrders'[o] = order /\ order # NoOrder /\ order.updated \in Nat
        /\ \A p \in Oids \ {o} : allOrders'[p] = allOrders[p]
        /\ allOrders[o] # NoOrder =>
             allOrders[o].updated < order.updated /\ allOrders[o].updated \in Nat
    BY <2>1, NotNoOrder DEF Changed, Stamped
  <2>3. /\ allOrders[o].status \notin Terminal
        /\ allOrders[o] # NoOrder => order.req = allOrders[o].req
    <3>1. order # allOrders[o]
      BY <2>2
    <3> QED BY <2>2, <3>1, ClosedStaysClosed
  <2>4. journal'[o].status \notin Terminal
    BY <1>3, <2>3
  <2>5. journal'[o] = NoOrder \/ journal'[o].updated < order.updated
    <3>1. journal'[o] # NoOrder => journal'[o].updated \in Nat
      BY DEF VenueInv, TypeOK, Order
    <3>2. /\ allOrders[o] = NoOrder => journal'[o] = NoOrder
          /\ journal'[o] # NoOrder => journal'[o].updated <= allOrders[o].updated
      BY JournalKeepsUp
    <3> QED BY <2>2, <3>1, <3>2
  <2>6. ASSUME NEW s \in Tasks \ {t}, tasks[s] # Idle, tasks[s].oid = o
        PROVE  /\ Brought(s).updated < order.updated /\ Brought(s) # order
               /\ Brought(s).status \notin Terminal /\ allOrders[o] # NoOrder
    <3>1. /\ allOrders[o] # NoOrder /\ Brought(s).updated \in Nat
          /\ RowInTime(s) /\ RowIsFinal(s)
      BY <1>2, <2>6, BroughtTypes, NotNoOrder
    <3>2. Brought(s).updated <= allOrders[o].updated
      BY <2>2, <2>6, <3>1 DEF RowInTime
    <3>3. Brought(s).status \notin Terminal
      BY <2>3, <2>6, <3>1 DEF RowIsFinal
    <3> QED BY <2>2, <3>1, <3>2, <3>3
  <2>7. RowIsFinal(t)'
    <3>1. next.awaits # "fill_row"
      BY <1>5 DEF Placing, Fills, Cancels
    <3>2. next.submitted.status \notin Terminal
      BY <1>2, <2>1, NextCall DEF RowIsFinal
    <3> QED BY <1>1, <2>1, <2>2, <2>5, <3>1, <3>2 DEF RowIsFinal
  <2>8. ASSUME NEW s \in Tasks \ {t}, tasks[s] # Idle PROVE RowIsFinal(s)'
    <3> DEFINE p == tasks[s].oid
    <3>1. /\ tasks'[s] = tasks[s] /\ RowIsFinal(s) /\ p \in Oids
          /\ Brought(s)' = Brought(s) /\ Filling(s)' = Filling(s)
      BY <1>1, <1>2, <2>8, BroughtTypes
    <3>2. CASE p # o
      <4>1. allOrders'[p] = allOrders[p]
        BY <2>2, <3>1, <3>2
      <4>2. Filling(s) /\ Brought(s) = allOrders[p] =>
              journal'[p] = NoOrder \/ journal'[p].updated < allOrders[p].updated
        BY <1>3, <2>8, <3>1 DEF Brings
      <4> QED BY <3>1, <4>1, <4>2 DEF RowIsFinal
    <3>3. CASE p = o
      <4>1. /\ Brought(s).updated < order.updated /\ Brought(s) # order
            /\ Brought(s).status \notin Terminal /\ order.req = allOrders[o].req
        BY <2>3, <2>6, <2>8, <3>3
      <4> QED BY <2>2, <3>1, <3>3, <4>1 DEF RowIsFinal
    <3> QED BY <3>2, <3>3
  <2>9. ASSUME NEW p \in Oids PROVE journal'[p].status \in Terminal => journal'[p] = allOrders'[p]
    BY <1>3, <2>2, <2>4
  <2>10. ASSUME NEW s \in Tasks, NEW p \in Oids, Brings(s, p)'
         PROVE  (p = o /\ s = t) \/ (p # o /\ s # t /\ Brings(s, p))
    <3>1. CASE s = t
      BY <1>1, <2>1, <2>10, <3>1 DEF Brings
    <3>2. CASE s # t
      <4>1. tasks[s] # Idle /\ tasks[s].oid = p /\ Brought(s) = allOrders'[p]
        BY <1>1, <2>10, <3>2 DEF Brings
      <4>2. p # o
        BY <2>2, <2>6, <3>2, <4>1
      <4> QED BY <2>2, <3>2, <4>1, <4>2 DEF Brings
    <3> QED BY <3>1, <3>2
  <2> QED BY <1>1, <1>2, <2>7, <2>8, <2>9, <2>10 DEF JournalFinal
<1> QED BY <1>2, <1>4, <1>5, SameOrdersRow

LEMMA JournalFinalInductive ==
  ASSUME CacheInv, RecordInv, 0 \notin ClockSteps, JournalCatchesUp, JournalFinal,
         [Next]_<<vars, wiring>>
  PROVE  JournalFinal'
<1>1. TypeOK /\ VenueInv'
  BY VenueInvInductive DEF CacheInv, VenueInv
<1>2. CASE UNCHANGED <<vars, wiring>>
  BY <1>2 DEF vars, venueVars, JournalFinal, RowIsFinal, Brings, Brought, Filling
<1>3. CASE Restart
  BY <1>1, <1>3, FaultsCounted DEF JournalFinal
<1>4. ASSUME NEW t \in Tasks, WriteRaises(t) PROVE JournalFinal'
  BY <1>1, <1>4, FaultsCounted DEF JournalFinal
<1>5. ASSUME NEW t \in Tasks, Step(t) PROVE JournalFinal'
  BY <1>1, <1>4, <1>5, StepDoes, JournalFinalStays DEF RecordInv
<1> QED BY <1>2, <1>3, <1>5 DEF Next

\* In SQLite an order once terminal is never opened again by a row written
\* later, whatever the calls write and in whatever order: with a clock that
\* tells two of its readings apart, until a write raises or the process dies.
THEOREM SQLiteTerminalStays ==
  ASSUME 0 \notin ClockSteps
  PROVE  Spec => SQLiteTerminalIsFinal
<1> DEFINE Inv == CacheInv /\ RecordInv /\ LogBehind /\ JournalCatchesUp /\ JournalFinal
<1>1. Init => JournalFinal
  BY DEF Init, JournalFinal, NoOrder, Terminal, Brings
<1>2. Inv /\ [Next]_<<vars, wiring>> => Inv'
  BY CacheInvInductive, RecordInvInductive, LogBehindInductive, JournalCatchesUpInductive,
     JournalFinalInductive
<1>3. Inv /\ [Next]_<<vars, wiring>> =>
        [wiring = "sqlite" /\ faults = 0 /\ restarts = 0 => \A o \in Oids :
           journal[o].status \in Terminal => journal'[o] = journal[o]]_vars
  <2> SUFFICES ASSUME Inv, [Next]_<<vars, wiring>>, wiring = "sqlite", faults = 0, restarts = 0,
                      NEW o \in Oids, journal[o].status \in Terminal, vars' # vars
               PROVE  journal'[o] = journal[o]
    OBVIOUS
  <2>1. CASE Restart
    BY <2>1 DEF Restart
  <2>2. ASSUME NEW t \in Tasks, Step(t) PROVE journal'[o] = journal[o]
    <3>1. CASE WriteRaises(t)
      BY <3>1 DEF WriteRaises
    <3> QED BY <2>2, <3>1, StepDoes, RowTaken
  <2> QED BY <2>1, <2>2 DEF Next
<1> HIDE DEF Inv
<1>4. Init => Inv
  BY <1>1, CacheInvInit, RecordInvInit, LogBehindInit DEF Inv, Init, JournalCatchesUp
<1> QED BY <1>2, <1>3, <1>4, PTL DEF Spec, SQLiteTerminalIsFinal

-----------------------------------------------------------------------------
(* The cache follows the order life cycle. *)

CacheOrders == INSTANCE OrderLifecycle WITH orders <- CacheView

\* A fill being recorded with the in-memory journal is counted from what the
\* cache has, and once counted the cache has what the venue's update will say.
CountedOnce(t) ==
  LET task   == tasks[t]
      cached == cache[task.oid]
  IN  /\ task.awaits = "fill" =>
           /\ task.qty # 0 /\ cached.filled + task.qty = task.update.filled
           /\ cached.status \in {"ACKED", "PARTIALLY_FILLED"}
      /\ task.awaits = "fill_row" => View(cached) = View(task.update)

FillsCountedOnce == wiring = "memory" => \A t \in Tasks : Filling(t) => CountedOnce(t)

\* What the one call that runs does to the cache.
LEMMA MemoryCallDoes ==
  ASSUME CacheInv, Alone, CacheCatchesUp, wiring = "memory",
         NEW t \in Tasks, NEW q, NEW next, Runs(t, q), Moves(t, q, next),
         Begins(t, next) \/ Resumed(t, next)
  PROVE  \/ Placing(next) /\ cache[nextOid + 1] = NoOrder
         \/ \E o \in Oids, n \in Nat : Fills(o, n, next) /\ cache[o] = allOrders[o]
         \/ \E o \in Oids, rest \in SUBSET Oids :
              Cancels(o, rest, next) /\ cache[o] = allOrders[o]
         \/ Filling(t) /\ tasks[t].awaits = "fill" /\ Counts(t, next)
         \/ Filling(t) /\ tasks[t].awaits = "fill_row" /\ Updates(t, next)
         \/ cache' = cache /\ next.awaits \notin {"fill", "fill_row"}
<1>1. ~ Filling(t) => \A o \in Oids : cache[o] = allOrders[o]
  <2>1. \A s \in Tasks \ {t} : ~ Filling(s)
    BY AloneRuns DEF CacheInv, VenueInv, Filling, Idle
  <2> QED BY <2>1 DEF CacheCatchesUp
<1>2. CASE Begins(t, next)
  <2>1. ~ Filling(t)
    BY <1>2 DEF Begins, MayStart, Filling, Idle
  <2>2. Placing(next) => cache[nextOid + 1] = NoOrder
    BY <1>1, <2>1 DEF Placing
  <2> QED BY <1>1, <1>2, <2>1, <2>2 DEF Begins, Quiet, Idle
<1>3. CASE GoesOn(t, next)
  <2>1. ~ Filling(t)
    BY <1>3 DEF GoesOn, Filling
  <2>2. \A o, n : Fills(o, n, next) => o \in Oids
    BY DEF Fills
  <2> QED BY <1>1, <1>3, <2>1, <2>2 DEF GoesOn, Quiet, Idle
<1>4. CASE CancelsOn(t, next) /\ Resumed(t, next)
  <2>1. ~ Filling(t) /\ tasks[t].rest \in SUBSET Oids
    BY <1>4 DEF CancelsOn, Filling, Resumed, InFlight
  <2> QED BY <1>1, <1>4, <2>1 DEF CancelsOn, Quiet, Idle
<1>5. CASE Ends(t, next)
  BY <1>5 DEF Ends, Quiet, Idle
<1>6. CASE Counts(t, next) \/ Updates(t, next)
  BY <1>6 DEF Counts, Updates, Filling
<1> QED BY <1>2, <1>3, <1>4, <1>5, <1>6 DEF Resumed

LEMMA FillsStayCountedOnce ==
  ASSUME CacheInv, Alone, CacheCatchesUp, FillsCountedOnce,
         NEW t \in Tasks, NEW q, NEW next, Runs(t, q), Moves(t, q, next),
         Begins(t, next) \/ Resumed(t, next), UNCHANGED wiring
  PROVE  FillsCountedOnce'
<1> SUFFICES ASSUME wiring = "memory" PROVE \A s \in Tasks : Filling(s)' => CountedOnce(s)'
  BY DEF FillsCountedOnce
<1> SUFFICES ASSUME Filling(t)' PROVE CountedOnce(t)'
  <2>1. \A s \in Tasks \ {t} : ~ Filling(s)'
    BY MovesTo, AloneRuns DEF CacheInv, VenueInv, Filling, Idle
  <2> QED BY <2>1
<1>1. tasks'[t] = next /\ next.awaits \in {"fill", "fill_row"}
  BY MovesTo DEF Filling
<1>2. ASSUME NEW o \in Oids, NEW n \in Nat, Fills(o, n, next), cache[o] = allOrders[o]
      PROVE  CountedOnce(t)'
  <2>1. /\ next.awaits = "fill" /\ next.oid = o /\ next.qty = n /\ n # 0 /\ cache' = cache
        /\ o \in openOrders /\ next.update.filled = allOrders[o].filled + n
    BY <1>2 DEF Fills
  <2>2. allOrders[o].status \in {"ACKED", "PARTIALLY_FILLED"}
    BY <2>1 DEF CacheInv, VenueInv, OpenIffWorking
  <2> QED BY <1>1, <1>2, <2>1, <2>2 DEF CountedOnce
<1>3. ASSUME Filling(t), tasks[t].awaits = "fill", Counts(t, next) PROVE CountedOnce(t)'
  <2> DEFINE o == tasks[t].oid
  <2>1. /\ next.awaits = "fill_row" /\ next.oid = o /\ next.update = tasks[t].update
        /\ next.qty = tasks[t].qty
        /\ next.row.req = cache[o].req /\ next.row.filled = cache[o].filled + next.qty
        /\ next.row.status = StatusAfter(next.row.filled, next.row.req) /\ next.row \in Order
        /\ cache' = [cache EXCEPT ![o] = next.row]
    BY <1>3 DEF Counts, SameFill
  <2>2. o \in Oids /\ allOrders[o] # NoOrder /\ tasks[t].update \in Order
    BY <1>3, FillingTypes, NotNoOrder
  <2>3. cache'[o] = next.row
    BY <2>1, <2>2 DEF CacheInv, VenueInv, TypeOK
  <2>4. cache[o].filled + tasks[t].qty = tasks[t].update.filled
    BY <1>3 DEF FillsCountedOnce, CountedOnce
  <2>5. /\ tasks[t].update.req = cache[o].req
        /\ tasks[t].update.status = StatusAfter(tasks[t].update.filled, tasks[t].update.req)
    BY <1>3, <2>2 DEF CacheInv, FillUnderWay, CacheBehind
  <2>6. View(next.row) = View(next.update)
    BY <2>1, <2>2, <2>4, <2>5, ViewOfOrder
  <2> QED BY <1>1, <2>1, <2>3, <2>6 DEF CountedOnce
<1>4. ~ Placing(next) /\ ~ Updates(t, next) /\ \A o, rest : ~ Cancels(o, rest, next)
  BY <1>1 DEF Placing, Updates, Cancels
<1> QED BY <1>1, <1>2, <1>3, <1>4, MemoryCallDoes

\* Every step of the one call is, in the cache, a step of the order life cycle
\* or none at all.
LEMMA MemoryCallRefines ==
  ASSUME CacheInv, Alone, CacheCatchesUp, FillsCountedOnce, wiring = "memory",
         NEW t \in Tasks, NEW q, NEW next, Runs(t, q), Moves(t, q, next),
         Begins(t, next) \/ Resumed(t, next)
  PROVE  \/ CacheView' = CacheView
         \/ \E o \in Oids : \/ CacheOrders!Accept(o)
                            \/ CacheOrders!Fill(o)
                            \/ CacheOrders!Cancel(o)
<1> USE DEF CacheView
<1>1. /\ cache \in [Oids -> Order \cup {NoOrder}]
      /\ \A o \in Oids, order \in Order : cache' = [cache EXCEPT ![o] = order] =>
           CacheView' = [CacheView EXCEPT ![o] = View(order)]
  BY DEF CacheInv, VenueInv, TypeOK
<1>2. CASE Placing(next) /\ cache[nextOid + 1] = NoOrder
  <2> DEFINE o == nextOid + 1
  <2>1. PICK acked \in Order :
          /\ acked.status \in {"ACKED", "REJECTED"} /\ acked.filled = 0
          /\ cache' = [cache EXCEPT ![o] = acked]
    BY <1>2 DEF Placing
  <2>2. o \in Oids
    BY <1>2 DEF Placing
  <2>3. acked.req.quantity \in Quantities
    BY DEF Order, Quantities
  <2>4. View(acked) = [status |-> acked.status, filled |-> 0, quantity |-> acked.req.quantity]
    BY <2>1, ViewOfOrder
  <2>5. CacheView[o] = CacheOrders!Absent
    BY <1>2, <2>2 DEF View, CacheOrders!Absent
  <2>6. CacheView' = [CacheView EXCEPT ![o] = View(acked)]
    BY <1>1, <2>1, <2>2
  <2>7. CacheOrders!Accept(o)
    BY <2>1, <2>3, <2>4, <2>5, <2>6 DEF CacheOrders!Accept
  <2> QED BY <2>2, <2>7
<1>3. ASSUME NEW o \in Oids, NEW n \in Nat, Fills(o, n, next)
      PROVE  CacheView' = CacheView
  BY <1>3 DEF Fills
<1>4. ASSUME NEW o \in Oids, NEW rest, Cancels(o, rest, next), cache[o] = allOrders[o]
      PROVE  CacheOrders!Cancel(o)
  <2>1. o \in openOrders
    BY <1>4 DEF Cancels, First
  <2>2. PICK cancelled \in Order :
          /\ cancelled.req = cache[o].req /\ cancelled.filled = cache[o].filled
          /\ cancelled.status = "CANCELLED" /\ cache' = [cache EXCEPT ![o] = cancelled]
    BY <1>4 DEF Cancels
  <2>3. cache[o] \in Order /\ cache[o].status \in CacheOrders!Working
    BY <1>4, <2>1, OpenIsNotFull DEF CacheInv, VenueInv, OpenIffWorking, CacheOrders!Working
  <2>4. View(cancelled) = [View(cache[o]) EXCEPT !.status = "CANCELLED"]
    BY <2>2, <2>3, ViewOfOrder
  <2>5. CacheView[o].status \in CacheOrders!Working
    BY <2>3, ViewOfOrder
  <2>6. CacheView' = [CacheView EXCEPT ![o] = [@ EXCEPT !.status = "CANCELLED"]]
    BY <1>1, <2>2, <2>4
  <2> QED BY <2>5, <2>6 DEF CacheOrders!Cancel
<1>5. ASSUME Filling(t), tasks[t].awaits = "fill", Counts(t, next)
      PROVE  tasks[t].oid \in Oids /\ CacheOrders!Fill(tasks[t].oid)
  <2> DEFINE o     == tasks[t].oid
             total == cache[o].filled + tasks[t].qty
             quantity == cache[o].req.quantity
  <2>1. /\ next.row.req = cache[o].req /\ next.row.filled = total
        /\ next.row.status = StatusAfter(total, cache[o].req) /\ next.row \in Order
        /\ cache' = [cache EXCEPT ![o] = next.row]
    BY <1>5 DEF Counts, SameFill
  <2>2. /\ o \in Oids /\ allOrders[o] # NoOrder /\ cache[o] \in Order
        /\ tasks[t].qty \in Nat /\ cache[o].filled \in Nat
    BY <1>5, FillingTypes, NotNoOrder
  <2>3. /\ total = tasks[t].update.filled /\ tasks[t].qty # 0
        /\ cache[o].status \in CacheOrders!Working
    BY <1>5 DEF FillsCountedOnce, CountedOnce, CacheOrders!Working
  <2>4. total <= quantity
    <3>1. tasks[t].update = allOrders[o] /\ cache[o].req = allOrders[o].req
      BY <1>5, <2>2 DEF CacheCatchesUp, CacheInv, CacheBehind
    <3>2. allOrders[o].filled <= allOrders[o].req.quantity
      BY <2>2 DEF CacheInv, VenueInv, NeverOverfilled
    <3> QED BY <2>3, <3>1, <3>2
  <2>5. quantity \in Nat
    BY <2>2, OrderPathAssumption DEF Order
  <2>6. StatusAfter(total, cache[o].req) =
          IF total = quantity THEN "FILLED" ELSE "PARTIALLY_FILLED"
    BY <2>2, <2>4, <2>5 DEF StatusAfter
  <2>7. CacheView[o].status = cache[o].status /\ CacheView[o].filled = cache[o].filled
        /\ CacheView[o].quantity = quantity
    BY <2>2, ViewOfOrder
  <2>8. View(next.row) =
          [status   |-> IF CacheView[o].filled + tasks[t].qty = CacheView[o].quantity
                        THEN "FILLED" ELSE "PARTIALLY_FILLED",
           filled   |-> CacheView[o].filled + tasks[t].qty,
           quantity |-> CacheView[o].quantity]
    BY <2>1, <2>6, <2>7, ViewOfOrder
  <2>9. CacheView' =
          [CacheView EXCEPT ![o] =
             [status   |-> IF CacheView[o].filled + tasks[t].qty = CacheView[o].quantity
                           THEN "FILLED" ELSE "PARTIALLY_FILLED",
              filled   |-> CacheView[o].filled + tasks[t].qty,
              quantity |-> CacheView[o].quantity]]
    BY <1>1, <2>1, <2>2, <2>8
  <2>10. tasks[t].qty \in 1 .. (CacheView[o].quantity - CacheView[o].filled)
    BY <2>2, <2>3, <2>4, <2>5, <2>7
  <2>11. CacheView[o].status \in CacheOrders!Working
    BY <2>3, <2>7
  <2> HIDE DEF CacheView
  <2> QED BY <2>2, <2>9, <2>10, <2>11 DEF CacheOrders!Fill
<1>6. ASSUME Filling(t), tasks[t].awaits = "fill_row", Updates(t, next)
      PROVE  CacheView' = CacheView
  <2>1. /\ tasks[t].oid \in Oids /\ tasks[t].update \in Order
        /\ next.oid = tasks[t].oid /\ next.update = tasks[t].update
        /\ cache' = [cache EXCEPT ![next.oid] = next.update]
    BY <1>6, FillingTypes DEF Updates, SameFill
  <2>2. View(cache[tasks[t].oid]) = View(tasks[t].update)
    BY <1>6 DEF FillsCountedOnce, CountedOnce
  <2> QED BY <1>1, <2>1, <2>2
<1> QED BY <1>2, <1>3, <1>4, <1>5, <1>6, MemoryCallDoes

LEMMA FillsCountedOnceInductive ==
  ASSUME CacheInv, Alone, CacheCatchesUp, FillsCountedOnce, [Next]_<<vars, wiring>>
  PROVE  FillsCountedOnce'
<1>1. CASE UNCHANGED <<vars, wiring>>
  BY <1>1 DEF vars, FillsCountedOnce, CountedOnce, Filling, View
<1>2. Restart \/ (\E t \in Tasks : WriteRaises(t) /\ UNCHANGED wiring) => FillsCountedOnce'
  <2>1. Restart \/ (\E t \in Tasks : WriteRaises(t) /\ UNCHANGED wiring) => wiring' = "sqlite"
    BY DEF Restart, WriteRaises
  <2> QED BY <2>1 DEF FillsCountedOnce
<1>3. ASSUME NEW t \in Tasks, Step(t) PROVE FillsCountedOnce'
  BY <1>2, <1>3, StepDoes, FillsStayCountedOnce
<1> QED BY <1>1, <1>2, <1>3 DEF Next

LEMMA CacheStepRefines ==
  ASSUME CacheInv, Alone, CacheCatchesUp, FillsCountedOnce, [Next]_<<vars, wiring>>
  PROVE  [CachedInMemory!Next]_(IF wiring = "memory" THEN CacheView
                                ELSE [o \in Oids |-> View(NoOrder)])
<1> DEFINE Mapped == IF wiring = "memory" THEN CacheView ELSE [o \in Oids |-> View(NoOrder)]
<1> SUFFICES CachedInMemory!Next \/ Mapped' = Mapped
  OBVIOUS
<1>1. CASE UNCHANGED <<vars, wiring>>
  BY <1>1 DEF vars, CacheView, View
<1>2. CASE Restart
  BY <1>2 DEF Restart
<1>3. ASSUME NEW t \in Tasks, Step(t) PROVE CachedInMemory!Next \/ Mapped' = Mapped
  <2>1. wiring' = wiring
    BY <1>3 DEF Step
  <2>2. CASE wiring # "memory"
    BY <2>1, <2>2
  <2>3. CASE wiring = "memory"
    <3>1. ~ WriteRaises(t)
      BY <2>3 DEF WriteRaises
    <3>2. \/ CacheView' = CacheView
          \/ \E o \in Oids : CacheOrders!Accept(o) \/ CacheOrders!Fill(o) \/ CacheOrders!Cancel(o)
      BY <1>3, <2>3, <3>1, StepDoes, MemoryCallRefines
    <3>3. Mapped = CacheView /\ Mapped' = CacheView'
      BY <2>1, <2>3
    <3>4. ASSUME NEW o \in Oids
          PROVE  /\ CacheOrders!Accept(o) => CachedInMemory!Accept(o)
                 /\ CacheOrders!Fill(o) => CachedInMemory!Fill(o)
                 /\ CacheOrders!Cancel(o) => CachedInMemory!Cancel(o)
      BY <3>3 DEF CacheOrders!Accept, CachedInMemory!Accept, CacheOrders!Absent,
                  CachedInMemory!Absent, CacheOrders!Fill, CachedInMemory!Fill,
                  CacheOrders!Cancel, CachedInMemory!Cancel, CacheOrders!Working,
                  CachedInMemory!Working
    <3> QED BY <3>2, <3>3, <3>4 DEF CachedInMemory!Next
  <2> QED BY <2>2, <2>3
<1> QED BY <1>1, <1>2, <1>3 DEF Next

\* With the in-memory journal the order manager's cache, fill by fill and
\* update by update, is itself an order life cycle: no fill is counted twice
\* and nothing terminal comes back, whatever is asked of the venue.
THEOREM MemoryCacheImplementsLifecycle == Spec => CacheFollowsInMemory
<1> DEFINE Inv == CacheInv /\ Alone /\ CacheCatchesUp /\ FillsCountedOnce
<1>1. Init => Inv
  <2>1. Init => FillsCountedOnce
    BY DEF Init, FillsCountedOnce, Filling, Idle
  <2> QED BY <2>1, CacheInvInit, MemoryCacheInit
<1>2. Init => CachedInMemory!Init
  BY ViewOfOrder DEF Init, CachedInMemory!Init, CacheView, CachedInMemory!Absent,
                     VenueOrders!Absent
<1>3. Inv /\ [Next]_<<vars, wiring>> => Inv'
  BY CacheInvInductive, MemoryCacheInductive, FillsCountedOnceInductive
<1>4. Inv /\ [Next]_<<vars, wiring>> =>
        [CachedInMemory!Next]_(IF wiring = "memory" THEN CacheView
                               ELSE [o \in Oids |-> View(NoOrder)])
  BY CacheStepRefines
<1> HIDE DEF Inv
<1> QED BY <1>1, <1>2, <1>3, <1>4, PTL
        DEF Spec, CacheFollowsInMemory, CachedInMemory!Spec

=============================================================================
