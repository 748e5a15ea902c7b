--------------------------- MODULE OrderPath_proofs ---------------------------
(***************************************************************************)
(* Proofs about OrderPath, for any number of calls in flight, orders,      *)
(* requests and books, either journal, and any write failures and restarts.*)
(*                                                                         *)
(* The calls touch the venue's orders in four ways only (VenueStep).  What *)
(* a call does is looked at once, in CallsMakeVenueSteps; the venue's      *)
(* invariants and its refinement of OrderLifecycle follow from VenueStep.  *)
(***************************************************************************)
EXTENDS OrderPath, TLAPS

Placed(o, order) ==
  /\ order \in Order /\ order.status \in {"ACKED", "REJECTED"} /\ order.filled = 0
  /\ allOrders[o] = NoOrder
  /\ allOrders' = [allOrders EXCEPT ![o] = order]
  /\ openOrders' = IF order.status = "ACKED" THEN openOrders \cup {o} ELSE openOrders

Filled(o, n, time) ==
  LET order == allOrders[o]
      total == order.filled + n
  IN  /\ o \in openOrders /\ n > 0 /\ total <= order.req.quantity
      /\ allOrders' = [allOrders EXCEPT ![o] =
           [order EXCEPT !.filled = total, !.status = StatusAfter(total, order.req),
                         !.updated = time]]
      /\ openOrders' = IF StatusAfter(total, order.req) = "FILLED"
                       THEN openOrders \ {o} ELSE openOrders

Cancelled(o, time) ==
  /\ o \in openOrders
  /\ allOrders' = [allOrders EXCEPT ![o] = [@ EXCEPT !.status = "CANCELLED", !.updated = time]]
  /\ openOrders' = openOrders \ {o}

Forgotten ==
  /\ allOrders' = [o \in Oids |-> NoOrder]
  /\ openOrders' = {}

VenueStep ==
  \/ UNCHANGED <<allOrders, openOrders>>
  \/ \E o \in Oids, order \in Order : Placed(o, order)
  \/ \E o \in Oids, n, time \in Nat : Filled(o, n, time)
  \/ \E o \in Oids, time \in Nat : Cancelled(o, time)
  \/ Forgotten

VenueInv == TypeOK /\ OpenIffWorking /\ NeverOverfilled

-----------------------------------------------------------------------------

\* What the fill engine returns is between one and what remains of the order.
LEMMA FillQtyBound ==
  ASSUME NEW order \in Order, NEW book \in Books \cup {NoBook},
         FillQty(order, book) > 0
  PROVE  /\ FillQty(order, book) \in Nat
         /\ order.filled + FillQty(order, book) <= order.req.quantity
<1>1. /\ order.req.quantity \in Nat /\ order.filled \in Nat
      /\ order.req.type \in {"MARKET", "LIMIT"}
  BY OrderPathAssumption DEF Order
<1>2. book.ask.depth \in Nat /\ book.bid.depth \in Nat
  BY OrderPathAssumption DEF Level, NoBook
<1> QED BY <1>1, <1>2 DEF FillQty, Smaller

\* A fill changes the venue as Filled says.
LEMMA ApplyFillIsFilled ==
  ASSUME VenueInv, NEW t, NEW task, NEW q, NEW o \in openOrders,
         task.book \in Books \cup {NoBook}, FillQty(allOrders[o], task.book) > 0,
         ApplyFill(t, task, o, q)
  PROVE  /\ \E n, time \in Nat : Filled(o, n, time)
         /\ clock' \in [Oids -> Nat]
<1> DEFINE n == FillQty(allOrders[o], task.book)
<1>1. allOrders[o] \in Order /\ o \in Oids
  BY DEF VenueInv, TypeOK, OpenIffWorking, NoOrder
<1>2. clock' \in [Oids -> Nat]
  BY <1>1, OrderPathAssumption DEF ApplyFill, ReadsClock, VenueInv, TypeOK
<1>3. n \in Nat /\ allOrders[o].filled + n <= allOrders[o].req.quantity
  BY <1>1, FillQtyBound
<1>4. Filled(o, n, clock'[o])
  BY <1>1, <1>3 DEF ApplyFill, Filled, WithoutOrder, StatusAfter, Order
<1> QED BY <1>1, <1>2, <1>3, <1>4

\* What a task about to run TryFills carries: a book.
LEMMA TryFillsIsVenueStep ==
  ASSUME VenueInv, NEW t, NEW task, NEW q, TryFills(t, task, q),
         task.book \in Books \cup {NoBook}
  PROVE  VenueStep /\ clock' \in [Oids -> Nat]
<1>1. CASE \E o \in Oids : First(o, Fillable(task)) /\ ApplyFill(t, task, o, q)
  <2>1. PICK o \in Oids : First(o, Fillable(task)) /\ ApplyFill(t, task, o, q)
    BY <1>1
  <2>2. o \in openOrders /\ FillQty(allOrders[o], task.book) > 0
    BY <2>1 DEF First, Fillable
  <2> QED BY <2>1, <2>2, ApplyFillIsFilled DEF VenueStep
<1>2. CASE UNCHANGED <<venueVars, clock>>
  BY <1>2 DEF venueVars, VenueStep, VenueInv, TypeOK
<1> QED BY <1>1, <1>2 DEF TryFills

LEMMA TryCancelsIsVenueStep ==
  ASSUME VenueInv, NEW t, NEW task, NEW q, TryCancels(t, task, q)
  PROVE  VenueStep /\ clock' \in [Oids -> Nat]
<1>1. CASE UNCHANGED <<venueVars, cache, clock>>
  BY <1>1 DEF venueVars, VenueStep, VenueInv, TypeOK
<1>2. ASSUME NEW o \in Oids, First(o, task.rest \cap openOrders), ReadsClock(o),
             allOrders' = [allOrders EXCEPT ![o] =
               [allOrders[o] EXCEPT !.status = "CANCELLED", !.updated = clock'[o]]],
             openOrders' = WithoutOrder(o)
      PROVE  VenueStep /\ clock' \in [Oids -> Nat]
  <2>1. clock' \in [Oids -> Nat]
    BY <1>2, OrderPathAssumption DEF ReadsClock, VenueInv, TypeOK
  <2>2. Cancelled(o, clock'[o])
    BY <1>2 DEF Cancelled, First, WithoutOrder, VenueInv, TypeOK
  <2> QED BY <2>1, <2>2 DEF VenueStep
<1> QED BY <1>1, <1>2 DEF TryCancels

\* Whatever a call does, it does to the venue's orders one of the four things.
LEMMA CallsMakeVenueSteps ==
  ASSUME VenueInv, [Next]_<<vars, wiring>>
  PROVE  VenueStep /\ clock' \in [Oids -> Nat]
<1> USE DEF VenueInv, TypeOK
<1>1. ASSUME NEW t \in Tasks, NEW req \in Requests, Submit(t, req)
      PROVE  VenueStep /\ clock' \in [Oids -> Nat]
  <2>1. PICK d1 \in ClockSteps, d2 \in ClockSteps :
          /\ clock' = [clock EXCEPT ![nextOid + 1] = @ + d1 + d2]
          /\ \E s \in {"ACKED", "REJECTED"} :
               /\ allOrders' = [allOrders EXCEPT ![nextOid + 1] =
                    [req |-> req, status |-> s, filled |-> 0,
                     updated |-> clock[nextOid + 1] + d1 + d2]]
               /\ openOrders' = IF s = "ACKED" THEN openOrders \cup {nextOid + 1}
                                ELSE openOrders
    BY <1>1 DEF Submit
  <2>2. nextOid + 1 \in Oids /\ allOrders[nextOid + 1] = NoOrder
    BY <1>1, OrderPathAssumption DEF Submit, Oids
  <2>3. clock' \in [Oids -> Nat]
    BY <2>1, <2>2, OrderPathAssumption
  <2>4. clock[nextOid + 1] + d1 + d2 \in Nat
    BY <2>2, OrderPathAssumption
  <2>5. \E order \in Order : Placed(nextOid + 1, order)
    <3>1. PICK s \in {"ACKED", "REJECTED"} :
            /\ allOrders' = [allOrders EXCEPT ![nextOid + 1] =
                 [req |-> req, status |-> s, filled |-> 0,
                  updated |-> clock[nextOid + 1] + d1 + d2]]
            /\ openOrders' = IF s = "ACKED" THEN openOrders \cup {nextOid + 1}
                             ELSE openOrders
      BY <2>1
    <3> DEFINE order == [req |-> req, status |-> s, filled |-> 0,
                         updated |-> clock[nextOid + 1] + d1 + d2]
    <3>2. order \in Order
      BY <2>4 DEF Order, Terminal, Working
    <3> QED BY <2>2, <3>1, <3>2 DEF Placed
  <2> QED BY <2>2, <2>3, <2>5 DEF VenueStep
<1>2. ASSUME NEW t \in Tasks, NEW book \in Books, Orderbook(t, book)
      PROVE  VenueStep /\ clock' \in [Oids -> Nat]
  BY <1>2, TryFillsIsVenueStep DEF Orderbook, NewCall
<1>3. ASSUME NEW t \in Tasks, (\E o \in Oids : Cancel(t, o)) \/ CancelAll(t) \/ CancelWritten(t)
      PROVE  VenueStep /\ clock' \in [Oids -> Nat]
  BY <1>3, TryCancelsIsVenueStep DEF Cancel, CancelAll, CancelWritten
<1>4. ASSUME NEW t \in Tasks, AckWritten(t) \/ UpdateWritten(t)
      PROVE  VenueStep /\ clock' \in [Oids -> Nat]
  <2>1. tasks[t] \in InFlight
    BY <1>4 DEF AckWritten, UpdateWritten, Resumes, Idle
  <2> DEFINE tried == IF AckWritten(t) THEN [tasks[t] EXCEPT !.book = latestBook] ELSE tasks[t]
  <2>2. tried.book \in Books \cup {NoBook}
    BY <2>1 DEF InFlight
  <2> QED BY <1>4, <2>2, TryFillsIsVenueStep DEF AckWritten, UpdateWritten
<1>5. ASSUME NEW t \in Tasks, FillWritten(t) \/ FillRowWritten(t) \/ SubmittedWritten(t)
                              \/ WriteRaises(t)
      PROVE  VenueStep /\ clock' \in [Oids -> Nat]
  BY <1>5 DEF FillWritten, FillRowWritten, SubmittedWritten, WriteRaises, venueVars, VenueStep
<1>6. CASE Restart
  BY <1>6 DEF Restart, VenueStep, Forgotten
<1>7. CASE UNCHANGED <<vars, wiring>>
  BY <1>7 DEF vars, venueVars, VenueStep
<1> QED BY <1>1, <1>2, <1>3, <1>4, <1>5, <1>6, <1>7 DEF Next, Step, WriteCompletes

\* A venue step keeps the venue's orders in order.
LEMMA VenueStepKeepsInv ==
  ASSUME VenueInv, VenueStep, allOrders' \in [Oids -> Order \cup {NoOrder}]
  PROVE  OpenIffWorking' /\ NeverOverfilled'
<1> USE DEF VenueInv, TypeOK, OpenIffWorking, NeverOverfilled, NoOrder
<1>1. CASE UNCHANGED <<allOrders, openOrders>>
  BY <1>1
<1>2. ASSUME NEW o \in Oids, NEW order \in Order, Placed(o, order)
      PROVE  OpenIffWorking' /\ NeverOverfilled'
  BY <1>2, OrderPathAssumption DEF Placed, Order
<1>3. ASSUME NEW o \in Oids, NEW n \in Nat, NEW time \in Nat, Filled(o, n, time)
      PROVE  OpenIffWorking' /\ NeverOverfilled'
  <2>1. /\ allOrders[o] \in Order /\ allOrders[o].filled \in Nat
        /\ allOrders[o].req.quantity \in Nat
    BY <1>3, OrderPathAssumption DEF Filled, Order
  <2> DEFINE total == allOrders[o].filled + n
             after == [allOrders[o] EXCEPT !.filled = total, !.updated = time,
                                           !.status = StatusAfter(total, allOrders[o].req)]
  <2>2. /\ after.req = allOrders[o].req /\ after.filled = total
        /\ after.status = StatusAfter(total, allOrders[o].req)
    BY <2>1 DEF Order
  <2>3. /\ o \in openOrders /\ total <= allOrders[o].req.quantity
        /\ allOrders' = [allOrders EXCEPT ![o] = after]
        /\ openOrders' = IF after.status = "FILLED" THEN openOrders \ {o} ELSE openOrders
    BY <1>3, <2>2 DEF Filled
  <2> HIDE DEF after
  <2>4. /\ after.status \in {"FILLED", "PARTIALLY_FILLED"}
        /\ after.status = "FILLED" <=> total = after.req.quantity
    <3>1. total \in Nat /\ after.req.quantity \in Nat /\ total <= after.req.quantity
      BY <2>1, <2>2, <2>3
    <3>2. after.status = IF total >= after.req.quantity THEN "FILLED" ELSE "PARTIALLY_FILLED"
      BY <2>2 DEF StatusAfter
    <3> QED BY <3>1, <3>2
  <2>5. /\ allOrders'[o] = after
        /\ \A p \in Oids \ {o} : allOrders'[p] = allOrders[p]
    BY <2>3
  <2>6. OpenIffWorking'
    BY <2>3, <2>4, <2>5
  <2>7. NeverOverfilled'
    BY <2>2, <2>3, <2>4, <2>5
  <2> QED BY <2>6, <2>7
<1>4. ASSUME NEW o \in Oids, NEW time \in Nat, Cancelled(o, time)
      PROVE  OpenIffWorking' /\ NeverOverfilled'
  BY <1>4 DEF Cancelled, Order
<1>5. CASE Forgotten
  BY <1>5 DEF Forgotten
<1> QED BY <1>1, <1>2, <1>3, <1>4, <1>5 DEF VenueStep

-----------------------------------------------------------------------------
(* Types. *)

\* The waiting list after the task at its head has been taken off, and after a
\* task not on it has joined it.
LEMMA QueueStep ==
  ASSUME NEW q \in Seq(Tasks), \A i, j \in DOMAIN q : q[i] = q[j] => i = j
  PROVE  /\ \A t \in Tasks : (~ \E i \in DOMAIN q : q[i] = t) =>
              /\ Append(q, t) \in Seq(Tasks)
              /\ \A i, j \in DOMAIN Append(q, t) :
                   Append(q, t)[i] = Append(q, t)[j] => i = j
              /\ \A s : (\E i \in DOMAIN Append(q, t) : Append(q, t)[i] = s)
                          <=> (s = t \/ \E i \in DOMAIN q : q[i] = s)
         /\ q # <<>> =>
              /\ Head(q) \in Tasks
              /\ \E i \in DOMAIN q : q[i] = Head(q)
              /\ Tail(q) \in Seq(Tasks)
              /\ \A i, j \in DOMAIN Tail(q) : Tail(q)[i] = Tail(q)[j] => i = j
              /\ \A s : (\E i \in DOMAIN Tail(q) : Tail(q)[i] = s)
                          <=> (s # Head(q) /\ \E i \in DOMAIN q : q[i] = s)
<1>1. ASSUME NEW t \in Tasks, ~ \E i \in DOMAIN q : q[i] = t
      PROVE  /\ Append(q, t) \in Seq(Tasks)
             /\ \A i, j \in DOMAIN Append(q, t) :
                  Append(q, t)[i] = Append(q, t)[j] => i = j
             /\ \A s : (\E i \in DOMAIN Append(q, t) : Append(q, t)[i] = s)
                         <=> (s = t \/ \E i \in DOMAIN q : q[i] = s)
  <2>1. /\ Append(q, t) \in Seq(Tasks) /\ DOMAIN q = 1 .. Len(q) /\ Len(q) \in Nat
        /\ DOMAIN Append(q, t) = 1 .. Len(q) + 1
        /\ Append(q, t)[Len(q) + 1] = t
        /\ \A i \in 1 .. Len(q) : Append(q, t)[i] = q[i]
    OBVIOUS
  <2> QED BY <1>1, <2>1
<1>2. ASSUME q # <<>>
      PROVE  /\ Head(q) \in Tasks
             /\ \E i \in DOMAIN q : q[i] = Head(q)
             /\ Tail(q) \in Seq(Tasks)
             /\ \A i, j \in DOMAIN Tail(q) : Tail(q)[i] = Tail(q)[j] => i = j
             /\ \A s : (\E i \in DOMAIN Tail(q) : Tail(q)[i] = s)
                         <=> (s # Head(q) /\ \E i \in DOMAIN q : q[i] = s)
  <2>1. /\ Head(q) = q[1] /\ Len(q) \in Nat \ {0} /\ DOMAIN q = 1 .. Len(q)
        /\ Tail(q) \in Seq(Tasks) /\ DOMAIN Tail(q) = 1 .. Len(q) - 1
        /\ \A i \in 1 .. Len(q) - 1 : Tail(q)[i] = q[i + 1]
        /\ q[1] \in Tasks
    BY <1>2
  <2>2. \A i, j \in DOMAIN Tail(q) : Tail(q)[i] = Tail(q)[j] => i = j
    BY <2>1
  <2>3. ASSUME NEW s
        PROVE  (\E i \in DOMAIN Tail(q) : Tail(q)[i] = s)
                 <=> (s # Head(q) /\ \E i \in DOMAIN q : q[i] = s)
    <3>1. ASSUME NEW i \in DOMAIN Tail(q), Tail(q)[i] = s
          PROVE  s # Head(q) /\ \E k \in DOMAIN q : q[k] = s
      BY <2>1, <3>1
    <3>2. ASSUME NEW i \in DOMAIN q, q[i] = s, s # Head(q)
          PROVE  \E k \in DOMAIN Tail(q) : Tail(q)[k] = s
      <4>1. i - 1 \in DOMAIN Tail(q) /\ Tail(q)[i - 1] = s
        BY <2>1, <3>2
      <4> QED BY <4>1
    <3> QED BY <3>1, <3>2
  <2> QED BY <2>1, <2>2, <2>3
<1> QED BY <1>1, <1>2

\* q is the waiting list less t: t is running.
Without(q, t) ==
  /\ q \in Seq(Tasks)
  /\ \A i, j \in DOMAIN q : q[i] = q[j] => i = j
  /\ \A s \in Tasks : (\E i \in DOMAIN q : q[i] = s) <=> (s # t /\ tasks[s] # Idle)

LoopOK ==
  /\ tasks \in [Tasks -> InFlight \cup {Idle}]
  /\ queue \in Seq(Tasks)
  /\ \A i, j \in DOMAIN queue : queue[i] = queue[j] => i = j
  /\ \A t \in Tasks : tasks[t] # Idle <=> \E i \in DOMAIN queue : queue[i] = t

Carries(task, orders) ==
  /\ task.call = "submit" => task.submitted \in Order
  /\ task.awaits \in {"fill", "fill_row"} => task.update \in Order /\ orders[task.oid] # NoOrder

\* A call as it runs: as one in flight, but it may have no order or row yet.
Running ==
  [call : Calls, awaits : Awaits, oid : Nat, rest : SUBSET Oids, book : Books \cup {NoBook},
   row : Order \cup {NoOrder}, update : Order \cup {NoOrder}, qty : Nat,
   submitted : Order \cup {NoOrder}, targets : SUBSET Oids]

LEMMA InFlightIsNotIdle == \A task \in InFlight : task # Idle /\ task.call \in Calls
  BY DEF InFlight, Idle, Calls

LEMMA Starts == ASSUME TypeOK, NEW t \in Tasks, MayStart(t) PROVE Without(queue, t)
  BY DEF TypeOK, MayStart, Without, CallOK

LEMMA Resuming ==
  ASSUME TypeOK, NEW t \in Tasks, queue # <<>>, Head(queue) = t
  PROVE  /\ Without(Tail(queue), t)
         /\ tasks[t] \in InFlight
<1>1. queue \in Seq(Tasks) /\ \A i, j \in DOMAIN queue : queue[i] = queue[j] => i = j
  BY DEF TypeOK
<1>2. /\ Tail(queue) \in Seq(Tasks)
      /\ \A i, j \in DOMAIN Tail(queue) : Tail(queue)[i] = Tail(queue)[j] => i = j
      /\ \A s : (\E i \in DOMAIN Tail(queue) : Tail(queue)[i] = s)
                  <=> (s # t /\ \E i \in DOMAIN queue : queue[i] = s)
      /\ \E i \in DOMAIN queue : queue[i] = t
  BY <1>1, QueueStep
<1>3. \A s \in Tasks : tasks[s] # Idle <=> \E i \in DOMAIN queue : queue[i] = s
  BY DEF TypeOK, CallOK
<1>4. tasks[t] # Idle /\ tasks[t] \in InFlight \cup {Idle}
  BY <1>2, <1>3 DEF TypeOK
<1> QED BY <1>2, <1>3, <1>4 DEF Without

LEMMA SuspendKeepsLoop ==
  ASSUME TypeOK, NEW t \in Tasks, NEW task \in InFlight, NEW q, Without(q, t),
         Suspend(t, task, q)
  PROVE  LoopOK' /\ tasks'[t] = task /\ \A s \in Tasks \ {t} : tasks'[s] = tasks[s]
<1>1. /\ tasks \in [Tasks -> InFlight \cup {Idle}]
      /\ tasks' = [tasks EXCEPT ![t] = task] /\ queue' = Append(q, t)
  BY DEF TypeOK, Suspend
<1>2. /\ queue' \in Seq(Tasks)
      /\ \A i, j \in DOMAIN queue' : queue'[i] = queue'[j] => i = j
      /\ \A s : (\E i \in DOMAIN queue' : queue'[i] = s)
                  <=> (s = t \/ \E i \in DOMAIN q : q[i] = s)
  BY <1>1, QueueStep DEF Without
<1>3. task # Idle
  BY InFlightIsNotIdle
<1>4. \A s \in Tasks : (\E i \in DOMAIN q : q[i] = s) <=> (s # t /\ tasks[s] # Idle)
  BY DEF Without
<1>5. tasks' \in [Tasks -> InFlight \cup {Idle}] /\ tasks'[t] = task
        /\ \A s \in Tasks \ {t} : tasks'[s] = tasks[s]
  BY <1>1
<1>6. \A s \in Tasks : tasks'[s] # Idle <=> \E i \in DOMAIN queue' : queue'[i] = s
  BY <1>2, <1>3, <1>4, <1>5
<1> QED BY <1>2, <1>5, <1>6 DEF LoopOK

LEMMA ReturnKeepsLoop ==
  ASSUME TypeOK, NEW t \in Tasks, NEW q, Without(q, t), Return(t, q)
  PROVE  LoopOK' /\ tasks'[t] = Idle /\ \A s \in Tasks \ {t} : tasks'[s] = tasks[s]
<1>1. /\ tasks \in [Tasks -> InFlight \cup {Idle}]
      /\ tasks' = [tasks EXCEPT ![t] = Idle] /\ queue' = q
  BY DEF TypeOK, Return
<1> QED BY <1>1 DEF Without, LoopOK

\* The other calls' locals stay good as long as no order is forgotten.
LEMMA CallsStayOK ==
  ASSUME TypeOK, NEW t \in Tasks, LoopOK',
         \A s \in Tasks \ {t} : tasks'[s] = tasks[s],
         tasks'[t] = Idle \/ Carries(tasks'[t], allOrders'),
         \A o \in Oids : allOrders[o] # NoOrder => allOrders'[o] # NoOrder
  PROVE  \A s \in Tasks : CallOK(s)'
<1> SUFFICES ASSUME NEW s \in Tasks PROVE CallOK(s)'
  OBVIOUS
<1>1. CASE s = t
  BY <1>1 DEF CallOK, LoopOK, Carries, Idle
<1>2. CASE s # t
  <2>1. tasks'[s] = tasks[s] /\ CallOK(s)
    BY <1>2 DEF TypeOK
  <2>2. tasks[s] \in InFlight \cup {Idle}
    BY DEF TypeOK
  <2>3. CASE tasks[s] = Idle
    BY <2>1, <2>3 DEF CallOK, LoopOK, Idle
  <2>4. CASE tasks[s] \in InFlight
    <3>1. tasks[s].oid \in Oids
      BY <2>4 DEF InFlight
    <3> QED BY <2>1, <3>1 DEF CallOK, LoopOK
  <2> QED BY <2>2, <2>3, <2>4
<1> QED BY <1>1, <1>2

VenueTypes ==
  /\ nextOid \in 0 .. MaxOrders
  /\ allOrders \in [Oids -> Order \cup {NoOrder}]
  /\ openOrders \subseteq Oids
  /\ position \in Int
  /\ \A o \in Oids : allOrders[o] # NoOrder <=> o <= nextOid
  /\ clock \in [Oids -> Nat]

CacheTypes ==
  /\ cache \in [Oids -> Order \cup {NoOrder}]
  /\ \A o \in Oids : allOrders[o] # NoOrder => cache[o] # NoOrder

\* What TryFills and TryCancels leave behind them, but for the cache.
PartOK(t) == VenueTypes' /\ LoopOK' /\ \A s \in Tasks : CallOK(s)'

LEMMA NotNoOrder == \A order \in Order : order # NoOrder
  BY DEF Order, NoOrder, Terminal, Working

LEMMA ApplyFillTypes ==
  ASSUME VenueInv, NEW t \in Tasks, NEW task \in Running, NEW q, Without(q, t),
         NEW o \in openOrders, FillQty(allOrders[o], task.book) > 0,
         task.call = "submit" => task.submitted \in Order /\ task.oid \in Oids,
         ApplyFill(t, task, o, q)
  PROVE  PartOK(t)
<1> DEFINE n       == FillQty(allOrders[o], task.book)
           updated == [allOrders[o] EXCEPT
                         !.filled  = @ + n,
                         !.status  = StatusAfter(allOrders[o].filled + n, allOrders[o].req),
                         !.updated = clock'[o]]
           next    == [task EXCEPT !.awaits = "fill", !.oid = o, !.row = updated, !.qty = n,
                                   !.update = updated, !.rest = {p \in @ : p > o}]
<1>1. o \in Oids /\ allOrders[o] \in Order
  BY DEF VenueInv, TypeOK, OpenIffWorking, NoOrder
<1>2. clock' \in [Oids -> Nat]
  BY <1>1, OrderPathAssumption DEF ApplyFill, ReadsClock, VenueInv, TypeOK
<1>3. n \in Nat /\ allOrders[o].filled + n \in Nat
  <2>1. task.book \in Books \cup {NoBook}
    BY DEF Running
  <2> QED BY <1>1, <2>1, FillQtyBound DEF Order
<1>4. updated \in Order
  <2>1. StatusAfter(allOrders[o].filled + n, allOrders[o].req) \in Terminal \cup Working
    BY DEF StatusAfter, Terminal, Working
  <2> HIDE DEF n
  <2> QED BY <1>1, <1>2, <1>3, <2>1 DEF Order
<1>5. /\ allOrders' = [allOrders EXCEPT ![o] = updated]
      /\ openOrders' \subseteq openOrders
      /\ position' = position + Signed(allOrders[o].req, n)
      /\ nextOid' = nextOid
      /\ Suspend(t, next, q)
  BY <1>1 DEF ApplyFill, WithoutOrder
<1> HIDE DEF updated
<1>6. next \in InFlight
  BY <1>1, <1>3, <1>4 DEF Running, InFlight, Awaits
<1>7. next.call = task.call /\ next.submitted = task.submitted /\ next.oid = o
        /\ next.update = updated
  BY DEF Running
<1>8. VenueTypes'
  <2>1. Signed(allOrders[o].req, n) \in Int
    BY <1>3 DEF Signed
  <2>2. allOrders[o] # NoOrder /\ updated # NoOrder
    BY <1>1, <1>4, NotNoOrder
  <2> QED BY <1>1, <1>2, <1>4, <1>5, <2>1, <2>2 DEF VenueTypes, VenueInv, TypeOK
<1> HIDE DEF next
<1>9. LoopOK' /\ tasks'[t] = next /\ \A s \in Tasks \ {t} : tasks'[s] = tasks[s]
  BY <1>5, <1>6, SuspendKeepsLoop DEF VenueInv
<1>10. allOrders'[o] # NoOrder
  BY <1>1, <1>4, <1>5, NotNoOrder DEF VenueInv, TypeOK
<1>11. Carries(next, allOrders')
  BY <1>4, <1>7, <1>10 DEF Carries
<1>12. \A p \in Oids : allOrders[p] # NoOrder => allOrders'[p] # NoOrder
  BY <1>1, <1>5, <1>10 DEF VenueInv, TypeOK
<1> QED BY <1>8, <1>9, <1>11, <1>12, CallsStayOK DEF PartOK, VenueInv

LEMMA TryFillsTypes ==
  ASSUME VenueInv, NEW t \in Tasks, NEW task \in Running, NEW q, Without(q, t),
         task.call = "submit" => task.submitted \in Order /\ task.oid \in Oids,
         TryFills(t, task, q)
  PROVE  PartOK(t)
<1>1. CASE \E o \in Oids : First(o, Fillable(task)) /\ ApplyFill(t, task, o, q)
  <2>1. PICK o \in Oids : First(o, Fillable(task)) /\ ApplyFill(t, task, o, q)
    BY <1>1
  <2>2. o \in openOrders /\ FillQty(allOrders[o], task.book) > 0
    BY <2>1 DEF First, Fillable
  <2> QED BY <2>1, <2>2, ApplyFillTypes
<1>2. CASE Return(t, q) /\ UNCHANGED <<venueVars, clock>>
  <2>1. VenueTypes' /\ allOrders' = allOrders
    BY <1>2 DEF venueVars, VenueTypes, VenueInv, TypeOK
  <2>2. LoopOK' /\ tasks'[t] = Idle /\ \A s \in Tasks \ {t} : tasks'[s] = tasks[s]
    BY <1>2, ReturnKeepsLoop DEF VenueInv
  <2> QED BY <2>1, <2>2, CallsStayOK DEF PartOK, VenueInv
<1>3. ASSUME task.call = "submit", UNCHANGED <<venueVars, clock>>,
             Suspend(t, [task EXCEPT !.awaits = "submitted", !.row = task.submitted, !.rest = {},
                                     !.update = NoOrder, !.qty = 0, !.book = NoBook], q)
      PROVE  PartOK(t)
  <2> DEFINE next == [task EXCEPT !.awaits = "submitted", !.row = task.submitted, !.rest = {},
                                  !.update = NoOrder, !.qty = 0, !.book = NoBook]
  <2>1. VenueTypes' /\ allOrders' = allOrders
    BY <1>3 DEF venueVars, VenueTypes, VenueInv, TypeOK
  <2>2. next \in InFlight
    BY <1>3 DEF Running, InFlight, Awaits
  <2>3. Carries(next, allOrders')
    BY <1>3 DEF Running, Carries
  <2> HIDE DEF next
  <2>4. LoopOK' /\ tasks'[t] = next /\ \A s \in Tasks \ {t} : tasks'[s] = tasks[s]
    BY <1>3, <2>2, SuspendKeepsLoop DEF VenueInv, next
  <2> QED BY <2>1, <2>3, <2>4, CallsStayOK DEF PartOK, VenueInv
<1> QED BY <1>1, <1>2, <1>3 DEF TryFills

LEMMA TryCancelsTypes ==
  ASSUME VenueInv, NEW t \in Tasks, NEW task \in Running, NEW q, Without(q, t),
         task.call = "submit" => task.submitted \in Order, TryCancels(t, task, q)
  PROVE  PartOK(t) /\ CacheTypes'
<1>1. CASE Return(t, q) /\ UNCHANGED <<venueVars, cache, clock>>
  <2>1. VenueTypes' /\ CacheTypes' /\ allOrders' = allOrders
    BY <1>1 DEF venueVars, VenueTypes, CacheTypes, VenueInv, TypeOK
  <2>2. LoopOK' /\ tasks'[t] = Idle /\ \A s \in Tasks \ {t} : tasks'[s] = tasks[s]
    BY <1>1, ReturnKeepsLoop DEF VenueInv
  <2> QED BY <2>1, <2>2, CallsStayOK DEF PartOK, VenueInv
<1>2. ASSUME NEW o \in Oids, o \in openOrders, ReadsClock(o), UNCHANGED <<nextOid, position>>,
             LET cancelled == [allOrders[o] EXCEPT !.status = "CANCELLED", !.updated = clock'[o]]
             IN  /\ allOrders' = [allOrders EXCEPT ![o] = cancelled]
                 /\ openOrders' = WithoutOrder(o)
                 /\ OnOrderUpdate(o, cancelled)
                 /\ Suspend(t, [task EXCEPT !.awaits = "cancelled", !.oid = o, !.row = cancelled,
                                            !.rest = {p \in @ : p > o}], q)
      PROVE  PartOK(t) /\ CacheTypes'
  <2> DEFINE cancelled == [allOrders[o] EXCEPT !.status = "CANCELLED", !.updated = clock'[o]]
             next == [task EXCEPT !.awaits = "cancelled", !.oid = o, !.row = cancelled,
                                  !.rest = {p \in @ : p > o}]
  <2>1. allOrders[o] \in Order
    BY <1>2 DEF VenueInv, TypeOK, OpenIffWorking, NoOrder
  <2>2. clock' \in [Oids -> Nat]
    BY <1>2, OrderPathAssumption DEF ReadsClock, VenueInv, TypeOK
  <2>3. cancelled \in Order
    BY <2>1, <2>2 DEF Order, Terminal
  <2>4. /\ allOrders' = [allOrders EXCEPT ![o] = cancelled]
        /\ openOrders' \subseteq openOrders
        /\ cache' = [cache EXCEPT ![o] = cancelled]
        /\ Suspend(t, next, q)
    BY <1>2 DEF WithoutOrder, OnOrderUpdate
  <2> HIDE DEF cancelled
  <2>5. next \in InFlight /\ next.awaits = "cancelled"
        /\ next.call = task.call /\ next.submitted = task.submitted
    BY <2>3 DEF Running, InFlight, Awaits
  <2> HIDE DEF next
  <2>6. VenueTypes' /\ CacheTypes'
    <3>1. allOrders[o] # NoOrder /\ cancelled # NoOrder
      BY <2>1, <2>3, NotNoOrder
    <3> QED BY <1>2, <2>2, <2>3, <2>4, <3>1 DEF VenueTypes, CacheTypes, VenueInv, TypeOK
  <2>7. LoopOK' /\ tasks'[t] = next /\ \A s \in Tasks \ {t} : tasks'[s] = tasks[s]
    BY <2>4, <2>5, SuspendKeepsLoop DEF VenueInv
  <2>8. Carries(next, allOrders')
    BY <2>5 DEF Carries
  <2>9. \A p \in Oids : allOrders[p] # NoOrder => allOrders'[p] # NoOrder
    BY <2>3, <2>4, NotNoOrder DEF VenueInv, TypeOK
  <2> QED BY <2>6, <2>7, <2>8, <2>9, CallsStayOK DEF PartOK, VenueInv
<1>3. ASSUME NEW o \in Oids, First(o, task.rest \cap openOrders) PROVE o \in openOrders
  BY <1>3 DEF First
<1> QED BY <1>1, <1>2, <1>3 DEF TryCancels

LEMMA PersistTypes ==
  ASSUME TypeOK, NEW o \in Oids, NEW row \in Order, Persist(o, row)
  PROVE  journal' \in [Oids -> Order \cup {NoOrder}]
BY DEF TypeOK, Persist

\* The calls that begin.
LEMMA SubmitTypes ==
  ASSUME VenueInv, UNCHANGED <<wiring, lost>>, NEW t \in Tasks, NEW req \in Requests, Submit(t, req)
  PROVE  TypeOK'
<1>1. PICK d1 \in ClockSteps, d2 \in ClockSteps, s \in {"ACKED", "REJECTED"},
           rest \in SUBSET {nextOid + 1} :
        LET o     == nextOid + 1
            acked == [req |-> req, status |-> s, filled |-> 0, updated |-> clock[o] + d1 + d2]
            first == [req |-> req, status |-> "SUBMITTED", filled |-> 0,
                      updated |-> clock[o] + d1]
        IN  /\ nextOid' = o
            /\ clock' = [clock EXCEPT ![o] = @ + d1 + d2]
            /\ allOrders' = [allOrders EXCEPT ![o] = acked]
            /\ openOrders' \subseteq openOrders \cup {o}
            /\ cache' = [cache EXCEPT ![o] = acked]
            /\ Suspend(t, NewCall("submit", rest, NoBook, acked, first), queue)
  BY DEF Submit, OnOrderUpdate
<1> DEFINE o     == nextOid + 1
           acked == [req |-> req, status |-> s, filled |-> 0, updated |-> clock[o] + d1 + d2]
           first == [req |-> req, status |-> "SUBMITTED", filled |-> 0, updated |-> clock[o] + d1]
           next  == NewCall("submit", rest, NoBook, acked, first)
<1>2. o \in Oids /\ nextOid \in Nat /\ nextOid < MaxOrders /\ allOrders[o] = NoOrder
  BY OrderPathAssumption DEF Submit, Oids, VenueInv, TypeOK
<1>3. clock[o] + d1 + d2 \in Nat /\ clock[o] + d1 \in Nat
  BY <1>2, OrderPathAssumption DEF VenueInv, TypeOK
<1>4. acked \in Order /\ first \in Order
  BY <1>3 DEF Order, Terminal, Working
<1>5. acked # NoOrder
  BY <1>4, NotNoOrder
<1> HIDE DEF acked, first
<1>6. next \in InFlight /\ next.call = "submit" /\ next.submitted = first /\ next.awaits = "ack"
  BY <1>2, <1>4 DEF NewCall, InFlight, Calls, Awaits
<1>7. VenueTypes' /\ CacheTypes'
  <2>1. nextOid' \in 0 .. MaxOrders
    BY <1>1, <1>2, OrderPathAssumption
  <2>2. clock' \in [Oids -> Nat]
    BY <1>1, <1>2, <1>3, OrderPathAssumption DEF VenueInv, TypeOK
  <2>3. allOrders' = [allOrders EXCEPT ![o] = acked] /\ cache' = [cache EXCEPT ![o] = acked]
          /\ nextOid' = o /\ openOrders' \subseteq openOrders \cup {o} /\ position' = position
    BY <1>1 DEF Submit, acked
  <2>4. \A p \in Oids : p <= nextOid + 1 <=> p = nextOid + 1 \/ p <= nextOid
    BY <1>2 DEF Oids
  <2> QED BY <1>2, <1>4, <1>5, <2>1, <2>2, <2>3, <2>4 DEF VenueTypes, CacheTypes, VenueInv, TypeOK
<1> HIDE DEF next
<1>8. LoopOK' /\ tasks'[t] = next /\ \A u \in Tasks \ {t} : tasks'[u] = tasks[u]
  <2>1. Suspend(t, next, queue)
    BY <1>1 DEF acked, first, next
  <2> QED BY <1>6, <2>1, Starts, SuspendKeepsLoop DEF Submit, VenueInv
<1>9. Carries(next, allOrders')
  BY <1>4, <1>6 DEF Carries
<1>10. \A p \in Oids : allOrders[p] # NoOrder => allOrders'[p] # NoOrder
  BY <1>1, <1>2, <1>5 DEF VenueInv, TypeOK, acked
<1>11. \A u \in Tasks : CallOK(u)'
  BY <1>8, <1>9, <1>10, CallsStayOK DEF VenueInv
<1> QED BY <1>7, <1>8, <1>11 DEF Submit, TypeOK, VenueInv, VenueTypes, CacheTypes, LoopOK

LEMMA PartsMakeTypeOK ==
  ASSUME NEW t \in Tasks, PartOK(t), CacheTypes',
         (wiring \in Wirings)',
         (latestBook \in Books \cup {NoBook})',
         (journal \in [Oids -> Order \cup {NoOrder}])', (fillLog \in [Oids -> Nat])',
         (faults \in 0 .. MaxFaults /\ restarts \in 0 .. MaxRestarts /\ lost \subseteq Oids)'
  PROVE  TypeOK'
BY SMTT(40) DEF PartOK, TypeOK, VenueTypes, CacheTypes, LoopOK

\* When the cache is left alone the OMS still knows every order: none was added.
LEMMA CacheUntouched ==
  ASSUME VenueInv, NEW t, PartOK(t), UNCHANGED <<cache, nextOid>>
  PROVE  CacheTypes'
BY DEF VenueInv, TypeOK, PartOK, VenueTypes, CacheTypes

LEMMA TryFillsKeepsNextOid ==
  ASSUME NEW t, NEW task, NEW q, TryFills(t, task, q) PROVE nextOid' = nextOid
BY DEF TryFills, ApplyFill, venueVars

LEMMA OrderbookTypes ==
  ASSUME VenueInv, UNCHANGED <<wiring, lost>>, NEW t \in Tasks, NEW book \in Books, Orderbook(t, book)
  PROVE  TypeOK'
<1> DEFINE task == NewCall("orderbook", openOrders, book, NoOrder, NoOrder)
<1>1. task \in Running /\ task.call = "orderbook"
  BY DEF NewCall, Running, Calls, Awaits, VenueInv, TypeOK
<1>2. Without(queue, t) /\ TryFills(t, task, queue)
  BY Starts DEF Orderbook, VenueInv
<1> HIDE DEF task
<1>3. PartOK(t) /\ CacheTypes'
  BY <1>1, <1>2, TryFillsTypes, TryFillsKeepsNextOid, CacheUntouched DEF Orderbook
<1> QED BY <1>3, PartsMakeTypeOK DEF Orderbook, VenueInv, TypeOK

LEMMA CancelTypes ==
  ASSUME VenueInv, UNCHANGED <<wiring, lost>>, NEW t \in Tasks,
         (\E o \in Oids : Cancel(t, o)) \/ CancelAll(t)
  PROVE  TypeOK'
<1>1. Without(queue, t)
  BY Starts DEF Cancel, CancelAll, VenueInv
<1>2. PICK task \in Running : task.call = "cancel" /\ TryCancels(t, task, queue)
  <2>1. ASSUME NEW o \in Oids, Cancel(t, o)
        PROVE  \E task \in Running : task.call = "cancel" /\ TryCancels(t, task, queue)
    <3>1. NewCall("cancel", {o}, NoBook, NoOrder, NoOrder) \in Running
      BY DEF NewCall, Running, Calls, Awaits, VenueInv, TypeOK
    <3> QED BY <2>1, <3>1 DEF Cancel, NewCall
  <2>2. ASSUME CancelAll(t)
        PROVE  \E task \in Running : task.call = "cancel" /\ TryCancels(t, task, queue)
    <3> DEFINE task == [NewCall("cancel", OpenInCache, NoBook, NoOrder, NoOrder)
                          EXCEPT !.targets = openOrders]
    <3>1. OpenInCache \in SUBSET Oids /\ openOrders \in SUBSET Oids
      BY DEF OpenInCache, VenueInv, TypeOK
    <3>2. NewCall("cancel", OpenInCache, NoBook, NoOrder, NoOrder) \in Running
      BY <3>1 DEF NewCall, Running, Calls, Awaits, VenueInv, TypeOK
    <3>3. task \in Running /\ task.call = "cancel"
      BY <3>1, <3>2 DEF NewCall, Running
    <3> QED BY <2>2, <3>3 DEF CancelAll
  <2> QED BY <2>1, <2>2
<1>3. PartOK(t) /\ CacheTypes'
  BY <1>1, <1>2, TryCancelsTypes
<1> QED BY <1>3, PartsMakeTypeOK DEF Cancel, CancelAll, VenueInv, TypeOK

\* A write completes.
LEMMA ResumedCall ==
  ASSUME VenueInv, NEW t \in Tasks, queue # <<>>, Head(queue) = t
  PROVE  /\ Without(Tail(queue), t) /\ tasks[t] \in InFlight /\ tasks[t] \in Running
         /\ tasks[t].oid \in Oids /\ tasks[t].row \in Order /\ Carries(tasks[t], allOrders)
<1>1. Without(Tail(queue), t) /\ tasks[t] \in InFlight
  BY Resuming DEF VenueInv
<1>2. InFlight \subseteq Running
  BY OrderPathAssumption DEF InFlight, Running, Oids
<1> QED BY <1>1, <1>2 DEF InFlight, VenueInv, TypeOK, CallOK, Carries

LEMMA FillsResumeTypes ==
  ASSUME VenueInv, UNCHANGED <<wiring, lost>>, NEW t \in Tasks, AckWritten(t) \/ UpdateWritten(t)
  PROVE  TypeOK'
<1>1. /\ Without(Tail(queue), t) /\ tasks[t] \in Running /\ tasks[t].oid \in Oids
      /\ tasks[t].row \in Order /\ Carries(tasks[t], allOrders)
  BY ResumedCall DEF AckWritten, UpdateWritten, Resumes
<1> DEFINE task == IF AckWritten(t) THEN [tasks[t] EXCEPT !.book = latestBook] ELSE tasks[t]
<1>2. /\ task \in Running /\ task.oid = tasks[t].oid /\ task.call = tasks[t].call
      /\ task.submitted = tasks[t].submitted
  BY <1>1 DEF Running, VenueInv, TypeOK
<1>3. TryFills(t, task, Tail(queue)) /\ Persist(tasks[t].oid, tasks[t].row)
  BY DEF AckWritten, UpdateWritten
<1> HIDE DEF task
<1>4. PartOK(t) /\ CacheTypes'
  <2>1. PartOK(t)
    BY <1>1, <1>2, <1>3, TryFillsTypes DEF Carries
  <2> QED BY <1>3, <2>1, TryFillsKeepsNextOid, CacheUntouched DEF AckWritten, UpdateWritten
<1>5. journal' \in [Oids -> Order \cup {NoOrder}]
  BY <1>1, <1>3, PersistTypes DEF VenueInv
<1> QED BY <1>4, <1>5, PartsMakeTypeOK DEF AckWritten, UpdateWritten, VenueInv, TypeOK

LEMMA CancelResumesTypes ==
  ASSUME VenueInv, UNCHANGED <<wiring, lost>>, NEW t \in Tasks, CancelWritten(t)
  PROVE  TypeOK'
<1>1. /\ Without(Tail(queue), t) /\ tasks[t] \in Running /\ tasks[t].oid \in Oids
      /\ tasks[t].row \in Order /\ Carries(tasks[t], allOrders)
  BY ResumedCall DEF CancelWritten, Resumes
<1>2. PartOK(t) /\ CacheTypes'
  BY <1>1, TryCancelsTypes DEF CancelWritten, Carries
<1>3. journal' \in [Oids -> Order \cup {NoOrder}]
  BY <1>1, PersistTypes DEF CancelWritten, VenueInv
<1> QED BY <1>2, <1>3, PartsMakeTypeOK DEF CancelWritten, VenueInv, TypeOK

LEMMA FillTypes ==
  ASSUME VenueInv, UNCHANGED <<wiring, lost>>, NEW t \in Tasks, FillWritten(t)
  PROVE  TypeOK'
<1> DEFINE task   == tasks[t]
           cached == cache[task.oid]
           filled == cached.filled + task.qty
           row    == [cached EXCEPT !.filled  = filled,
                                    !.status  = StatusAfter(filled, cached.req),
                                    !.updated = task.update.updated]
           next   == [task EXCEPT !.awaits = "fill_row", !.row = row]
<1>1. /\ Without(Tail(queue), t) /\ task \in InFlight /\ task.oid \in Oids
      /\ task.row \in Order /\ Carries(task, allOrders) /\ task.awaits = "fill"
  BY ResumedCall DEF FillWritten, Resumes
<1>2. cached \in Order /\ task.update \in Order /\ task.qty \in Nat
  BY <1>1 DEF Carries, VenueInv, TypeOK, InFlight
<1>3. row \in Order
  <2>1. filled \in Nat /\ StatusAfter(filled, cached.req) \in Terminal \cup Working
    BY <1>2 DEF Order, StatusAfter, Terminal, Working
  <2> HIDE DEF filled, cached
  <2> QED BY <1>2, <2>1 DEF Order
<1>4. /\ fillLog' = [fillLog EXCEPT ![task.oid] = @ + task.qty]
      /\ cache' = [cache EXCEPT ![task.oid] = row]
      /\ Suspend(t, next, Tail(queue))
  BY DEF FillWritten, OrderAtFill
<1> HIDE DEF row
<1>5. /\ next \in InFlight /\ next.call = task.call /\ next.submitted = task.submitted
      /\ next.oid = task.oid /\ next.update = task.update
  BY <1>1, <1>3 DEF InFlight, Awaits
<1>6. CacheTypes' /\ fillLog' \in [Oids -> Nat]
  BY <1>1, <1>2, <1>3, <1>4, NotNoOrder DEF FillWritten, venueVars, CacheTypes, VenueInv, TypeOK
<1> HIDE DEF next
<1>7. LoopOK' /\ tasks'[t] = next /\ \A s \in Tasks \ {t} : tasks'[s] = tasks[s]
  BY <1>1, <1>4, <1>5, SuspendKeepsLoop DEF VenueInv
<1>8. allOrders' = allOrders /\ VenueTypes'
  BY DEF FillWritten, venueVars, VenueTypes, VenueInv, TypeOK
<1>9. Carries(next, allOrders')
  BY <1>1, <1>5, <1>8 DEF Carries
<1>10. PartOK(t)
  BY <1>7, <1>8, <1>9, CallsStayOK DEF PartOK, VenueInv
<1> QED BY <1>6, <1>10, PartsMakeTypeOK DEF FillWritten, VenueInv, TypeOK

LEMMA FillRowTypes ==
  ASSUME VenueInv, UNCHANGED <<wiring, lost>>, NEW t \in Tasks, FillRowWritten(t)
  PROVE  TypeOK'
<1> DEFINE task == tasks[t]
           next == [task EXCEPT !.awaits = "update", !.row = task.update]
<1>1. /\ Without(Tail(queue), t) /\ task \in InFlight /\ task.oid \in Oids
      /\ task.row \in Order /\ Carries(task, allOrders) /\ task.awaits = "fill_row"
  BY ResumedCall DEF FillRowWritten, Resumes
<1>2. task.update \in Order
  BY <1>1 DEF Carries
<1>3. /\ Persist(task.oid, task.row)
      /\ cache' = [cache EXCEPT ![task.oid] = task.update]
      /\ Suspend(t, next, Tail(queue))
  BY DEF FillRowWritten, OnOrderUpdate
<1>4. next \in InFlight /\ next.call = task.call /\ next.submitted = task.submitted
        /\ next.awaits = "update"
  BY <1>1, <1>2 DEF InFlight, Awaits
<1>5. CacheTypes' /\ journal' \in [Oids -> Order \cup {NoOrder}]
  BY <1>1, <1>2, <1>3, NotNoOrder, PersistTypes
     DEF FillRowWritten, venueVars, CacheTypes, VenueInv, TypeOK
<1> HIDE DEF next
<1>6. LoopOK' /\ tasks'[t] = next /\ \A s \in Tasks \ {t} : tasks'[s] = tasks[s]
  BY <1>1, <1>3, <1>4, SuspendKeepsLoop DEF VenueInv
<1>7. allOrders' = allOrders /\ VenueTypes'
  BY DEF FillRowWritten, venueVars, VenueTypes, VenueInv, TypeOK
<1>8. Carries(next, allOrders')
  BY <1>1, <1>4 DEF Carries
<1>9. PartOK(t)
  BY <1>6, <1>7, <1>8, CallsStayOK DEF PartOK, VenueInv
<1> QED BY <1>5, <1>9, PartsMakeTypeOK DEF FillRowWritten, VenueInv, TypeOK

\* A call that ends, with its row written or not.
LEMMA EndTypes ==
  ASSUME VenueInv, UNCHANGED wiring, NEW t \in Tasks,
         (SubmittedWritten(t) /\ UNCHANGED lost) \/ WriteRaises(t)
  PROVE  TypeOK'
<1>1. /\ Without(Tail(queue), t) /\ tasks[t].oid \in Oids /\ tasks[t].row \in Order
      /\ Return(t, Tail(queue))
  BY ResumedCall DEF SubmittedWritten, WriteRaises, Resumes
<1>2. allOrders' = allOrders /\ VenueTypes'
  BY DEF SubmittedWritten, WriteRaises, venueVars, VenueTypes, VenueInv, TypeOK
<1>3. LoopOK' /\ tasks'[t] = Idle /\ \A s \in Tasks \ {t} : tasks'[s] = tasks[s]
  BY <1>1, ReturnKeepsLoop DEF VenueInv
<1>4. PartOK(t)
  BY <1>2, <1>3, CallsStayOK DEF PartOK, VenueInv
<1>5. CacheTypes' /\ journal' \in [Oids -> Order \cup {NoOrder}]
  BY <1>1, <1>2, NotNoOrder, PersistTypes
     DEF SubmittedWritten, WriteRaises, CacheTypes, VenueInv, TypeOK
<1>6. faults' \in 0 .. MaxFaults /\ restarts' = restarts /\ fillLog' = fillLog
        /\ latestBook' = latestBook /\ lost' \subseteq Oids
  BY <1>1, OrderPathAssumption DEF SubmittedWritten, WriteRaises, VenueInv, TypeOK
<1> QED BY <1>4, <1>5, <1>6, PartsMakeTypeOK DEF VenueInv, TypeOK

LEMMA RestartTypes == ASSUME VenueInv, Restart PROVE TypeOK'
<1>1. VenueTypes' /\ CacheTypes'
  BY OrderPathAssumption DEF Restart, VenueTypes, CacheTypes, VenueInv, TypeOK, Oids
<1>2. queue' = <<>> /\ \A t \in Tasks : tasks'[t] = Idle
  BY DEF Restart
<1>3. LoopOK' /\ \A t \in Tasks : CallOK(t)'
  BY <1>2 DEF Restart, LoopOK, CallOK, Idle
<1>4. restarts' \in 0 .. MaxRestarts
  BY OrderPathAssumption DEF Restart, VenueInv, TypeOK
<1> QED BY <1>1, <1>3, <1>4 DEF Restart, TypeOK, VenueInv, VenueTypes, CacheTypes, LoopOK

-----------------------------------------------------------------------------
(* The theorems. *)

LEMMA VenueInvInductive == VenueInv /\ [Next]_<<vars, wiring>> => VenueInv'
<1> SUFFICES ASSUME VenueInv, [Next]_<<vars, wiring>> PROVE VenueInv'
  OBVIOUS
<1>1. TypeOK'
  <2>1. CASE UNCHANGED <<vars, wiring>>
    BY <2>1 DEF vars, venueVars, VenueInv, TypeOK, CallOK
  <2>2. CASE Restart
    BY <2>2, RestartTypes
  <2>3. ASSUME NEW t \in Tasks, Step(t) PROVE TypeOK'
    BY <2>3, SubmitTypes, OrderbookTypes, CancelTypes, FillsResumeTypes, CancelResumesTypes,
       FillTypes, FillRowTypes, EndTypes DEF Step, WriteCompletes
  <2> QED BY <2>1, <2>2, <2>3 DEF Next
<1>2. VenueStep
  BY CallsMakeVenueSteps
<1> QED BY <1>1, <1>2, VenueStepKeepsInv DEF VenueInv, TypeOK

LEMMA VenueInvInit == Init => VenueInv
<1> SUFFICES ASSUME Init PROVE VenueInv
  OBVIOUS
<1>1. TypeOK
  <2>1. \A t \in Tasks : CallOK(t)
    <3>1. \A t \in Tasks : tasks[t] = Idle
      BY DEF Init
    <3>2. ~ \E i \in DOMAIN queue : TRUE
      BY DEF Init
    <3>3. Idle.call = "none" /\ Idle.awaits = "nothing"
      BY DEF Idle
    <3> QED BY <3>1, <3>2, <3>3 DEF CallOK
  <2>2. \A o \in Oids : ~ o <= nextOid
    BY OrderPathAssumption DEF Init, Oids
  <2> QED BY <2>1, <2>2, OrderPathAssumption DEF Init, TypeOK, NoBook
<1>2. OpenIffWorking /\ NeverOverfilled
  BY DEF Init, OpenIffWorking, NeverOverfilled, NoOrder
<1> QED BY <1>1, <1>2 DEF VenueInv

\* Every reachable state is well typed: whatever the calls in flight, a task
\* waits for exactly one write and finds what it needs when it resumes.
THEOREM TypeCorrect == Spec => []TypeOK
<1>1. VenueInv => TypeOK
  BY DEF VenueInv
<1> QED BY <1>1, VenueInvInit, VenueInvInductive, PTL DEF Spec

\* The venue's two dicts agree and no order is overfilled, for every number of
\* concurrent calls, however write failures and restarts cut them short.
THEOREM VenueSafe == Spec => [](OpenIffWorking /\ NeverOverfilled)
<1>1. VenueInv => OpenIffWorking /\ NeverOverfilled
  BY DEF VenueInv
<1> QED BY <1>1, VenueInvInit, VenueInvInductive, PTL DEF Spec

\* No order is filled beyond its quantity, and it is FILLED just when nothing
\* of it remains, though any number of ticks and placing calls fill it at once.
THEOREM NoOverfill == Spec => []NeverOverfilled
BY VenueSafe, PTL

-----------------------------------------------------------------------------
(* Refinement. *)

LEMMA ViewOfOrder ==
  /\ View(NoOrder) = VenueOrders!Absent
  /\ \A order \in Order :
       /\ View(order).status = order.status
       /\ View(order).filled = order.filled
       /\ View(order).quantity = order.req.quantity
       /\ View(order) = [status |-> order.status, filled |-> order.filled,
                         quantity |-> order.req.quantity]
BY NotNoOrder DEF View, VenueOrders!Absent

LEMMA VenueStepRefines ==
  ASSUME VenueInv, VenueStep
  PROVE  [VenueOrders!Next]_VenueView
<1> USE DEF VenueView
<1>1. CASE UNCHANGED <<allOrders, openOrders>>
  BY <1>1
<1>2. ASSUME NEW o \in Oids, NEW order \in Order, Placed(o, order)
      PROVE  VenueOrders!Accept(o)
  <2>1. VenueView[o] = VenueOrders!Absent
    BY <1>2, ViewOfOrder DEF Placed
  <2>2. order.req.quantity \in Quantities
    BY DEF Order, Quantities
  <2>3. VenueView' = [VenueView EXCEPT ![o] = View(order)]
    BY <1>2 DEF Placed, VenueInv, TypeOK
  <2>4. View(order) = [status |-> order.status, filled |-> 0, quantity |-> order.req.quantity]
    BY <1>2, ViewOfOrder DEF Placed
  <2>5. order.status \in {"ACKED", "REJECTED"}
    BY <1>2 DEF Placed
  <2> QED BY <2>1, <2>2, <2>3, <2>4, <2>5 DEF VenueOrders!Accept
<1>3. ASSUME NEW o \in Oids, NEW n \in Nat, NEW time \in Nat, Filled(o, n, time)
      PROVE  VenueOrders!Fill(o)
  <2> DEFINE order == allOrders[o]
             total == order.filled + n
             after == [order EXCEPT !.filled = total, !.status = StatusAfter(total, order.req),
                                    !.updated = time]
  <2>1. order \in Order /\ order.filled \in Nat /\ order.req.quantity \in Nat
    BY <1>3, OrderPathAssumption DEF Filled, VenueInv, TypeOK, OpenIffWorking, NoOrder, Order
  <2>2. after \in Order /\ after.req = order.req /\ after.filled = total
          /\ after.status = StatusAfter(total, order.req)
    <3>1. StatusAfter(total, order.req) \in Terminal \cup Working
      BY DEF StatusAfter, Terminal, Working
    <3>2. total \in Nat
      BY <2>1
    <3> HIDE DEF total, order
    <3> QED BY <2>1, <3>1, <3>2 DEF Order
  <2>3. /\ o \in openOrders /\ n > 0 /\ total <= order.req.quantity
        /\ allOrders' = [allOrders EXCEPT ![o] = after]
    BY <1>3 DEF Filled
  <2> HIDE DEF after
  <2>4. VenueView[o].status \in VenueOrders!Working
    BY <2>1, <2>3, ViewOfOrder DEF VenueOrders!Working, VenueInv, OpenIffWorking
  <2>5. VenueView' = [VenueView EXCEPT ![o] = View(after)]
    BY <2>3 DEF VenueInv, TypeOK
  <2>6. View(after) = [status   |-> IF total = order.req.quantity THEN "FILLED"
                                    ELSE "PARTIALLY_FILLED",
                       filled   |-> total,
                       quantity |-> order.req.quantity]
    <3>1. StatusAfter(total, order.req) =
            IF total = order.req.quantity THEN "FILLED" ELSE "PARTIALLY_FILLED"
      BY <2>1, <2>3 DEF StatusAfter
    <3> QED BY <2>2, <3>1, ViewOfOrder
  <2>7. VenueView[o].filled = order.filled /\ VenueView[o].quantity = order.req.quantity
    BY <2>1, ViewOfOrder
  <2>8. n \in 1 .. (VenueView[o].quantity - VenueView[o].filled)
    BY <2>1, <2>3, <2>7
  <2>9. VenueView' =
          [VenueView EXCEPT ![o] =
             [status   |-> IF VenueView[o].filled + n = VenueView[o].quantity THEN "FILLED"
                           ELSE "PARTIALLY_FILLED",
              filled   |-> VenueView[o].filled + n,
              quantity |-> VenueView[o].quantity]]
    BY <2>5, <2>6, <2>7
  <2> HIDE DEF VenueView
  <2> QED BY <2>4, <2>8, <2>9 DEF VenueOrders!Fill
<1>4. ASSUME NEW o \in Oids, NEW time \in Nat, Cancelled(o, time)
      PROVE  VenueOrders!Cancel(o)
  <2> DEFINE after == [allOrders[o] EXCEPT !.status = "CANCELLED", !.updated = time]
  <2>1. allOrders[o] \in Order
    BY <1>4 DEF Cancelled, VenueInv, TypeOK, OpenIffWorking, NoOrder
  <2>2. after \in Order /\ after.req = allOrders[o].req /\ after.status = "CANCELLED"
          /\ after.filled = allOrders[o].filled
    BY <2>1 DEF Order, Terminal
  <2>3. o \in openOrders /\ allOrders' = [allOrders EXCEPT ![o] = after]
    BY <1>4 DEF Cancelled
  <2> HIDE DEF after
  <2>4. VenueView[o].status \in VenueOrders!Working
    BY <2>1, <2>3, ViewOfOrder DEF VenueOrders!Working, VenueInv, OpenIffWorking
  <2>5. VenueView' = [VenueView EXCEPT ![o] = View(after)]
    BY <2>3 DEF VenueInv, TypeOK
  <2>6. View(after) = [VenueView[o] EXCEPT !.status = "CANCELLED"]
    BY <2>1, <2>2, ViewOfOrder
  <2> QED BY <2>4, <2>5, <2>6 DEF VenueOrders!Cancel
<1>5. CASE Forgotten
  BY <1>5, ViewOfOrder DEF Forgotten, VenueOrders!Next, VenueOrders!Forget
<1> QED BY <1>1, <1>2, <1>3, <1>4, <1>5 DEF VenueStep, VenueOrders!Next

\* PaperVenue's orders follow the order life cycle: accepted or refused once,
\* filled in positive steps up to the quantity, never changed once closed.
THEOREM VenueImplementsLifecycle == Spec => VenueFollowsLifecycle
<1>1. Init => VenueOrders!Init
  BY ViewOfOrder DEF Init, VenueOrders!Init, VenueView
<1>2. VenueInv /\ [Next]_<<vars, wiring>> => [VenueOrders!Next]_VenueView
  BY CallsMakeVenueSteps, VenueStepRefines
<1> QED BY <1>1, <1>2, VenueInvInit, VenueInvInductive, PTL
        DEF Spec, VenueFollowsLifecycle, VenueOrders!Spec

=============================================================================
