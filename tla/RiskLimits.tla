------------------------------ MODULE RiskLimits ------------------------------
(***************************************************************************)
(* Limits on positions, from the venue's report to the order gate.         *)
(*                                                                         *)
(* DefaultPositionManager caches what the venue reported at the last       *)
(* reconcile; the four breakers without memory judge that cache, once for  *)
(* every order (DefaultRiskManager.check) and once per tick of the         *)
(* supervisor (DefaultRiskManager.tick).  Between two ticks the cache is   *)
(* old; a tick whose breaker cancels orders waits for each cancel while    *)
(* orders are checked, placed and closed.                                  *)
(*                                                                         *)
(* The venue is whatever reports positions: PaperVenue reports leverage 1  *)
(* and no liquidation price, an exchange reports both.  One order stands   *)
(* for one id that may be used again once it is closed.                    *)
(***************************************************************************)
EXTENDS Integers, Sequences, FiniteSetsExt

CONSTANTS
  Symbols,
  Orders,       \* bound: orders open at once
  Reports,      \* the positions the venue may report of a symbol
  Wirings,      \* the lists of breakers, [kind, limit, action] each
  MaxFailures   \* bound: calls of the venue that raise

VARIABLES
  wiring,     \* DefaultRiskManager._breakers
  venue,      \* what the venue would report now
  cached,     \* DefaultPositionManager._positions
  orders,     \* the open orders, at the venue and in the OMS's cache
  state,      \* DefaultSupervisor._state
  tick,       \* where the tick task is; in a handler, with the breaker, the
              \* context the tick began with and the orders yet to cancel
  ack,        \* where an acknowledge is
  failures

vars == <<wiring, venue, cached, orders, state, tick, ack, failures>>

NoPosition == [quantity |-> 0, mark |-> 0, leverage |-> 0, liquidation |-> -1]
NoLiquidation == -1

Actions == {"REJECT_NEW", "CANCEL_ALL", "QUARANTINE", "FLATTEN"}
Kinds == {"Leverage", "PositionNotional", "LiquidationDistance", "FundingSpike"}

Position == [quantity : Int \ {0}, mark : Int, leverage : Nat, liquidation : Nat \cup {NoLiquidation}]

\* The constructors refuse a limit that is not positive.
ASSUME LimitsArePositive ==
  /\ Reports \subseteq Position
  /\ \A w \in Wirings : \A k \in DOMAIN w :
       w[k].limit > 0 /\ w[k].action \in Actions /\ w[k].kind \in Kinds

-----------------------------------------------------------------------------
\* RiskContext: the cached positions, with a funding cache nothing fills yet.
NoFunding == [s \in {} |-> 0]
Context(positions) == [positions |-> {positions[s] : s \in Symbols} \ {NoPosition},
                       funding |-> NoFunding]

Abs(n) == IF n < 0 THEN -n ELSE n

OverLeveraged(b, ctx) == \E p \in ctx.positions : p.leverage > b.limit

OverNotional(b, ctx) == \E p \in ctx.positions : Abs(p.quantity) * p.mark > b.limit

\* The limit in per cent of the mark price.
NearLiquidation(b, ctx) ==
  \E p \in ctx.positions :
    /\ p.liquidation # NoLiquidation
    /\ p.mark > 0
    /\ 100 * Abs(p.mark - p.liquidation) < b.limit * p.mark

FundingSpikes(b, ctx) == \E s \in DOMAIN ctx.funding : Abs(ctx.funding[s]) > b.limit

Trips(b, ctx) ==
  CASE b.kind = "Leverage" -> OverLeveraged(b, ctx)
    [] b.kind = "PositionNotional" -> OverNotional(b, ctx)
    [] b.kind = "LiquidationDistance" -> NearLiquidation(b, ctx)
    [] b.kind = "FundingSpike" -> FundingSpikes(b, ctx)

Tripped(ctx) == {k \in DOMAIN wiring : Trips(wiring[k], ctx)}

Approves == Tripped(Context(cached)) = {}

-----------------------------------------------------------------------------
RefreshedByMerge(old, reported) ==   \* mutant: what the venue no longer reports stays
  [s \in Symbols |-> IF reported[s] = NoPosition THEN old[s] ELSE reported[s]]

\* What reconcile leaves in the cache: the venue's answer, nothing older.
Refreshed(old, reported) == reported

MayFail == failures < MaxFailures

\* Whether a breaker's handler does anything: the gate alone rejects new
\* orders, and quarantine is ignored unless RUNNING.
Handled(b) ==
  CASE b.action = "REJECT_NEW" -> FALSE
    [] b.action = "CANCEL_ALL" -> orders # {}
    [] b.action = "QUARANTINE" -> state = "RUNNING"
    [] b.action = "FLATTEN" -> orders # {} \/ state = "RUNNING"

HandlesFirst(k, ctx) ==   \* mutant: the tick stops at the first trip, as check does
  {j \in Tripped(ctx) : j >= k /\ Handled(wiring[j]) /\ \A i \in Tripped(ctx) : j <= i}

\* The trips, from the k-th breaker on, whose handler does anything.
Handles(k, ctx) == {j \in Tripped(ctx) : j >= k /\ Handled(wiring[j])}

Asleep == [at |-> "asleep"]

\* DefaultSupervisor._transition, whose log write the handler awaits.
Enter(k, ctx) ==
  state' = "QUARANTINE" /\ tick' = [at |-> "logging", k |-> k, ctx |-> ctx]

\* cancel_all takes the list of the open orders; with none it does not wait.
Cancels(at, k, ctx) ==
  IF orders # {}
    THEN tick' = [at |-> at, k |-> k, ctx |-> ctx, rest |-> orders] /\ UNCHANGED state
    ELSE Enter(k, ctx)

\* DefaultRiskManager.tick publishes the trips in turn; each is handled
\* (DefaultSupervisor._on_breaker_tripped) before the next is evaluated.
RunBreakers(k, ctx) ==
  LET next == Handles(k, ctx)
      j == Min(next)
  IN  IF next = {}
        THEN tick' = Asleep /\ UNCHANGED state
        ELSE Cancels(IF wiring[j].action = "QUARANTINE" THEN "quarantining" ELSE "cancelling", j, ctx)

TickReconciles ==
  /\ tick = Asleep
  /\ \/ cached' = Refreshed(cached, venue) /\ UNCHANGED failures
     \/ MayFail /\ failures' = failures + 1 /\ UNCHANGED cached
  /\ tick' = [at |-> "journal"]
  /\ UNCHANGED <<wiring, venue, orders, state, ack>>

TickEvaluates ==
  /\ tick.at = "journal"
  /\ RunBreakers(1, Context(cached))
  /\ UNCHANGED <<wiring, venue, cached, orders, ack, failures>>

\* The venue has executed a cancel; the handler learns of it in a later step.
CancelExecuted ==
  /\ tick.at \in {"cancelling", "quarantining"}
  /\ \E o \in tick.rest :
       /\ orders' = orders \ {o}
       /\ tick' = [at |-> tick.at, k |-> tick.k, ctx |-> tick.ctx, rest |-> tick.rest \ {o}]
  /\ UNCHANGED <<wiring, venue, cached, state, ack, failures>>

\* FLATTEN has cancelled the orders and may quarantine.
Quarantines ==
  tick.at = "cancelling" /\ wiring[tick.k].action = "FLATTEN" /\ state = "RUNNING"

\* cancel_all returns, or raises at one of its orders and is given up: FLATTEN
\* goes on to quarantine, and quarantine to its transition, whatever the state
\* has become.
CancelAllEnds ==
  /\ tick.at \in {"cancelling", "quarantining"}
  /\ \/ tick.rest = {} /\ UNCHANGED failures
     \/ tick.rest # {} /\ MayFail /\ failures' = failures + 1
  /\ \/ tick.at = "quarantining" /\ Enter(tick.k, tick.ctx)
     \/ Quarantines /\ Cancels("quarantining", tick.k, tick.ctx)
     \/ tick.at = "cancelling" /\ ~Quarantines /\ RunBreakers(tick.k + 1, tick.ctx)
  /\ UNCHANGED <<wiring, venue, cached, orders, ack>>

\* The transition is logged and announced.
LogWritten ==
  /\ tick.at = "logging"
  /\ RunBreakers(tick.k + 1, tick.ctx)
  /\ UNCHANGED <<wiring, venue, cached, orders, ack, failures>>

Tick == TickReconciles \/ TickEvaluates \/ CancelExecuted \/ CancelAllEnds \/ LogWritten

-----------------------------------------------------------------------------
\* An operator acknowledges: reconcile refreshes the cache outside of the
\* tick, or raises and leaves the system RECONCILING.
Acknowledge ==
  /\ ack = "none" /\ state = "QUARANTINE"
  /\ state' = "RECONCILING" /\ ack' = "reconcile"
  /\ UNCHANGED <<wiring, venue, cached, orders, tick, failures>>

AckReconciles ==
  /\ ack = "reconcile"
  /\ \/ cached' = Refreshed(cached, venue) /\ ack' = "journal" /\ UNCHANGED failures
     \/ MayFail /\ failures' = failures + 1 /\ ack' = "none" /\ UNCHANGED cached
  /\ UNCHANGED <<wiring, venue, orders, state, tick>>

AckResumes ==
  /\ ack = "journal"
  /\ ack' = "none" /\ state' = "RUNNING"
  /\ UNCHANGED <<wiring, venue, cached, orders, tick, failures>>

\* DefaultExecutor.submit_intent: nothing suspends between the check and the
\* venue's acceptance, and nothing but the check is asked.
SubmitIntent ==
  /\ Approves
  /\ \E o \in Orders \ orders : orders' = orders \cup {o}
  /\ UNCHANGED <<wiring, venue, cached, state, tick, ack, failures>>

\* An order is filled or cancelled by its owner.
OrderCloses ==
  /\ \E o \in orders : orders' = orders \ {o}
  /\ UNCHANGED <<wiring, venue, cached, state, tick, ack, failures>>

\* Prices move, positions are opened, changed and closed.
VenueMoves ==
  /\ \E s \in Symbols, p \in Reports \cup {NoPosition} : venue' = [venue EXCEPT ![s] = p]
  /\ UNCHANGED <<wiring, cached, orders, state, tick, ack, failures>>

\* The supervisor has just reconciled and is RUNNING.
Init ==
  /\ wiring \in Wirings
  /\ venue \in [Symbols -> Reports \cup {NoPosition}] /\ cached = venue
  /\ orders = {} /\ state = "RUNNING" /\ tick = Asleep /\ ack = "none" /\ failures = 0

Next ==
  \/ Tick
  \/ Acknowledge \/ AckReconciles \/ AckResumes
  \/ SubmitIntent \/ OrderCloses \/ VenueMoves

\* The clock's sleep ends, and what the tick awaits answers or raises.
Spec == Init /\ [][Next]_vars /\ WF_vars(Tick)

-----------------------------------------------------------------------------
\* What the venue reports at this moment breaks a limit.
Endangered == Tripped(Context(venue)) # {}

\* It breaks a limit whose breaker cancels the open orders in every state.
CancelsOrders ==
  \E k \in Tripped(Context(venue)) : wiring[k].action \in {"CANCEL_ALL", "FLATTEN"}

\* The gate comes to follow the venue: limits that stay broken close it for
\* good, limits that stay kept leave it open for good, though reconcile
\* replaces the cache only once per tick and may raise (pms/default.py:70-77,
\* risk/default.py:58-67).
GateFollowsVenue ==
  /\ <>[]Endangered => <>[]~Approves
  /\ <>[]~Endangered => <>[]Approves

\* While a CANCEL_ALL or FLATTEN limit stays broken every open order goes,
\* those placed while the handler was cancelling others too, and none
\* follows, whatever else has tripped and whichever call raised
\* (risk/default.py:69-82, supervisor/default.py:272-294).
OrdersGoWhileTripped == <>[]CancelsOrders => <>[](orders = {})

\* The types of the variables.
TypeOK ==
  /\ wiring \in Wirings
  /\ {venue, cached} \subseteq [Symbols -> Reports \cup {NoPosition}]
  /\ orders \subseteq Orders
  /\ state \in {"RUNNING", "QUARANTINE", "RECONCILING"}
  /\ tick.at \in {"asleep", "journal", "cancelling", "quarantining", "logging"}
  /\ ack \in {"none", "reconcile", "journal"}
  /\ failures \in Nat

\* The supervisor cancels orders and quarantines for a breaker that trips in
\* the context of this tick and whose action says so, though the list is gone
\* through over several suspensions: never for one that only rejects, never
\* CANCEL_ALL's to quarantine (risk/default.py:71-82,
\* supervisor/default.py:272-294).
ActsForATrip ==
  tick.at \notin {"asleep", "journal"} =>
    /\ tick.k \in Tripped(tick.ctx)
    /\ wiring[tick.k].action \in IF tick.at = "cancelling" THEN {"CANCEL_ALL", "FLATTEN"}
                                                           ELSE {"QUARANTINE", "FLATTEN"}

=============================================================================
