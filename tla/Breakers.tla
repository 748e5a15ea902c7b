------------------------------- MODULE Breakers -------------------------------
(***************************************************************************)
(* The breakers that remember (risk/breakers/drawdown.py, rate_limit.py,   *)
(* consecutive_error.py, heartbeat.py) as DefaultRiskManager evaluates     *)
(* them (risk/default.py): by check, for each intent, up to the first that *)
(* trips, and by the supervisor's tick, all of them in the one context the *)
(* tick began with, while the handlers of those that trip may suspend it.  *)
(***************************************************************************)
EXTENDS Integers, Sequences, FiniteSets

CONSTANTS
  Wirings,       \* the lists of breakers a DefaultRiskManager is built with
  Suspending,    \* breakers whose action may suspend: all but REJECT_NEW's
  Equities,      \* values of balance.total
  Percent,       \* DrawdownBreaker's threshold, in percent
  Window,        \* the window of each breaker that has one
  Limit,         \* how many errors trip each breaker that counts them
  Cooldown,      \* RateLimitBreaker's
  Silence,       \* HeartbeatBreaker's threshold
  Watched,       \* the components HeartbeatBreaker watches
  MaxTime,       \* bound on the clock
  MaxErrors,     \* bound: errors published
  MaxAcks        \* bound: acknowledges in flight at once

Counting == {"RateLimit", "ConsecutiveError"}
Names == Counting \cup {"Drawdown", "Heartbeat"}

ASSUME BreakersAssumption ==
  /\ Wirings \subseteq Seq(Names)
  /\ Suspending \subseteq Names
  /\ Equities \subseteq Int
  /\ Percent \in Nat \ {0}
  /\ Window \in [{"Drawdown"} \cup Counting -> Nat]
  /\ Limit \in [Counting -> Nat \ {0}]
  /\ Cooldown \in Nat /\ Silence \in Nat
  /\ MaxTime \in Nat /\ MaxErrors \in Nat /\ MaxAcks \in Nat

VARIABLES
  breakers,      \* DefaultRiskManager._breakers
  now,           \* the clock
  balance,       \* total of the balance the position manager caches
  tick,          \* the tick: asleep, reconciling, writing snapshots, or in the
                 \* handler of a trip
  acks,          \* acknowledges announced that have yet to reconcile
  history,       \* DrawdownBreaker._equity_history
  latched,       \* DrawdownBreaker._latched
  errors,        \* the errors published, in order: when, and who counts them
  kept,          \* per counting breaker, the errors in its _error_times
  trippedUntil,  \* RateLimitBreaker._tripped_until
  lastSeen,      \* HeartbeatBreaker._last_seen
  observed,      \* auxiliary: all that went into history since it was cleared
  trips,         \* auxiliary: how often RateLimitBreaker tripped anew
  trippedAt      \* auxiliary: and when it last did

vars == <<breakers, now, balance, tick, acks, history, latched, errors, kept, trippedUntil,
          lastSeen, observed, trips, trippedAt>>

Never == -1      \* stands for None where a time is expected
Times == 0 .. MaxTime
Context == [time : Times, equity : Equities]

Wired == {breakers[i] : i \in DOMAIN breakers}
Asleep == [at |-> "sleep"]

-----------------------------------------------------------------------------
(* evaluate, breaker by breaker, in a context. *)

RecentStrictly(b, time, then) == then > time - Window[b]   \* mutant: t > cutoff

Recent(b, time, then) == then >= time - Window[b]

Beyond(peak, equity) == peak > 0 /\ 100 * (peak - equity) > Percent * peak

\* The history once the context's equity is recorded and the old are pruned.
Recorded(ctx) == {o \in history \cup {ctx} : Recent("Drawdown", ctx.time, o.time)}

PeakEver(ctx) ==   \* mutant: the peak is kept over the window's end
  \E o \in observed : (\A p \in observed : p.equity <= o.equity) /\ Beyond(o.equity, ctx.equity)

\* The equity is too far below the peak of the history.
Fallen(ctx) ==
  \E o \in Recorded(ctx) : /\ \A p \in Recorded(ctx) : p.equity <= o.equity
                           /\ Beyond(o.equity, ctx.equity)

Cooling(ctx) == trippedUntil # Never /\ ctx.time < trippedUntil

CountedAfterCooldown(b, ctx) ==   \* mutant: the errors outlive the cooldown
  {k \in kept[b] : Recent(b, ctx.time, errors[k].time)}

\* The errors that count.  A cooldown that is over leaves none behind.
Counted(b, ctx) ==
  {k \in kept[b] : /\ Recent(b, ctx.time, errors[k].time)
                   /\ b = "RateLimit" => trippedUntil = Never}

Burst(b, ctx) == Cardinality(Counted(b, ctx)) >= Limit[b]

TripsWithoutCooldown(b, ctx) ==   \* mutant: the cooldown is not consulted
  CASE b = "Drawdown"  -> latched \/ Fallen(ctx)
    [] b \in Counting  -> Burst(b, ctx)
    [] b = "Heartbeat" -> FALSE

Trips(b, ctx) ==
  CASE b = "Drawdown"         -> latched \/ Fallen(ctx)
    [] b = "RateLimit"        -> Cooling(ctx) \/ Burst(b, ctx)
    [] b = "ConsecutiveError" -> Burst(b, ctx)
    [] b = "Heartbeat"        ->
         \E c \in Watched : lastSeen[c] # Never /\ ctx.time - lastSeen[c] > Silence

\* What evaluating the breakers B does to them.
Evaluate(B, ctx) ==
  /\ IF "Drawdown" \in B /\ ~latched
     THEN /\ history' = Recorded(ctx)
          /\ observed' = observed \cup {ctx}
          /\ latched' = Fallen(ctx)
     ELSE UNCHANGED <<history, observed, latched>>
  /\ IF "RateLimit" \in B /\ ~Cooling(ctx)
     THEN IF Burst("RateLimit", ctx)
          THEN trippedUntil' = ctx.time + Cooldown /\ trips' = trips + 1 /\ trippedAt' = now
          ELSE trippedUntil' = Never /\ UNCHANGED <<trips, trippedAt>>
     ELSE UNCHANGED <<trippedUntil, trips, trippedAt>>
  /\ kept' = [b \in Counting |->
                IF b \in B /\ (b = "RateLimit" => ~Cooling(ctx)) THEN Counted(b, ctx) ELSE kept[b]]

-----------------------------------------------------------------------------
(* The risk manager. *)

Evaluated(i, j) == {breakers[k] : k \in i .. j}

\* tick from the i-th breaker on: to the end, or to one whose trip suspends.
RunBreakers(i, ctx) ==
  \/ /\ Evaluate(Evaluated(i, Len(breakers)), ctx)
     /\ tick' = Asleep
  \/ \E j \in i .. Len(breakers) :
       /\ breakers[j] \in Suspending /\ Trips(breakers[j], ctx)
       /\ Evaluate(Evaluated(i, j), ctx)
       /\ tick' = [at |-> "handler", breaker |-> j, ctx |-> ctx]

Here == [time |-> now, equity |-> balance]

\* The breaker check stops at, or the last.
StopsAt(j) ==
  /\ j \in DOMAIN breakers
  /\ \A i \in 1 .. j - 1 : ~Trips(breakers[i], Here)
  /\ j = Len(breakers) \/ Trips(breakers[j], Here)

Check ==
  /\ \E j \in DOMAIN breakers : StopsAt(j) /\ Evaluate(Evaluated(1, j), Here)
  /\ UNCHANGED <<breakers, now, balance, tick, acks, errors, lastSeen>>

\* The supervisor's tick publishes its own heartbeat, then reconciles ...
TickWakes ==
  /\ tick = Asleep
  /\ tick' = [at |-> "reconcile"]
  /\ lastSeen' = [c \in Watched |-> IF c = "Supervisor" THEN now ELSE lastSeen[c]]
  /\ UNCHANGED <<breakers, now, balance, acks, history, latched, errors, kept, trippedUntil,
                 observed, trips, trippedAt>>

\* ... so does an acknowledge: the balance is read, then snapshots are written ...
Reconcile ==
  /\ \/ tick.at = "reconcile" /\ tick' = [at |-> "snapshots"] /\ UNCHANGED acks
     \/ acks > 0 /\ acks' = acks - 1 /\ UNCHANGED tick
  /\ balance' \in Equities
  /\ UNCHANGED <<breakers, now, history, latched, errors, kept, trippedUntil, lastSeen,
                 observed, trips, trippedAt>>

\* ... and whether it returned or raised, the tick goes on to the risk manager.
TickReconciled ==
  /\ tick.at \in {"reconcile", "snapshots"}
  /\ RunBreakers(1, Here)
  /\ UNCHANGED <<breakers, now, balance, acks, errors, lastSeen>>

\* The handler of a trip returns, and the tick goes on in its old context.
HandlerReturns ==
  /\ tick.at = "handler"
  /\ RunBreakers(tick.breaker + 1, tick.ctx)
  /\ UNCHANGED <<breakers, now, balance, acks, errors, lastSeen>>

-----------------------------------------------------------------------------
(* What breakers hear, and the world. *)

AcknowledgeKeepsHistory ==   \* mutant: only the latch is cleared
  /\ acks < MaxAcks /\ acks' = acks + 1
  /\ latched' = FALSE /\ observed' = {}
  /\ UNCHANGED <<breakers, now, balance, tick, history, errors, kept, trippedUntil,
                 lastSeen, trips, trippedAt>>

\* QUARANTINE -> RECONCILING.  The supervisor may be quarantined without a
\* trip of this breaker.
Acknowledge ==
  /\ acks < MaxAcks /\ acks' = acks + 1
  /\ latched' = FALSE
  /\ history' = {} /\ observed' = {}
  /\ UNCHANGED <<breakers, now, balance, tick, errors, kept, trippedUntil, lastSeen,
                 trips, trippedAt>>

\* ErrorOccurred: each counting breaker has a filter of its own.
Error(heard) ==
  /\ heard # {} /\ heard \subseteq Wired \cap Counting
  /\ Len(errors) < MaxErrors
  /\ errors' = Append(errors, [time |-> now, heard |-> heard])
  /\ kept' = [b \in Counting |-> IF b \in heard THEN kept[b] \cup {Len(errors')} ELSE kept[b]]
  /\ UNCHANGED <<breakers, now, balance, tick, acks, history, latched, trippedUntil, lastSeen,
                 observed, trips, trippedAt>>

\* Heartbeat of a watched component.
Beat(c) ==
  /\ "Heartbeat" \in Wired /\ lastSeen' = [lastSeen EXCEPT ![c] = now]
  /\ UNCHANGED <<breakers, now, balance, tick, acks, history, latched, errors, kept,
                 trippedUntil, observed, trips, trippedAt>>

TimePasses ==
  /\ now < MaxTime /\ now' = now + 1
  /\ UNCHANGED <<breakers, balance, tick, acks, history, latched, errors, kept, trippedUntil,
                 lastSeen, observed, trips, trippedAt>>

-----------------------------------------------------------------------------

Init ==
  /\ breakers \in Wirings
  /\ now = 0 /\ balance \in Equities
  /\ tick = Asleep /\ acks = 0
  /\ history = {} /\ observed = {} /\ latched = FALSE
  /\ errors = <<>> /\ kept = [b \in Counting |-> {}]
  /\ trippedUntil = Never /\ trips = 0 /\ trippedAt = Never
  /\ lastSeen = [c \in Watched |-> Never]

Next ==
  \/ Check \/ TickWakes \/ Reconcile \/ TickReconciled \/ HandlerReturns
  \/ Acknowledge \/ \E heard \in SUBSET Counting : Error(heard)
  \/ \E c \in Watched : Beat(c)
  \/ TimePasses

Spec == Init /\ [][Next]_vars

-----------------------------------------------------------------------------
(* Properties. *)

\* Every variable has its type; nothing remembered is of the future, a counting
\* breaker keeps errors it has heard, and a tick waits in the handler of a
\* breaker that may suspend it.
TypeOK ==
  /\ breakers \in Wirings /\ now \in Times /\ balance \in Equities
  /\ acks \in 0 .. MaxAcks
  /\ tick \in {Asleep, [at |-> "reconcile"], [at |-> "snapshots"]}
       \cup [at : {"handler"}, breaker : DOMAIN breakers, ctx : Context]
  /\ tick.at = "handler" => tick.ctx.time <= now /\ breakers[tick.breaker] \in Suspending
  /\ latched \in BOOLEAN
  /\ history \subseteq observed /\ observed \subseteq Context
  /\ \A o \in observed : o.time <= now
  /\ errors \in Seq([time : Times, heard : SUBSET Counting])
  /\ kept \in [Counting -> SUBSET DOMAIN errors]
  /\ \A b \in Counting : \A k \in kept[b] : b \in errors[k].heard
  /\ \A k \in DOMAIN errors : errors[k].time <= now
  /\ trippedUntil \in Nat \cup {Never} /\ trippedAt \in Times \cup {Never} /\ trips \in Nat
  /\ lastSeen \in [Watched -> Times \cup {Never}]

\* A fall beyond the threshold within the window latches, whichever of tick
\* and check saw the peak and the trough: pruning forgets no peak too early.
NoDrawdownMissed ==
  ~latched => \A o, p \in observed :
    o.time < p.time /\ p.time - o.time <= Window["Drawdown"] => ~Beyond(o.equity, p.equity)

\* It latches on nothing else: neither on a peak older than the window nor on
\* one from before the acknowledge ("the peak resets fresh from that point",
\* breakers/drawdown.py:10-11).
LatchedByDrawdown ==
  latched => \E o, p \in observed :
    /\ o.time <= p.time /\ p.time - o.time <= Window["Drawdown"]
    /\ Beyond(o.equity, p.equity)

\* check would approve an intent now.
Approves == \A b \in Wired : ~Trips(b, Here)

\* RateLimitBreaker "trips and stays tripped for cooldown - even if more
\* errors arrive, no new orders can be placed" (breakers/rate_limit.py:7-9).
NoOrderInCooldown == trips > 0 /\ Approves => now >= trippedAt + Cooldown

HeardBy(b) == {k \in DOMAIN errors : b \in errors[k].heard}

\* An error serves for one cooldown only: the counter resets after each, so a
\* burst longer than the cooldown is not punished twice.
TripsNeedNewErrors == trips * Limit["RateLimit"] <= Cardinality(HeardBy("RateLimit"))

\* No order is approved while the errors of the last window reach the limit:
\* no evaluation, not even one that a suspended tick makes late, prunes an
\* error that still counts.
NoOrderAmidErrors ==
  "ConsecutiveError" \in Wired /\ Approves =>
    Cardinality({k \in HeardBy("ConsecutiveError") :
                   errors[k].time >= now - Window["ConsecutiveError"]})
      < Limit["ConsecutiveError"]

=============================================================================
