---------------------------- MODULE Breakers_proofs ----------------------------
(***************************************************************************)
(* Proofs about Breakers, for any wiring, windows, limits and length of    *)
(* time.  Whoever evaluates breakers does so in a context of the present   *)
(* or the past (StepsEvaluate); what follows is about Evaluate alone.      *)
(***************************************************************************)
EXTENDS Breakers, FiniteSetTheorems, WellFoundedInduction, TLAPS

memory == <<breakers, now, errors, history, latched, observed, kept, trippedUntil, trips,
            trippedAt>>

\* No breaker ahead of one of that name suspends the tick.
AheadOfSuspension(name) ==
  \A w \in Wirings : \A i, j \in DOMAIN w : w[i] = name /\ j < i => w[j] \notin Suspending

\* In the composition root DrawdownBreaker is the first (runtime/main.py:108).
DrawdownFirst == AheadOfSuspension("Drawdown")
RateLimitFirst == AheadOfSuspension("RateLimit")

\* A breaker among B that nothing suspends the tick ahead of sees the present.
EvaluatesNow(B, ctx) ==
  /\ B \subseteq Wired /\ ctx \in Context /\ ctx.time <= now
  /\ DrawdownFirst /\ "Drawdown" \in B => ctx.time = now
  /\ RateLimitFirst /\ "RateLimit" \in B => ctx.time = now
  /\ Evaluate(B, ctx)
  /\ UNCHANGED <<breakers, now, errors>>

-----------------------------------------------------------------------------

\* The clock's readings on record are numbers.
LEMMA TimesOnRecord ==
  ASSUME TypeOK
  PROVE  /\ now \in Times /\ now \in Int
         /\ \A k \in DOMAIN errors : errors[k].time \in Times /\ errors[k].time \in Int
         /\ \A o \in observed : o.time \in Times /\ o.time \in Int
         /\ \A t \in Times : t \in Int
<1>1. \A t \in Times : t \in Int
  BY DEF Times
<1>2. \A k \in DOMAIN errors : errors[k] \in [time : Times, heard : SUBSET Counting]
  <2> DEFINE E == [time : Times, heard : SUBSET Counting]
  <2>1. errors \in Seq(E)
    BY DEF TypeOK
  <2> HIDE DEF E
  <2>2. DOMAIN errors = 1 .. Len(errors)
    BY <2>1
  <2>3. \A k \in 1 .. Len(errors) : errors[k] \in E
    BY <2>1
  <2> QED BY <2>2, <2>3 DEF E
<1>3. \A k \in DOMAIN errors : errors[k].time \in Times
  BY <1>2
<1>4. \A o \in observed : o.time \in Times
  BY DEF TypeOK, Context
<1> QED BY <1>1, <1>3, <1>4 DEF TypeOK

\* Evaluating breakers keeps what they hold well typed.
LEMMA EvaluateTypes ==
  ASSUME TypeOK, NEW B, NEW ctx \in Context, ctx.time <= now,
         Evaluate(B, ctx), UNCHANGED <<now, errors>>
  PROVE  /\ latched' \in BOOLEAN
         /\ history' \subseteq observed' /\ observed' \subseteq Context
         /\ \A o \in observed' : o.time <= now
         /\ kept' \in [Counting -> SUBSET DOMAIN errors]
         /\ \A b \in Counting : \A k \in kept'[b] : b \in errors[k].heard
         /\ trippedUntil' \in Nat \cup {Never}
         /\ trippedAt' \in Times \cup {Never} /\ trips' \in Nat
<1>1. /\ latched' \in BOOLEAN
      /\ history' \subseteq observed' /\ observed' \subseteq Context
      /\ \A o \in observed' : o.time <= now
  <2>1. CASE "Drawdown" \in B /\ ~latched
    BY <2>1 DEF Evaluate, TypeOK, Recorded, Fallen
  <2>2. CASE ~("Drawdown" \in B /\ ~latched)
    BY <2>2 DEF Evaluate, TypeOK
  <2> QED BY <2>1, <2>2
<1>2. /\ kept' \in [Counting -> SUBSET DOMAIN errors]
      /\ \A b \in Counting : kept'[b] \subseteq kept[b]
  BY DEF Evaluate, TypeOK, Counted
<1>3. /\ trippedUntil' \in Nat \cup {Never}
      /\ trippedAt' \in Times \cup {Never} /\ trips' \in Nat
  BY BreakersAssumption DEF Evaluate, TypeOK, Context, Times
<1> QED BY <1>1, <1>2, <1>3 DEF TypeOK

\* A tick evaluates breakers in the context it is given.
LEMMA RunBreakersEvaluates ==
  ASSUME TypeOK, NEW i \in Nat \ {0}, NEW ctx \in Context, ctx.time <= now, RunBreakers(i, ctx),
         UNCHANGED <<breakers, now, errors>>
  PROVE  \E j \in Nat :
           /\ j <= Len(breakers) /\ Evaluate(Evaluated(i, j), ctx)
           /\ \/ tick' = Asleep
              \/ /\ tick' \in [at : {"handler"}, breaker : DOMAIN breakers, ctx : Context]
                 /\ tick'.ctx = ctx /\ breakers[tick'.breaker] \in Suspending
<1>1. breakers \in Seq(Names)
  BY BreakersAssumption DEF TypeOK
<1>2. CASE /\ Evaluate(Evaluated(i, Len(breakers)), ctx)
           /\ tick' = Asleep
  BY <1>1, <1>2
<1>3. CASE \E j \in i .. Len(breakers) :
             /\ breakers[j] \in Suspending /\ Trips(breakers[j], ctx)
             /\ Evaluate(Evaluated(i, j), ctx)
             /\ tick' = [at |-> "handler", breaker |-> j, ctx |-> ctx]
  <2>1. PICK j \in i .. Len(breakers) :
          /\ breakers[j] \in Suspending
          /\ Evaluate(Evaluated(i, j), ctx)
          /\ tick' = [at |-> "handler", breaker |-> j, ctx |-> ctx]
    BY <1>3
  <2>2. j \in DOMAIN breakers /\ j \in Nat /\ j <= Len(breakers)
    BY <1>1, <2>1
  <2> QED BY <2>1, <2>2
<1> QED BY <1>2, <1>3 DEF RunBreakers

\* What any step does to the breakers' memory.
LEMMA StepsEvaluate ==
  ASSUME TypeOK, [Next]_vars
  PROVE  \/ \E B : \E ctx : EvaluatesNow(B, ctx)
         \/ Acknowledge
         \/ \E heard \in SUBSET Counting : Error(heard)
         \/ TimePasses
         \/ UNCHANGED memory
<1>1. breakers \in Seq(Names) /\ breakers \in Wirings /\ now \in Times
  BY BreakersAssumption DEF TypeOK
<1>6. \A i, j \in Nat : 0 < i /\ j <= Len(breakers) => Evaluated(i, j) \subseteq Wired
  <2>1. DOMAIN breakers = 1 .. Len(breakers) /\ Len(breakers) \in Nat
    BY <1>1
  <2> QED BY <2>1 DEF Evaluated, Wired
<1>2. CASE Check
  <2>1. PICK j \in DOMAIN breakers : Evaluate(Evaluated(1, j), Here)
    BY <1>2 DEF Check
  <2>2. Here \in Context /\ Here.time = now /\ Here.time <= now
    BY <1>1 DEF Here, Context, TypeOK, Times
  <2>3. Evaluated(1, j) \subseteq Wired
    <3>1. j \in Nat /\ j <= Len(breakers)
      BY <1>1, <2>1
    <3> QED BY <1>6, <3>1
  <2>4. EvaluatesNow(Evaluated(1, j), Here)
    BY <1>2, <2>1, <2>2, <2>3 DEF EvaluatesNow, Check
  <2> QED BY <2>4
<1>3. CASE TickReconciled
  <2>1. Here \in Context /\ Here.time = now /\ Here.time <= now
    BY <1>1 DEF Here, Context, TypeOK, Times
  <2>2. PICK j \in Nat : j <= Len(breakers) /\ Evaluate(Evaluated(1, j), Here)
    BY <1>3, <2>1, RunBreakersEvaluates DEF TickReconciled
  <2>3. EvaluatesNow(Evaluated(1, j), Here)
    BY <1>3, <1>6, <2>1, <2>2 DEF EvaluatesNow, TickReconciled
  <2> QED BY <2>3
<1>4. CASE HandlerReturns
  <2> DEFINE i == tick.breaker
             ctx == tick.ctx
  <2>1. /\ i \in DOMAIN breakers /\ breakers[i] \in Suspending
        /\ ctx \in Context /\ ctx.time <= now
    BY <1>4 DEF HandlerReturns, TypeOK, Asleep
  <2>2. i \in Nat /\ i + 1 \in Nat \ {0}
    BY <1>1, <2>1
  <2>3. PICK j \in Nat : j <= Len(breakers) /\ Evaluate(Evaluated(i + 1, j), ctx)
    BY <1>4, <2>1, <2>2, RunBreakersEvaluates DEF HandlerReturns
  <2>4. ASSUME NEW name, AheadOfSuspension(name) PROVE name \notin Evaluated(i + 1, j)
    <3>1. SUFFICES ASSUME NEW k \in (i + 1) .. j, breakers[k] = name
                   PROVE FALSE
      BY DEF Evaluated
    <3>2. k \in DOMAIN breakers /\ i < k
      BY <1>1, <2>2, <2>3, <3>1
    <3> QED BY <1>1, <2>1, <2>4, <3>1, <3>2 DEF AheadOfSuspension
  <2>5. EvaluatesNow(Evaluated(i + 1, j), ctx)
    BY <1>4, <1>6, <2>1, <2>2, <2>3, <2>4 DEF EvaluatesNow, HandlerReturns, DrawdownFirst, RateLimitFirst
  <2> QED BY <2>5
<1>5. CASE TickWakes \/ Reconcile \/ (\E c \in Watched : Beat(c)) \/ UNCHANGED vars
  BY <1>5 DEF TickWakes, Reconcile, Beat, vars, memory
<1> QED BY <1>2, <1>3, <1>4, <1>5 DEF Next

-----------------------------------------------------------------------------
(* Types. *)

LEMMA TypeInit == Init => TypeOK
<1> SUFFICES ASSUME Init PROVE TypeOK
  OBVIOUS
<1>1. now \in Times /\ trips \in Nat /\ acks \in 0 .. MaxAcks
  BY BreakersAssumption DEF Init, Times
<1>2. /\ errors \in Seq([time : Times, heard : SUBSET Counting]) /\ DOMAIN errors = {}
  BY DEF Init
<1>3. kept \in [Counting -> SUBSET DOMAIN errors] /\ \A b \in Counting : kept[b] = {}
  BY DEF Init
<1>4. lastSeen \in [Watched -> Times \cup {Never}]
  BY DEF Init
<1>5. tick = Asleep /\ tick.at # "handler"
  BY DEF Init, Asleep
<1>6. /\ breakers \in Wirings /\ balance \in Equities
      /\ history = {} /\ observed = {} /\ latched = FALSE
      /\ trippedUntil = Never /\ trippedAt = Never
  BY DEF Init
<1> QED BY <1>1, <1>2, <1>3, <1>4, <1>5, <1>6 DEF TypeOK

LEMMA TypeStep == TypeOK /\ [Next]_vars => TypeOK'
<1> SUFFICES ASSUME TypeOK, [Next]_vars PROVE TypeOK'
  OBVIOUS
<1>1. breakers \in Seq(Names) /\ now \in Times
  BY BreakersAssumption DEF TypeOK
<1>2. CASE Check
  <2>1. PICK j \in DOMAIN breakers : Evaluate(Evaluated(1, j), Here)
    BY <1>2 DEF Check
  <2>2. Here \in Context /\ Here.time <= now
    BY <1>1 DEF Here, Context, TypeOK, Times
  <2> QED BY <1>2, <2>1, <2>2, EvaluateTypes DEF Check, TypeOK
<1>3. CASE TickWakes
  BY <1>3 DEF TickWakes, TypeOK, Asleep
<1>4. CASE TickReconciled
  <2>1. Here \in Context /\ Here.time <= now
    BY <1>1 DEF Here, Context, TypeOK, Times
  <2>2. PICK j \in Nat :
          /\ Evaluate(Evaluated(1, j), Here)
          /\ \/ tick' = Asleep
             \/ /\ tick' \in [at : {"handler"}, breaker : DOMAIN breakers, ctx : Context]
                /\ tick'.ctx = Here /\ breakers[tick'.breaker] \in Suspending
    BY <1>4, <2>1, RunBreakersEvaluates DEF TickReconciled
  <2>3. UNCHANGED <<breakers, now, balance, acks, errors, lastSeen>>
    BY <1>4 DEF TickReconciled
  <2> QED BY <2>1, <2>2, <2>3, EvaluateTypes DEF TypeOK, Asleep
<1>5. CASE HandlerReturns
  <2> DEFINE i == tick.breaker
             ctx == tick.ctx
  <2>1. i \in DOMAIN breakers /\ ctx \in Context /\ ctx.time <= now
    BY <1>5 DEF HandlerReturns, TypeOK, Asleep
  <2>2. i + 1 \in Nat \ {0}
    BY <1>1, <2>1
  <2>3. PICK j \in Nat :
          /\ Evaluate(Evaluated(i + 1, j), ctx)
          /\ \/ tick' = Asleep
             \/ /\ tick' \in [at : {"handler"}, breaker : DOMAIN breakers, ctx : Context]
                /\ tick'.ctx = ctx /\ breakers[tick'.breaker] \in Suspending
    BY <1>5, <2>1, <2>2, RunBreakersEvaluates DEF HandlerReturns
  <2>4. UNCHANGED <<breakers, now, balance, acks, errors, lastSeen>>
    BY <1>5 DEF HandlerReturns
  <2> HIDE DEF i, ctx
  <2> QED BY <2>1, <2>3, <2>4, EvaluateTypes DEF TypeOK, Asleep
<1>6. CASE Acknowledge \/ Reconcile
  <2>1. acks' \in 0 .. MaxAcks
    BY <1>6, BreakersAssumption DEF Acknowledge, Reconcile, TypeOK
  <2>2. CASE Acknowledge
    BY <2>1, <2>2 DEF Acknowledge, TypeOK
  <2>3. CASE Reconcile
    <3>1. tick' = tick \/ tick' = [at |-> "snapshots"]
      BY <2>3 DEF Reconcile
    <3> QED BY <2>1, <2>3, <3>1 DEF Reconcile, TypeOK
  <2> QED BY <1>6, <2>2, <2>3
<1>7. CASE \E heard \in SUBSET Counting : Error(heard)
  <2>1. PICK heard \in SUBSET Counting : Error(heard)
    BY <1>7
  <2>2. /\ errors' \in Seq([time : Times, heard : SUBSET Counting])
        /\ Len(errors') = Len(errors) + 1 /\ DOMAIN errors \subseteq DOMAIN errors'
        /\ \A k \in DOMAIN errors : errors'[k] = errors[k]
        /\ errors'[Len(errors')] = [time |-> now, heard |-> heard]
        /\ DOMAIN errors' = DOMAIN errors \cup {Len(errors')}
    BY <1>1, <2>1 DEF Error, TypeOK
  <2>3. /\ kept' \in [Counting -> SUBSET DOMAIN errors']
        /\ \A b \in Counting : \A k \in kept'[b] : b \in errors'[k].heard
    <3>1. kept' = [b \in Counting |->
                     IF b \in heard THEN kept[b] \cup {Len(errors')} ELSE kept[b]]
      BY <2>1 DEF Error
    <3>2. kept \in [Counting -> SUBSET DOMAIN errors]
      BY DEF TypeOK
    <3>3. ASSUME NEW b \in Counting, NEW k \in kept'[b]
          PROVE  k \in DOMAIN errors' /\ b \in errors'[k].heard
      <4>1. CASE k \in kept[b]
        BY <2>2, <3>2, <4>1 DEF TypeOK
      <4>2. CASE k \notin kept[b]
        BY <2>2, <3>1, <4>2
      <4> QED BY <4>1, <4>2
    <3> QED BY <3>1, <3>3
  <2>4. \A k \in DOMAIN errors' : errors'[k].time <= now
    BY <1>1, <2>2 DEF TypeOK, Times
  <2>5. UNCHANGED <<breakers, now, balance, tick, acks, history, latched, trippedUntil, lastSeen,
                    observed, trips, trippedAt>>
    BY <2>1 DEF Error
  <2> QED BY <2>2, <2>3, <2>4, <2>5 DEF TypeOK
<1>8. CASE \E c \in Watched : Beat(c)
  BY <1>1, <1>8 DEF Beat, TypeOK
<1>9. CASE TimePasses
  <2>1. now' \in Times /\ now' = now + 1 /\ now \in Nat
    BY <1>1, <1>9, BreakersAssumption DEF TimePasses, Times
  <2>2. \A t \in Times : t <= now => t <= now'
    BY <2>1 DEF Times
  <2>3. UNCHANGED <<breakers, balance, tick, acks, history, latched, errors, kept, trippedUntil,
                    lastSeen, observed, trips, trippedAt>>
    BY <1>9 DEF TimePasses
  <2>4. /\ \A o \in observed : o.time \in Times
        /\ \A k \in DOMAIN errors : errors[k].time \in Times
        /\ tick.at = "handler" => tick.ctx.time \in Times
    <3>1. tick.at = "handler" => tick.ctx.time \in Times
      BY DEF TypeOK, Context, Asleep
    <3> QED BY <3>1, TimesOnRecord
  <2>5. /\ \A o \in observed : o.time <= now'
        /\ \A k \in DOMAIN errors : errors[k].time <= now'
        /\ tick.at = "handler" => tick.ctx.time <= now'
    BY <2>2, <2>4 DEF TypeOK
  <2>6. /\ \A o \in observed' : o.time <= now'
        /\ \A k \in DOMAIN errors' : errors'[k].time <= now'
        /\ tick'.at = "handler" =>
             tick'.ctx.time <= now' /\ breakers'[tick'.breaker] \in Suspending
    BY <2>3, <2>5 DEF TypeOK
  <2> QED BY <2>1, <2>3, <2>6 DEF TypeOK
<1>10. CASE UNCHANGED vars
  BY <1>10 DEF vars, TypeOK
<1> QED BY <1>2, <1>3, <1>4, <1>5, <1>6, <1>7, <1>8, <1>9, <1>10 DEF Next

\* Every variable of the breakers keeps its type, nothing remembered is of the
\* future, and a suspended tick's context is of the past.
THEOREM TypeCorrect == Spec => []TypeOK
BY TypeInit, TypeStep, PTL DEF Spec

-----------------------------------------------------------------------------
(* Errors are not pruned early. *)

\* ConsecutiveErrorBreaker still has every error of the window that ends now.
ErrorsKept ==
  \A k \in HeardBy("ConsecutiveError") :
    errors[k].time >= now - Window["ConsecutiveError"] => k \in kept["ConsecutiveError"]

\* An evaluation in the present or the past prunes nothing the present counts.
LEMMA EvaluateKeepsErrors ==
  ASSUME TypeOK, ErrorsKept, NEW B, NEW ctx, EvaluatesNow(B, ctx)
  PROVE  ErrorsKept'
<1> DEFINE c == "ConsecutiveError"
           w == Window["ConsecutiveError"]
<1>1. now \in Int /\ w \in Int /\ ctx.time \in Int /\ ctx.time <= now
  BY BreakersAssumption DEF EvaluatesNow, Context, Times, TypeOK, Counting
<1>2. SUFFICES ASSUME NEW k \in HeardBy(c), errors[k].time >= now - w
               PROVE  k \in kept'[c]
  BY DEF ErrorsKept, HeardBy, EvaluatesNow
<1>3. k \in kept[c]
  BY <1>2 DEF ErrorsKept
<1>4. errors[k].time \in Int
  BY <1>2, TimesOnRecord DEF HeardBy
<1>5. Recent(c, ctx.time, errors[k].time)
  BY <1>1, <1>2, <1>4 DEF Recent
<1> QED BY <1>3, <1>5 DEF EvaluatesNow, Evaluate, Counted, Counting

LEMMA ErrorsKeptStep == TypeOK /\ ErrorsKept /\ [Next]_vars => ErrorsKept'
<1> SUFFICES ASSUME TypeOK, ErrorsKept, [Next]_vars PROVE ErrorsKept'
  OBVIOUS
<1>1. CASE \E B : \E ctx : EvaluatesNow(B, ctx)
  BY <1>1, EvaluateKeepsErrors
<1>2. CASE Acknowledge \/ UNCHANGED memory
  BY <1>2 DEF Acknowledge, memory, ErrorsKept, HeardBy
<1>3. CASE \E heard \in SUBSET Counting : Error(heard)
  <2>1. PICK heard \in SUBSET Counting : Error(heard)
    BY <1>3
  <2>2. /\ DOMAIN errors' = DOMAIN errors \cup {Len(errors')}
        /\ \A k \in DOMAIN errors : errors'[k] = errors[k]
        /\ errors'[Len(errors')].heard = heard
    BY <2>1 DEF Error, TypeOK
  <2>3. kept'["ConsecutiveError"] = IF "ConsecutiveError" \in heard
                                    THEN kept["ConsecutiveError"] \cup {Len(errors')}
                                    ELSE kept["ConsecutiveError"]
    BY <2>1 DEF Error, Counting
  <2>4. UNCHANGED now
    BY <2>1 DEF Error
  <2> QED BY <2>2, <2>3, <2>4 DEF ErrorsKept, HeardBy
<1>4. CASE TimePasses
  <2>1. now \in Int /\ now' = now + 1 /\ Window["ConsecutiveError"] \in Int
    BY <1>4, BreakersAssumption DEF TimePasses, TypeOK, Times, Counting
  <2>2. UNCHANGED <<errors, kept>>
    BY <1>4 DEF TimePasses
  <2>3. \A k \in DOMAIN errors : errors[k].time \in Int
    BY TimesOnRecord
  <2> QED BY <2>1, <2>2, <2>3 DEF ErrorsKept, HeardBy
<1> QED BY <1>1, <1>2, <1>3, <1>4, StepsEvaluate

\* No order passes check while the errors of the last window reach the limit,
\* whatever the wiring and however late a suspended tick goes on.
THEOREM ErrorsHoldOrders == Spec => []NoOrderAmidErrors
<1>1. Init => ErrorsKept
  BY DEF Init, ErrorsKept, HeardBy
<1>2. TypeOK /\ ErrorsKept => NoOrderAmidErrors
  <2> SUFFICES ASSUME TypeOK, ErrorsKept, "ConsecutiveError" \in Wired, Approves
               PROVE  Cardinality({k \in HeardBy("ConsecutiveError") :
                                    errors[k].time >= now - Window["ConsecutiveError"]})
                        < Limit["ConsecutiveError"]
    BY DEF NoOrderAmidErrors
  <2>1. ~Burst("ConsecutiveError", Here)
    BY DEF Approves, Trips, Counting
  <2>2. Counted("ConsecutiveError", Here) =
          {k \in HeardBy("ConsecutiveError") :
             errors[k].time >= now - Window["ConsecutiveError"]}
    <3>1. "ConsecutiveError" \in Counting
      BY DEF Counting
    <3>2. kept["ConsecutiveError"] \subseteq HeardBy("ConsecutiveError")
      BY <3>1 DEF TypeOK, HeardBy
    <3> QED BY <3>2 DEF Counted, Recent, Here, ErrorsKept
  <2>3. Cardinality(Counted("ConsecutiveError", Here)) \in Nat
    <3>1. IsFiniteSet(DOMAIN errors)
      BY FS_Interval DEF TypeOK
    <3>2. Counted("ConsecutiveError", Here) \subseteq DOMAIN errors
      BY DEF Counted, TypeOK, Counting
    <3> QED BY <3>1, <3>2, FS_Subset, FS_CardinalityType
  <2>4. Limit["ConsecutiveError"] \in Nat
    BY BreakersAssumption DEF Counting
  <2> QED BY <2>1, <2>2, <2>3, <2>4 DEF Burst
<1> QED BY <1>1, <1>2, TypeInit, TypeStep, ErrorsKeptStep, PTL DEF Spec

-----------------------------------------------------------------------------
(* The drawdown breaker latches on just the drawdowns within the window. *)

\* Equities have an upper bound, and the threshold is no more than all of it.
EquitiesBounded == \E b \in Int : \A e \in Equities : e <= b

\* The natural numbers are well ordered.
LEMMA MinimalInRelation ==
  ASSUME NEW R, IsWellFoundedOn(R, Nat), NEW S, S \subseteq Nat, S # {}
  PROVE  \E x \in S : \A y \in S : ~ (<<y, x>> \in R)
BY WFMin, Zenon

LEMMA MinimumByRelation ==
  ASSUME NEW R, IsWellFoundedOn(R, Nat),
         \A m, n \in Nat : m < n => <<m, n>> \in R,
         NEW S, S \subseteq Nat, S # {}
  PROVE  \E x \in S : \A y \in S : x <= y
<1>1. PICK x \in S : \A y \in S : ~ (<<y, x>> \in R)
  BY MinimalInRelation
<1>2. \A y \in S : ~ (y < x)
  BY <1>1
<1> QED BY <1>2

LEMMA NatMinimum ==
  ASSUME NEW S, S \subseteq Nat, S # {}
  PROVE  \E x \in S : \A y \in S : x <= y
<1>1. \A m, n \in Nat : m < n => <<m, n>> \in OpToRel(<, Nat)
  BY DEF OpToRel
<1> QED BY <1>1, NatLessThanWellFounded, MinimumByRelation, Zenon

\* A history has a peak.
LEMMA PeakExists ==
  ASSUME NEW H, H \subseteq Context, H # {}, EquitiesBounded
  PROVE  \E o \in H : \A p \in H : p.equity <= o.equity
<1>1. \A o \in H : o.equity \in Equities /\ o.equity \in Int
  BY BreakersAssumption DEF Context
<1>2. PICK b \in Int : \A e \in Equities : e <= b
  BY DEF EquitiesBounded
<1> DEFINE D == {b - o.equity : o \in H}
<1>3. D \subseteq Nat /\ D # {}
  BY <1>1, <1>2
<1>4. PICK d \in D : \A c \in D : d <= c
  <2> HIDE DEF D
  <2> QED BY <1>3, NatMinimum
<1>5. PICK o \in H : d = b - o.equity
  OBVIOUS
<1>6. \A p \in H : b - o.equity <= b - p.equity
  BY <1>4, <1>5
<1> QED BY <1>1, <1>2, <1>6

\* A trough beyond the threshold of one equity is beyond that of a higher one.
LEMMA BeyondHigher ==
  ASSUME NEW o \in Int, NEW p \in Int, NEW e \in Int, o <= p, Percent <= 100, Beyond(o, e)
  PROVE  Beyond(p, e)
<1>1. Percent \in Int /\ 0 <= p - o /\ 0 <= 100 - Percent
  BY BreakersAssumption
<1>2. 0 <= (100 - Percent) * (p - o)
  <2>1. \A m, n \in Nat : 0 <= m * n
    OBVIOUS
  <2>2. 100 - Percent \in Nat /\ p - o \in Nat
    BY <1>1
  <2> QED BY <2>1, <2>2
<1>3. (100 - Percent) * (p - o) = 100 * (p - e) - Percent * p - (100 * (o - e) - Percent * o)
  BY <1>1
<1>4. 100 * (o - e) > Percent * o /\ o > 0
  BY DEF Beyond
<1>5. Percent * p \in Int /\ Percent * o \in Int
  BY <1>1
<1>6. 100 * (p - e) > Percent * p /\ p > 0
  BY <1>2, <1>3, <1>4, <1>5
<1> QED BY <1>6 DEF Beyond

\* Pruning forgets only what the window has left behind.
HistoryComplete ==
  \A o \in observed : o.time >= now - Window["Drawdown"] => o \in history

DrawdownInv == HistoryComplete /\ NoDrawdownMissed /\ LatchedByDrawdown

\* The history in the context of the present: what it keeps, and that no
\* observation within the window is beyond the threshold unless the peak is.
LEMMA RecordedNow ==
  ASSUME TypeOK, HistoryComplete, EquitiesBounded, Percent <= 100,
         NEW ctx \in Context, ctx.time = now
  PROVE  /\ Recorded(ctx) \subseteq observed \cup {ctx}
         /\ \A o \in observed \cup {ctx} :
              o.time >= now - Window["Drawdown"] => o \in Recorded(ctx)
         /\ \A o \in Recorded(ctx) : o.time <= now /\ now - o.time <= Window["Drawdown"]
         /\ ~Fallen(ctx) => \A o \in Recorded(ctx) : ~Beyond(o.equity, ctx.equity)
<1> DEFINE W == Window["Drawdown"]
           H == Recorded(ctx)
<1>1. now \in Int /\ W \in Nat /\ Percent \in Nat
  BY TimesOnRecord, BreakersAssumption
<1>2. \A o \in observed \cup {ctx} : o \in Context /\ o.time \in Int /\ o.time <= now
  BY <1>1, TimesOnRecord DEF TypeOK
<1>3. \A o \in Context : o.equity \in Int
  BY BreakersAssumption DEF Context
<1>4. H \subseteq observed \cup {ctx} /\ \A o \in H : o.time >= now - W
  BY DEF Recorded, Recent, TypeOK
<1>5. \A o \in observed \cup {ctx} : o.time >= now - W => o \in H
  BY DEF Recorded, Recent, HistoryComplete
<1>6. \A o \in H : o.time <= now /\ now - o.time <= W
  <2> HIDE DEF H, W
  <2> QED BY <1>1, <1>2, <1>4
<1>7. ctx \in H
  <2>1. ctx.time >= now - W
    <3> HIDE DEF W
    <3> QED BY <1>1
  <2> QED BY <1>5, <2>1
<1>8. ASSUME ~Fallen(ctx), NEW o \in H, Beyond(o.equity, ctx.equity)
      PROVE  FALSE
  <2>1. H \subseteq Context /\ H # {}
    BY <1>2, <1>4, <1>7
  <2>2. PICK p \in H : \A q \in H : q.equity <= p.equity
    <3> HIDE DEF H
    <3> QED BY <2>1, PeakExists
  <2>3. ~Beyond(p.equity, ctx.equity)
    BY <1>8, <2>2 DEF Fallen
  <2>4. o.equity \in Int /\ p.equity \in Int /\ ctx.equity \in Int /\ o.equity <= p.equity
    <3> HIDE DEF H
    <3> QED BY <1>3, <1>8, <2>1, <2>2
  <2> QED BY <1>8, <2>3, <2>4, BeyondHigher
<1> QED BY <1>4, <1>5, <1>6, <1>8

LEMMA DrawdownStep ==
  ASSUME DrawdownFirst, EquitiesBounded, Percent <= 100,
         TypeOK, TypeOK', DrawdownInv, [Next]_vars
  PROVE  DrawdownInv'
<1>1. ASSUME NEW B, NEW ctx, EvaluatesNow(B, ctx) PROVE DrawdownInv'
  <2>1. UNCHANGED now
    BY <1>1 DEF EvaluatesNow
  <2>2. CASE "Drawdown" \in B /\ ~latched
    <3>1. ctx \in Context /\ ctx.time = now
      BY <1>1, <2>2 DEF EvaluatesNow
    <3>2. history' = Recorded(ctx) /\ observed' = observed \cup {ctx} /\ latched' = Fallen(ctx)
      BY <1>1, <2>2 DEF EvaluatesNow, Evaluate
    <3>3. /\ Recorded(ctx) \subseteq observed \cup {ctx}
          /\ \A o \in observed \cup {ctx} :
               o.time >= now - Window["Drawdown"] => o \in Recorded(ctx)
          /\ \A o \in Recorded(ctx) : o.time <= now /\ now - o.time <= Window["Drawdown"]
          /\ ~Fallen(ctx) => \A o \in Recorded(ctx) : ~Beyond(o.equity, ctx.equity)
      BY <3>1, RecordedNow DEF DrawdownInv
    <3>4. HistoryComplete'
      BY <2>1, <3>2, <3>3 DEF HistoryComplete
    <3>5. LatchedByDrawdown'
      <4> SUFFICES ASSUME Fallen(ctx) PROVE LatchedByDrawdown'
        BY <3>2 DEF LatchedByDrawdown
      <4>1. PICK o \in Recorded(ctx) : Beyond(o.equity, ctx.equity)
        BY DEF Fallen
      <4>2. o.time <= ctx.time /\ ctx.time - o.time <= Window["Drawdown"]
        BY <3>1, <3>3
      <4>3. o \in observed' /\ ctx \in observed'
        BY <3>2, <3>3
      <4> QED BY <4>1, <4>2, <4>3 DEF LatchedByDrawdown, Beyond
    <3>6. NoDrawdownMissed'
      <4> SUFFICES ASSUME ~Fallen(ctx), NEW o \in observed', NEW p \in observed',
                          o.time < p.time, p.time - o.time <= Window["Drawdown"]
                   PROVE  ~Beyond(o.equity, p.equity)
        BY <3>2 DEF NoDrawdownMissed, Beyond
      <4>1. /\ now \in Int /\ Window["Drawdown"] \in Int
            /\ o.time \in Int /\ p.time \in Int /\ p.time <= now
        BY <2>1, TimesOnRecord, BreakersAssumption, <3>1, <3>2 DEF TypeOK
      <4>2. o # ctx /\ o \in observed
        BY <3>1, <3>2, <4>1
      <4>3. CASE p = ctx
        <5>1. o \in Recorded(ctx)
          BY <3>1, <3>3, <4>1, <4>2, <4>3
        <5> QED BY <3>3, <4>3, <5>1
      <4>4. CASE p \in observed
        BY <2>2, <4>2, <4>4 DEF DrawdownInv, NoDrawdownMissed
      <4> QED BY <3>2, <4>3, <4>4
    <3> QED BY <3>4, <3>5, <3>6 DEF DrawdownInv
  <2>3. CASE ~("Drawdown" \in B /\ ~latched)
    <3>1. UNCHANGED <<history, observed, latched>>
      BY <1>1, <2>3 DEF EvaluatesNow, Evaluate
    <3> QED BY <2>1, <3>1 DEF DrawdownInv, HistoryComplete, NoDrawdownMissed,
                              LatchedByDrawdown, Beyond
  <2> QED BY <2>2, <2>3
<1>2. CASE Acknowledge
  BY <1>2 DEF Acknowledge, DrawdownInv, HistoryComplete, NoDrawdownMissed, LatchedByDrawdown
<1>3. CASE (\E heard \in SUBSET Counting : Error(heard)) \/ UNCHANGED memory
  <2>1. UNCHANGED <<now, history, observed, latched>>
    BY <1>3 DEF Error, memory
  <2> QED BY <2>1 DEF DrawdownInv, HistoryComplete, NoDrawdownMissed, LatchedByDrawdown, Beyond
<1>4. CASE TimePasses
  <2>1. now' = now + 1 /\ UNCHANGED <<history, observed, latched>>
    BY <1>4 DEF TimePasses
  <2>2. \A o \in observed : o.time >= now' - Window["Drawdown"]
                             => o.time >= now - Window["Drawdown"]
    BY <2>1, TimesOnRecord, BreakersAssumption
  <2>3. HistoryComplete'
    BY <2>1, <2>2 DEF DrawdownInv, HistoryComplete
  <2> QED BY <2>1, <2>3 DEF DrawdownInv, NoDrawdownMissed, LatchedByDrawdown, Beyond
<1> QED BY <1>1, <1>2, <1>3, <1>4, StepsEvaluate

\* Where no breaker ahead of it suspends the tick, DrawdownBreaker misses no
\* drawdown within its window and latches on no other.
THEOREM DrawdownExact ==
  ASSUME DrawdownFirst, EquitiesBounded, Percent <= 100
  PROVE  Spec => [](NoDrawdownMissed /\ LatchedByDrawdown)
<1>1. Init => DrawdownInv
  BY DEF Init, DrawdownInv, HistoryComplete, NoDrawdownMissed, LatchedByDrawdown
<1>2. TypeOK /\ TypeOK' /\ DrawdownInv /\ [Next]_vars => DrawdownInv'
  BY DrawdownStep
<1>3. DrawdownInv => NoDrawdownMissed /\ LatchedByDrawdown
  BY DEF DrawdownInv
<1> QED BY <1>1, <1>2, <1>3, TypeInit, TypeStep, PTL DEF Spec

\* Where no breaker ahead of it suspends the tick, DrawdownBreaker latches on
\* nothing but a drawdown within its window and since the last acknowledge.
THEOREM LatchesOnDrawdownOnly ==
  ASSUME DrawdownFirst, EquitiesBounded, Percent <= 100
  PROVE  Spec => []LatchedByDrawdown
BY DrawdownExact, PTL

-----------------------------------------------------------------------------
(* The cooldown of the rate limit. *)

\* The last trip's cooldown is the one that runs, or is over.
CooldownRuns ==
  /\ trips > 0 => trippedAt \in Nat
  /\ trips > 0 /\ now < trippedAt + Cooldown => trippedUntil = trippedAt + Cooldown
  /\ trips > 0 => "RateLimit" \in Wired

LEMMA CooldownStep ==
  ASSUME RateLimitFirst, TypeOK, CooldownRuns, [Next]_vars
  PROVE  CooldownRuns'
<1>1. now \in Nat /\ Cooldown \in Nat /\ trips \in Nat /\ trippedUntil \in Nat \cup {Never}
  BY BreakersAssumption DEF TypeOK, Times
<1>2. ASSUME NEW B, NEW ctx, EvaluatesNow(B, ctx) PROVE CooldownRuns'
  <2>1. UNCHANGED <<now, breakers>> /\ Evaluate(B, ctx)
    BY <1>2 DEF EvaluatesNow
  <2>2. CASE "RateLimit" \in B /\ ~Cooling(ctx)
    <3>1. ctx.time = now
      BY <1>2, <2>2 DEF EvaluatesNow
    <3>2. trippedUntil = Never \/ ~ now < trippedUntil
      BY <2>2, <3>1 DEF Cooling
    <3>3. CASE Burst("RateLimit", ctx)
      <4>1. "RateLimit" \in Wired'
        BY <1>2, <2>1, <2>2 DEF EvaluatesNow, Wired
      <4> QED BY <1>1, <2>1, <2>2, <3>1, <3>3, <4>1 DEF Evaluate, CooldownRuns
    <3>4. CASE ~Burst("RateLimit", ctx)
      <4>1. trippedUntil' = Never /\ UNCHANGED <<trips, trippedAt>>
        BY <2>1, <2>2, <3>4 DEF Evaluate
      <4>2. trips > 0 => ~ now < trippedAt + Cooldown
        BY <1>1, <3>2 DEF CooldownRuns, Never
      <4> QED BY <2>1, <4>1, <4>2 DEF CooldownRuns, Wired
    <3> QED BY <3>3, <3>4
  <2>3. CASE ~("RateLimit" \in B /\ ~Cooling(ctx))
    <3>1. UNCHANGED <<trippedUntil, trips, trippedAt>>
      BY <2>1, <2>3 DEF Evaluate
    <3> QED BY <2>1, <3>1 DEF CooldownRuns, Wired
  <2> QED BY <2>2, <2>3
<1>3. CASE Acknowledge \/ (\E heard \in SUBSET Counting : Error(heard)) \/ UNCHANGED memory
  <2>1. UNCHANGED <<breakers, now, trippedUntil, trips, trippedAt>>
    BY <1>3 DEF Acknowledge, Error, memory
  <2> QED BY <2>1 DEF CooldownRuns, Wired
<1>4. CASE TimePasses
  <2>1. now' = now + 1 /\ UNCHANGED <<breakers, trippedUntil, trips, trippedAt>>
    BY <1>4 DEF TimePasses
  <2> QED BY <1>1, <2>1 DEF CooldownRuns, Wired
<1> QED BY <1>2, <1>3, <1>4, StepsEvaluate

\* Where no breaker ahead of it suspends the tick, RateLimitBreaker approves
\* nothing for its whole cooldown after each trip.
THEOREM CooldownHoldsOrders ==
  ASSUME RateLimitFirst
  PROVE  Spec => []NoOrderInCooldown
<1>1. Init => CooldownRuns
  BY DEF Init, CooldownRuns
<1>2. TypeOK /\ CooldownRuns => NoOrderInCooldown
  <2> SUFFICES ASSUME TypeOK, CooldownRuns, trips > 0, Approves, now < trippedAt + Cooldown
               PROVE  FALSE
    <3>1. TypeOK /\ CooldownRuns /\ trips > 0 /\ ~ now < trippedAt + Cooldown
             => now >= trippedAt + Cooldown
      BY BreakersAssumption DEF CooldownRuns, TypeOK, Times
    <3> QED BY <3>1 DEF NoOrderInCooldown
  <2>1. "RateLimit" \in Wired /\ trippedUntil = trippedAt + Cooldown /\ trippedAt \in Nat
    BY DEF CooldownRuns
  <2>2. Cooling(Here)
    BY <2>1, BreakersAssumption DEF Cooling, Here, Never
  <2> QED BY <2>1, <2>2 DEF Approves, Trips, Counting
<1>3. TypeOK /\ CooldownRuns /\ [Next]_vars => CooldownRuns'
  BY CooldownStep
<1> QED BY <1>1, <1>2, <1>3, TypeInit, TypeStep, PTL DEF Spec

-----------------------------------------------------------------------------
(* An error serves for one cooldown. *)

\* Each trip had a full count of errors to itself, and the errors that count
\* towards the next are not among those.
ErrorsSpent ==
  trips * Limit["RateLimit"]
      + (IF trippedUntil = Never THEN Cardinality(kept["RateLimit"]) ELSE 0)
    <= Cardinality(HeardBy("RateLimit"))

LEMMA KeptAreFinite ==
  ASSUME TypeOK
  PROVE  /\ IsFiniteSet(DOMAIN errors) /\ DOMAIN errors = 1 .. Len(errors) /\ Len(errors) \in Nat
         /\ \A S \in SUBSET DOMAIN errors : IsFiniteSet(S) /\ Cardinality(S) \in Nat
         /\ kept["RateLimit"] \subseteq HeardBy("RateLimit")
         /\ HeardBy("RateLimit") \subseteq DOMAIN errors
<1>1. DOMAIN errors = 1 .. Len(errors) /\ Len(errors) \in Nat
  BY DEF TypeOK
<1>2. IsFiniteSet(DOMAIN errors)
  BY <1>1, FS_Interval
<1>3. kept["RateLimit"] \subseteq HeardBy("RateLimit")
  BY DEF TypeOK, HeardBy, Counting
<1> QED BY <1>1, <1>2, <1>3, FS_Subset, FS_CardinalityType DEF HeardBy

\* Evaluating spends what it takes, and only forgets besides.
LEMMA EvaluateSpendsErrors ==
  ASSUME TypeOK, ErrorsSpent, NEW B, NEW ctx, EvaluatesNow(B, ctx)
  PROVE  ErrorsSpent'
<1> DEFINE r == "RateLimit"
           L == Limit[r]
           K == Cardinality(kept[r])
           H == Cardinality(HeardBy(r))
<1>1. /\ L \in Nat \ {0} /\ trips \in Nat /\ H \in Nat /\ K \in Nat
      /\ \A S \in SUBSET kept[r] : Cardinality(S) \in Nat /\ Cardinality(S) <= K
      /\ trips * L \in Nat /\ (trips + 1) * L = trips * L + L
  <2>1. L \in Nat \ {0} /\ trips \in Nat
    BY BreakersAssumption DEF TypeOK, Counting
  <2>2. H \in Nat /\ K \in Nat /\ IsFiniteSet(kept[r])
    BY KeptAreFinite
  <2>3. \A S \in SUBSET kept[r] : Cardinality(S) \in Nat /\ Cardinality(S) <= K
    <3>1. \A S \in SUBSET kept[r] : Cardinality(S) <= K /\ IsFiniteSet(S)
      BY <2>2, FS_Subset
    <3> QED BY <3>1, FS_CardinalityType
  <2>4. \A m \in Nat, n \in Nat : m * n \in Nat /\ (m + 1) * n = m * n + n
    OBVIOUS
  <2> HIDE DEF L, H, K
  <2> QED BY <2>1, <2>2, <2>3, <2>4
<1>2. Evaluate(B, ctx) /\ HeardBy(r)' = HeardBy(r) /\ r \in Counting /\ Never \notin Nat
  BY DEF EvaluatesNow, HeardBy, Counting, Never
<1>3. ctx.time + Cooldown # Never
  BY BreakersAssumption DEF EvaluatesNow, Context, Times, Never
<1>4. CASE r \in B /\ ~Cooling(ctx)
  <2>1. kept'[r] = Counted(r, ctx) /\ Counted(r, ctx) \subseteq kept[r]
        /\ (trippedUntil # Never => Counted(r, ctx) = {})
    BY <1>2, <1>4 DEF Evaluate, Counted
  <2>2. CASE Burst(r, ctx)
    <3>1. trippedUntil' # Never /\ trips' = trips + 1
      BY <1>2, <1>3, <1>4, <2>2 DEF Evaluate
    <3>2. Cardinality(Counted(r, ctx)) >= L
      BY <2>2 DEF Burst
    <3>3. trippedUntil = Never
      <4>1. Cardinality({}) = 0
        BY FS_EmptySet
      <4>2. ~ 0 >= L
        <5> HIDE DEF L, H, K
        <5> QED BY <1>1
      <4> QED BY <2>1, <3>2, <4>1, <4>2
    <3>4. trips * L + K <= H /\ L <= K
      BY <1>1, <2>1, <3>2, <3>3 DEF ErrorsSpent
    <3>5. (trips + 1) * L <= H
      <4> HIDE DEF L, H, K
      <4> QED BY <1>1, <3>4
    <3> QED BY <1>1, <1>2, <3>1, <3>5 DEF ErrorsSpent
  <2>3. CASE ~Burst(r, ctx)
    <3>1. trips' = trips
      BY <1>4, <2>3, <1>2 DEF Evaluate
    <3>2. Cardinality(kept'[r]) \in Nat /\ Cardinality(kept'[r]) <= K
      BY <1>1, <2>1
    <3>3. trippedUntil # Never => Cardinality(kept'[r]) = 0
      BY <2>1, FS_EmptySet
    <3>4. trips * L + Cardinality(kept'[r]) <= H
      <4>1. trips * L <= H /\ (trippedUntil = Never => trips * L + K <= H)
        BY <1>1 DEF ErrorsSpent
      <4> HIDE DEF L, H, K
      <4> QED BY <1>1, <3>2, <3>3, <4>1
    <3> QED BY <1>1, <1>2, <3>1, <3>2, <3>4 DEF ErrorsSpent
  <2> QED BY <2>2, <2>3
<1>5. CASE ~(r \in B /\ ~Cooling(ctx))
  <2>1. UNCHANGED <<trippedUntil, trips>> /\ kept'[r] = kept[r]
    BY <1>2, <1>5 DEF Evaluate, Counting
  <2> QED BY <1>2, <2>1 DEF ErrorsSpent
<1> QED BY <1>4, <1>5

LEMMA ErrorsSpentStep == TypeOK /\ TypeOK' /\ ErrorsSpent /\ [Next]_vars => ErrorsSpent'
<1> SUFFICES ASSUME TypeOK, TypeOK', ErrorsSpent, [Next]_vars PROVE ErrorsSpent'
  OBVIOUS
<1>1. CASE \E B : \E ctx : EvaluatesNow(B, ctx)
  BY <1>1, EvaluateSpendsErrors
<1>2. CASE Acknowledge \/ TimePasses \/ UNCHANGED memory
  BY <1>2 DEF Acknowledge, TimePasses, memory, ErrorsSpent, HeardBy
<1>3. CASE \E heard \in SUBSET Counting : Error(heard)
  <2> DEFINE r == "RateLimit"
             K == Cardinality(kept[r])
             H == Cardinality(HeardBy(r))
             T == trips * Limit[r]
  <2>1. PICK heard \in SUBSET Counting : Error(heard)
    BY <1>3
  <2> DEFINE k == Len(errors')
  <2>2. /\ k \notin DOMAIN errors /\ DOMAIN errors' = DOMAIN errors \cup {k}
        /\ \A j \in DOMAIN errors : errors'[j] = errors[j]
        /\ errors'[k].heard = heard
    BY <2>1 DEF Error, TypeOK
  <2>3. /\ kept'[r] = IF r \in heard THEN kept[r] \cup {k} ELSE kept[r]
        /\ UNCHANGED <<trips, trippedUntil>>
    BY <2>1 DEF Error, Counting
  <2>4. HeardBy(r)' = IF r \in heard THEN HeardBy(r) \cup {k} ELSE HeardBy(r)
    BY <2>2 DEF HeardBy
  <2>5. CASE r \in heard
    <3>1. /\ IsFiniteSet(kept[r]) /\ IsFiniteSet(HeardBy(r)) /\ k \notin kept[r]
          /\ k \notin HeardBy(r) /\ K \in Nat /\ H \in Nat
      BY <2>2, KeptAreFinite
    <3>2. Cardinality(kept'[r]) = K + 1 /\ Cardinality(HeardBy(r)') = H + 1
      BY <2>3, <2>4, <2>5, <3>1, FS_AddElement
    <3>3. T \in Nat
      <4>1. trips \in Nat /\ Limit[r] \in Nat
        BY BreakersAssumption DEF TypeOK, Counting
      <4>2. \A m, n \in Nat : m * n \in Nat
        OBVIOUS
      <4> QED BY <4>1, <4>2
    <3>4. T + (IF trippedUntil = Never THEN K ELSE 0) <= H
      BY DEF ErrorsSpent
    <3>5. T + (IF trippedUntil = Never THEN K + 1 ELSE 0) <= H + 1
      <4> HIDE DEF T, K, H
      <4> QED BY <3>1, <3>3, <3>4
    <3> QED BY <2>3, <3>2, <3>5 DEF ErrorsSpent
  <2>6. CASE r \notin heard
    BY <2>3, <2>4, <2>6 DEF ErrorsSpent
  <2> QED BY <2>5, <2>6
<1> QED BY <1>1, <1>2, <1>3, StepsEvaluate

\* RateLimitBreaker trips anew only on errors it has not yet tripped on,
\* whatever the wiring and however late a suspended tick goes on: what arrives
\* during a cooldown is forgotten with it.
THEOREM EachTripSpendsErrors == Spec => []TripsNeedNewErrors
<1>1. Init => ErrorsSpent
  <2> SUFFICES ASSUME Init PROVE ErrorsSpent
    OBVIOUS
  <2>1. kept["RateLimit"] = {} /\ HeardBy("RateLimit") = {} /\ trips = 0
    BY DEF Init, HeardBy, Counting
  <2>2. Limit["RateLimit"] \in Nat
    BY BreakersAssumption DEF Counting
  <2> QED BY <2>1, <2>2, FS_EmptySet DEF ErrorsSpent
<1>2. TypeOK /\ ErrorsSpent => TripsNeedNewErrors
  <2> SUFFICES ASSUME TypeOK, ErrorsSpent
               PROVE  trips * Limit["RateLimit"] <= Cardinality(HeardBy("RateLimit"))
    BY DEF TripsNeedNewErrors
  <2>1. trips \in Nat /\ Limit["RateLimit"] \in Nat
    BY BreakersAssumption DEF TypeOK, Counting
  <2>2. trips * Limit["RateLimit"] \in Nat
    <3>1. \A m, n \in Nat : m * n \in Nat
      OBVIOUS
    <3> QED BY <2>1, <3>1
  <2>3. Cardinality(kept["RateLimit"]) \in Nat /\ Cardinality(HeardBy("RateLimit")) \in Nat
    BY KeptAreFinite
  <2> QED BY <2>2, <2>3 DEF ErrorsSpent
<1>3. TypeOK /\ TypeOK' /\ ErrorsSpent /\ [Next]_vars => ErrorsSpent'
  BY ErrorsSpentStep
<1> QED BY <1>1, <1>2, <1>3, TypeInit, TypeStep, PTL DEF Spec

=============================================================================
