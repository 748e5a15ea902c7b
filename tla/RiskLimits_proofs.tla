--------------------------- MODULE RiskLimits_proofs ---------------------------
(***************************************************************************)
(* Proofs about RiskLimits, for any lists of breakers, symbols, orders,    *)
(* reports and number of failures.                                         *)
(***************************************************************************)
EXTENDS RiskLimits, WellFoundedInduction, TLAPS

Inv == TypeOK /\ ActsForATrip

\* The lists of breakers are sequences.
WiringsAreSequences == \A w \in Wirings : \E n \in Nat : DOMAIN w = 1 .. n

\* A set of breakers that is not empty has a first one.
LEMMA MinimalInRelation ==
  ASSUME NEW R, IsWellFoundedOn(R, Nat), NEW S, S \subseteq Nat, S # {}
  PROVE  \E x \in S : \A y \in S : ~ (<<y, x>> \in R)
BY WFMin, Zenon

LEMMA LeastInRelation ==
  ASSUME NEW R, IsWellFoundedOn(R, Nat),
         \A m, n \in Nat : m < n => <<m, n>> \in R,
         NEW S, S \subseteq Nat, S # {}
  PROVE  \E x \in S : \A y \in S : x <= y
<1>1. PICK x \in S : \A y \in S : ~ (<<y, x>> \in R)
  BY MinimalInRelation
<1>2. \A y \in S : ~ (y < x)
  BY <1>1
<1> QED BY <1>2

LEMMA FirstExists ==
  ASSUME NEW S, S \subseteq Nat, S # {}
  PROVE  Min(S) \in S
<1>1. \A m, n \in Nat : m < n => <<m, n>> \in OpToRel(<, Nat)
  BY DEF OpToRel
<1>2. PICK x \in S : \A y \in S : x <= y
  BY <1>1, NatLessThanWellFounded, LeastInRelation, Zenon
<1> QED BY <1>2 DEF Min

\* A handler that starts to cancel, or to quarantine with no order open, acts
\* for its breaker.
LEMMA CancelsActs ==
  ASSUME TypeOK, NEW at, NEW k, NEW ctx, UNCHANGED wiring,
         Cancels(at, k, ctx), k \in Tripped(ctx),
         \/ at = "cancelling" /\ wiring[k].action = "CANCEL_ALL" /\ orders # {}
         \/ at = "cancelling" /\ wiring[k].action = "FLATTEN"
         \/ at = "quarantining" /\ wiring[k].action \in {"QUARANTINE", "FLATTEN"}
  PROVE  ActsForATrip' /\ tick'.at \in {"cancelling", "quarantining", "logging"}
           /\ state' \in {"RUNNING", "QUARANTINE", "RECONCILING"}
<1>1. Tripped(ctx)' = Tripped(ctx)
  BY DEF Tripped
<1>2. CASE orders # {}
  BY <1>1, <1>2 DEF Cancels, ActsForATrip, TypeOK
<1>3. CASE orders = {}
  BY <1>1, <1>3 DEF Cancels, Enter, ActsForATrip, TypeOK
<1> QED BY <1>2, <1>3

\* Wherever in the list it goes on, the tick acts for a trip or falls asleep.
LEMMA RunBreakersActs ==
  ASSUME TypeOK, WiringsAreSequences, NEW k, NEW ctx, UNCHANGED wiring,
         RunBreakers(k, ctx)
  PROVE  ActsForATrip' /\ tick'.at \in {"asleep", "cancelling", "quarantining", "logging"}
           /\ state' \in {"RUNNING", "QUARANTINE", "RECONCILING"}
<1> DEFINE next == Handles(k, ctx)
           j == Min(next)
<1>1. CASE next = {}
  BY <1>1 DEF RunBreakers, Asleep, ActsForATrip, TypeOK
<1>2. CASE next # {}
  <2>1. next \subseteq Nat
    BY DEF Handles, Tripped, WiringsAreSequences, TypeOK
  <2>2. j \in next
    BY <1>2, <2>1, FirstExists
  <2>3. j \in Tripped(ctx) /\ j \in DOMAIN wiring /\ Handled(wiring[j])
    BY <2>2 DEF Handles, Tripped
  <2>4. wiring[j].action \in Actions
    BY <2>3, LimitsArePositive DEF TypeOK
  <2>5. \/ wiring[j].action = "CANCEL_ALL" /\ orders # {}
        \/ wiring[j].action \in {"QUARANTINE", "FLATTEN"}
    BY <2>3, <2>4 DEF Handled, Actions
  <2>6. Cancels(IF wiring[j].action = "QUARANTINE" THEN "quarantining" ELSE "cancelling", j, ctx)
    BY <1>2 DEF RunBreakers
  <2>7. CASE wiring[j].action = "QUARANTINE"
    <3> HIDE DEF j
    <3>1. Cancels("quarantining", j, ctx)
      BY <2>6, <2>7
    <3> QED BY <3>1, <2>3, <2>7, CancelsActs
  <2>8. CASE wiring[j].action # "QUARANTINE"
    <3> HIDE DEF j
    <3>1. Cancels("cancelling", j, ctx)
      BY <2>6, <2>8
    <3> QED BY <3>1, <2>3, <2>5, <2>8, CancelsActs
  <2> QED BY <2>7, <2>8
<1> QED BY <1>1, <1>2

LEMMA TickActs ==
  ASSUME Inv, WiringsAreSequences, Tick
  PROVE  Inv'
<1> USE DEF Inv
<1>1. CASE TickReconciles
  BY <1>1 DEF TickReconciles, TypeOK, ActsForATrip, Refreshed, MayFail
<1>2. CASE TickEvaluates
  BY <1>2, RunBreakersActs DEF TickEvaluates, TypeOK
<1>3. CASE CancelExecuted
  <2>1. tick'.at = tick.at /\ tick'.k = tick.k /\ tick'.ctx = tick.ctx
    BY <1>3 DEF CancelExecuted
  <2>2. ActsForATrip'
    BY <1>3, <2>1 DEF CancelExecuted, ActsForATrip, Tripped
  <2>3. TypeOK'
    BY <1>3, <2>1 DEF CancelExecuted, TypeOK
  <2> QED BY <2>2, <2>3
<1>4. CASE CancelAllEnds
  <2>1. failures' \in Nat /\ UNCHANGED <<wiring, venue, cached, orders, ack>>
    BY <1>4 DEF CancelAllEnds, TypeOK, MayFail
  <2>2. tick.k \in Tripped(tick.ctx)
    BY <1>4 DEF CancelAllEnds, ActsForATrip
  <2>3. CASE tick.at = "quarantining"
    <3>1. Enter(tick.k, tick.ctx)
      BY <1>4, <2>3 DEF CancelAllEnds, Quarantines
    <3>2. ActsForATrip'
      BY <3>1, <2>1, <2>3 DEF Enter, ActsForATrip, Tripped
    <3> QED BY <3>1, <3>2, <2>1 DEF Enter, TypeOK
  <2>4. CASE Quarantines
    <3>1. Cancels("quarantining", tick.k, tick.ctx)
      BY <1>4, <2>4 DEF CancelAllEnds, Quarantines
    <3>2. wiring[tick.k].action = "FLATTEN"
      BY <2>4 DEF Quarantines
    <3>3. ActsForATrip' /\ tick'.at \in {"cancelling", "quarantining", "logging"}
            /\ state' \in {"RUNNING", "QUARANTINE", "RECONCILING"}
      BY <3>1, <3>2, <2>1, <2>2, CancelsActs
    <3> QED BY <3>3, <2>1 DEF TypeOK
  <2>5. CASE tick.at = "cancelling" /\ ~Quarantines
    <3>1. RunBreakers(tick.k + 1, tick.ctx)
      BY <1>4, <2>5 DEF CancelAllEnds, Quarantines
    <3> QED BY <3>1, <2>1, RunBreakersActs DEF TypeOK
  <2> QED BY <1>4, <2>3, <2>4, <2>5 DEF CancelAllEnds
<1>5. CASE LogWritten
  BY <1>5, RunBreakersActs DEF LogWritten, TypeOK
<1> QED BY <1>1, <1>2, <1>3, <1>4, <1>5 DEF Tick

\* What others do leaves the tick where it is.
LEMMA OthersLeaveTick ==
  ASSUME Inv, \/ Acknowledge \/ AckReconciles \/ AckResumes
              \/ SubmitIntent \/ OrderCloses \/ VenueMoves
  PROVE  Inv'
<1>1. UNCHANGED <<wiring, tick>>
  BY DEF Acknowledge, AckReconciles, AckResumes, SubmitIntent, OrderCloses, VenueMoves
<1>2. ActsForATrip'
  BY <1>1 DEF Inv, ActsForATrip, Tripped
<1>3. CASE Acknowledge \/ AckReconciles \/ AckResumes
  BY <1>1, <1>2, <1>3 DEF Inv, TypeOK, Acknowledge, AckReconciles, AckResumes, Refreshed, MayFail
<1>4. CASE SubmitIntent \/ OrderCloses
  BY <1>1, <1>2, <1>4 DEF Inv, TypeOK, SubmitIntent, OrderCloses
<1>5. CASE VenueMoves
  BY <1>1, <1>2, <1>5 DEF Inv, TypeOK, VenueMoves
<1> QED BY <1>2, <1>3, <1>4, <1>5 DEF Inv

\* TypeOK holds, and the tick acts for a trip: whatever the breakers, however
\* often cancels and reconciliations raise, and whoever acts meanwhile.
THEOREM SupervisorActsForATrip ==
  ASSUME WiringsAreSequences
  PROVE  Spec => [](TypeOK /\ ActsForATrip)
<1>1. Init => Inv
  BY DEF Init, Inv, TypeOK, ActsForATrip, Asleep
<1>2. Inv /\ [Next]_vars => Inv'
  <2>1. ASSUME Inv, Next PROVE Inv'
    BY <2>1, TickActs, OthersLeaveTick DEF Next
  <2>2. ASSUME Inv, UNCHANGED vars PROVE Inv'
    BY <2>2 DEF vars, Inv, TypeOK, ActsForATrip, Tripped
  <2> QED BY <2>1, <2>2
<1> QED BY <1>1, <1>2, PTL DEF Spec, Inv

=============================================================================
