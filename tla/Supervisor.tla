------------------------------ MODULE Supervisor ------------------------------
(***************************************************************************)
(* DefaultSupervisor (runtime/supervisor/default.py) with the parts its    *)
(* state machine acts through: the event bus, DefaultRiskManager and its   *)
(* breakers, and the executor's risk gate in front of the order path.      *)
(*                                                                         *)
(* The tasks of the asyncio loop are the process's main, which starts the  *)
(* supervisor and stops it on a signal, the supervisor's own tick task,    *)
(* and the operators' calls.  A task runs without interruption until it    *)
(* awaits the event log, a cancel, a reconciliation or its sleep.          *)
(***************************************************************************)
EXTENDS Integers, Sequences, FiniteSets

CONSTANTS
  Breakers,       \* the breakers in the order the risk manager evaluates them
  Action,         \* the TriggerAction of each
  Latching,       \* those that stay tripped until a human acknowledges
  Operators,      \* tasks in which operators call the supervisor
  OperatorCalls,  \* what they call: "acknowledge", "quarantine"
  MaxOrders,      \* bound: orders accepted
  FaultKinds      \* which awaited calls may raise, each once (the bound):
                  \* "cancel", "reconcile", "log"

BreakerNames == {Breakers[i] : i \in DOMAIN Breakers}

ASSUME SupervisorAssumption ==
  /\ Breakers \in Seq(STRING)
  /\ Action \in [BreakerNames -> {"REJECT_NEW", "CANCEL_ALL", "QUARANTINE", "FLATTEN"}]
  /\ Latching \subseteq BreakerNames
  /\ OperatorCalls \subseteq {"acknowledge", "quarantine"}
  /\ {"main", "tick"} \cap Operators = {}
  /\ MaxOrders \in Nat
  /\ FaultKinds \subseteq {"cancel", "reconcile", "log"}

VARIABLES
  state,       \* _state
  busRunning,  \* _bus_running
  heard,       \* new_state of the last SystemStateChanged its subscribers got
  danger,      \* breakers whose condition the account and feeds now meet
  latched,     \* breakers with _latched set
  live,        \* orders open at the venue and in the OMS
  accepted,    \* how many orders were accepted so far
  tasks,       \* where each task is suspended
  logq,        \* tasks awaiting the event log, in the order they wrote
  failed       \* the kinds of calls that have raised

vars == <<state, busRunning, heard, danger, latched, live, accepted, tasks, logq, failed>>

States == {"BOOTING", "RECONCILING", "RUNNING", "QUARANTINE", "DRAINING", "STOPPED"}
Tasks == {"main", "tick"} \cup Operators

\* "breaker" is the position of the breaker being handled, "rest" what a
\* cancel_all under way has still to cancel.
At(point) == [at |-> point, breaker |-> 0, rest |-> {}]
NoTask == At("none")

Least(i, S) == i \in S /\ \A j \in S : i <= j

-----------------------------------------------------------------------------
(* _transition: the state changes at once, then the log is awaited. *)

Announces(point) ==
  CASE point \in {"log_boot", "log_ack"}     -> "RECONCILING"
    [] point \in {"log_booted", "log_acked"} -> "RUNNING"
    [] point = "log_quarantine"              -> "QUARANTINE"
    [] point = "log_drain"                   -> "DRAINING"
    [] point = "log_stop"                    -> "STOPPED"

TransitionJumpsQueue(t, task, point, q) ==   \* mutant: the newest row is written first
  /\ state' = Announces(point)
  /\ tasks' = [tasks EXCEPT ![t] = [task EXCEPT !.at = point]]
  /\ logq' = <<t>> \o q

\* The log's connection writes in the order of the calls.
Transition(t, task, point, q) ==
  /\ state' = Announces(point)
  /\ tasks' = [tasks EXCEPT ![t] = [task EXCEPT !.at = point]]
  /\ logq' = Append(q, t)

-----------------------------------------------------------------------------
(* Cancelling and the handling of a tripped breaker. *)

\* oms.cancel_all over "rest": an order is cancelled at the venue before its
\* row is awaited; one closed meanwhile is skipped.
CancelNext(t, task, q) ==
  /\ \E o \in 1 .. MaxOrders : /\ Least(o, task.rest \cap live)
                              /\ live' = live \ {o}
                              /\ tasks' = [tasks EXCEPT ![t] = [task EXCEPT !.rest = @ \ 1 .. o]]
  /\ logq' = q
  /\ UNCHANGED state

CancelAll(t, task, point, q) == CancelNext(t, [task EXCEPT !.at = point, !.rest = live], q)

\* quarantine, its guard having seen RUNNING.  With nothing to cancel
\* cancel_all does not suspend.
Quarantine(t, task, q) ==
  \/ live # {} /\ CancelAll(t, task, "quarantine_cancel", q)
  \/ live = {} /\ Transition(t, task, "log_quarantine", q) /\ UNCHANGED live

\* evaluate() of the breakers at the positions S.
Evaluate(S) == latched' = latched \cup ({Breakers[k] : k \in S} \cap danger \cap Latching)

Trips(b) == b \in latched \/ b \in danger

ActsInRunningOnly(b) ==   \* mutant: a FLATTEN outside RUNNING is ignored whole
  Trips(b) /\ CASE Action[b] = "REJECT_NEW" -> FALSE
                [] Action[b] = "CANCEL_ALL" -> live # {}
                [] Action[b] \in {"QUARANTINE", "FLATTEN"} -> state = "RUNNING"

ActsOnOrders(b) ==   \* mutant: a FLATTEN with nothing to cancel does nothing
  Trips(b) /\ (live # {} \/ (Action[b] = "QUARANTINE" /\ state = "RUNNING"))

\* The handler of BreakerTripped does something: it suspends the tick task.
Acts(b) ==
  Trips(b) /\ CASE Action[b] = "REJECT_NEW" -> FALSE
                [] Action[b] = "CANCEL_ALL" -> live # {}
                [] Action[b] = "QUARANTINE" -> state = "RUNNING"
                [] Action[b] = "FLATTEN"    -> live # {} \/ state = "RUNNING"

\* _on_breaker_tripped, dispatched by the bus while the tick task waits.
Handle(i, q) ==
  LET action == Action[Breakers[i]]
      task   == [At("none") EXCEPT !.breaker = i]
  IN  \/ /\ action \in {"CANCEL_ALL", "FLATTEN"} /\ live # {}
         /\ CancelAll("tick", task, IF action = "FLATTEN" THEN "flatten" ELSE "cancel", q)
      \/ /\ action = "QUARANTINE" \/ (action = "FLATTEN" /\ live = {})
         /\ Quarantine("tick", task, q)

\* risk.tick from the i-th breaker on: up to the first whose handler suspends,
\* or to the end and the next sleep.
RunBreakers(i, q) ==
  LET due == {j \in i .. Len(Breakers) : Acts(Breakers[j])}
  IN  \/ /\ due = {}
         /\ Evaluate(i .. Len(Breakers))
         /\ tasks' = [tasks EXCEPT !["tick"] = At("sleep")]
         /\ logq' = q
         /\ UNCHANGED <<state, live>>
      \/ \E j \in due : Least(j, due) /\ Evaluate(i .. j) /\ Handle(j, q)

\* A quarantine is over, returned or raised: the bus swallows what a handler
\* raises and risk.tick goes on to the next breaker; an operator's call ends.
GoOn(t, q) ==
  \/ t = "tick" /\ RunBreakers(tasks[t].breaker + 1, q)
  \/ /\ t \in Operators
     /\ tasks' = [tasks EXCEPT ![t] = NoTask]
     /\ logq' = q
     /\ UNCHANGED <<state, live, latched>>

ExitAbandonsWrites ==   \* mutant: the tasks in the log's queue stay in it
  /\ tasks' = [t \in Tasks |-> IF t = "main" THEN At("done") ELSE NoTask]
  /\ UNCHANGED logq

\* Asyncio cancels what is left of the tasks when main ends.
Exit ==
  /\ tasks' = [t \in Tasks |-> IF t = "main" THEN At("done") ELSE NoTask]
  /\ logq' = <<>>

-----------------------------------------------------------------------------
(* Starting, stopping, and the calls of operators. *)

\* start up to its first transition.
Start ==
  /\ tasks["main"].at = "new"
  /\ busRunning' = TRUE
  /\ Transition("main", At("new"), "log_boot", logq)
  /\ UNCHANGED <<heard, danger, latched, live, accepted, failed>>

Up == tasks["main"].at \notin {"new", "done"}

StopLeavesTick ==   \* mutant: the tick task is not cancelled
  /\ tasks["main"].at = "up" /\ state \notin {"DRAINING", "STOPPED"}
  /\ tasks' = [tasks EXCEPT !["main"] = At("await_tick")]
  /\ UNCHANGED <<state, busRunning, heard, danger, latched, live, accepted, logq, failed>>

\* q without its i-th entry.
RemovedAt(i, q) == [j \in 1 .. Len(q) - 1 |-> q[IF j < i THEN j ELSE j + 1]]

\* stop, on a signal: the tick task is cancelled wherever it waits, in the
\* middle of a quarantine too, and stop awaits its end.
Stop ==
  /\ tasks["main"].at = "up" /\ state \notin {"DRAINING", "STOPPED"}
  /\ tasks' = [tasks EXCEPT !["main"] = At("await_tick"), !["tick"] = NoTask]
  /\ \/ (\A i \in DOMAIN logq : logq[i] # "tick") /\ logq' = logq
     \/ \E i \in DOMAIN logq : logq[i] = "tick" /\ logq' = RemovedAt(i, logq)
  /\ UNCHANGED <<state, busRunning, heard, danger, latched, live, accepted, failed>>

TickEnded ==
  /\ tasks["main"].at = "await_tick"
  /\ Transition("main", tasks["main"], "log_drain", logq)
  /\ UNCHANGED <<busRunning, heard, danger, latched, live, accepted, failed>>

\* stop after the drain: components stop, whatever they raise; the bus goes
\* down before the last transition.
Shutdown(q) ==
  /\ busRunning' = FALSE
  /\ Transition("main", tasks["main"], "log_stop", q)

\* acknowledge raises outside QUARANTINE.
Acknowledge(t) ==
  /\ "acknowledge" \in OperatorCalls /\ tasks[t] = NoTask
  /\ Up /\ state = "QUARANTINE"
  /\ Transition(t, NoTask, "log_ack", logq)
  /\ UNCHANGED <<busRunning, heard, danger, latched, live, accepted, failed>>

\* quarantine does nothing outside RUNNING.
ManualQuarantine(t) ==
  /\ "quarantine" \in OperatorCalls /\ tasks[t] = NoTask
  /\ Up /\ state = "RUNNING"
  /\ Quarantine(t, NoTask, logq)
  /\ UNCHANGED <<busRunning, heard, danger, latched, accepted, failed>>

-----------------------------------------------------------------------------
(* The tick task. *)

\* The sleep is over: the heartbeat is published, reconcile is awaited.
TickWakes ==
  /\ tasks["tick"].at = "sleep"
  /\ tasks' = [tasks EXCEPT !["tick"] = At("reconcile")]
  /\ UNCHANGED <<state, busRunning, heard, danger, latched, live, accepted, logq, failed>>

\* The tick's reconcile returned, or raised and was logged: risk.tick.
TickReconciled ==
  /\ tasks["tick"].at = "reconcile"
  /\ RunBreakers(1, logq)
  /\ UNCHANGED <<busRunning, heard, danger, accepted, failed>>

-----------------------------------------------------------------------------
(* Awaited calls return or raise. *)

CancellingInTick == {"cancel", "flatten", "quarantine_cancel"}   \* mutant: the drain hangs

Cancelling == {"cancel", "flatten", "quarantine_cancel", "drain"}

\* What follows a cancel_all, returned or raised.  quarantine does not look at
\* the state again.
CancelEnds(t) ==
  \/ /\ tasks[t].at = "cancel" \/ (tasks[t].at = "flatten" /\ state # "RUNNING")
     /\ GoOn(t, logq)
     /\ UNCHANGED busRunning
  \/ /\ tasks[t].at = "flatten" /\ state = "RUNNING"
     /\ Quarantine(t, tasks[t], logq)
     /\ UNCHANGED <<busRunning, latched>>
  \/ /\ tasks[t].at = "quarantine_cancel"
     /\ Transition(t, tasks[t], "log_quarantine", logq)
     /\ UNCHANGED <<busRunning, live, latched>>
  \/ /\ tasks[t].at = "drain"
     /\ Shutdown(logq)
     /\ UNCHANGED <<live, latched>>

CancelWritten(t) ==
  /\ tasks[t].at \in Cancelling
  /\ IF tasks[t].rest \cap live # {}
     THEN CancelNext(t, tasks[t], logq) /\ UNCHANGED <<busRunning, latched>>
     ELSE CancelEnds(t)
  /\ UNCHANGED <<heard, danger, accepted, failed>>

ReconciledWithoutResume(t) ==   \* mutant: acknowledge does not go on to RUNNING
  /\ tasks[t].at \in {"reconcile_boot", "reconcile_ack"}
  /\ \/ t = "main" /\ Transition(t, tasks[t], "log_booted", logq)
     \/ t # "main" /\ tasks' = [tasks EXCEPT ![t] = NoTask] /\ UNCHANGED <<state, logq>>
  /\ UNCHANGED <<busRunning, heard, danger, latched, live, accepted, failed>>

Reconciled(t) ==
  /\ tasks[t].at \in {"reconcile_boot", "reconcile_ack"}
  /\ Transition(t, tasks[t],
                IF t = "main" THEN "log_booted" ELSE "log_acked", logq)
  /\ UNCHANGED <<busRunning, heard, danger, latched, live, accepted, failed>>

AtLog(t) == logq # <<>> /\ Head(logq) = t

\* The row of t's transition is written; subscribers hear of it, DrawdownBreaker
\* clears its latch and its history on QUARANTINE -> RECONCILING.
LogWritten(t) ==
  /\ AtLog(t)
  /\ heard' = IF busRunning THEN Announces(tasks[t].at) ELSE heard
  /\ \/ /\ tasks[t].at = "log_boot"
        /\ tasks' = [tasks EXCEPT ![t].at = "reconcile_boot"] /\ logq' = Tail(logq)
        /\ UNCHANGED <<state, live, latched, danger, busRunning>>
     \/ /\ tasks[t].at = "log_booted"
        /\ tasks' = [tasks EXCEPT ![t] = At("up"), !["tick"] = At("sleep")]
        /\ logq' = Tail(logq)
        /\ UNCHANGED <<state, live, latched, danger, busRunning>>
     \/ /\ tasks[t].at = "log_quarantine"
        /\ GoOn(t, Tail(logq))
        /\ UNCHANGED <<danger, busRunning>>
     \/ /\ tasks[t].at = "log_ack"
        /\ tasks' = [tasks EXCEPT ![t].at = "reconcile_ack"] /\ logq' = Tail(logq)
        /\ latched' = IF busRunning THEN {} ELSE latched
        /\ danger' = IF busRunning THEN danger \ Latching ELSE danger
        /\ UNCHANGED <<state, live, busRunning>>
     \/ /\ tasks[t].at = "log_acked"
        /\ tasks' = [tasks EXCEPT ![t] = NoTask] /\ logq' = Tail(logq)
        /\ UNCHANGED <<state, live, latched, danger, busRunning>>
     \/ /\ tasks[t].at = "log_drain" /\ live # {}
        /\ CancelAll(t, tasks[t], "drain", Tail(logq))
        /\ UNCHANGED <<latched, danger, busRunning>>
     \/ /\ tasks[t].at = "log_drain" /\ live = {}
        /\ Shutdown(Tail(logq))
        /\ UNCHANGED <<live, latched, danger>>
     \/ /\ tasks[t].at = "log_stop"
        /\ Exit
        /\ UNCHANGED <<state, live, latched, danger, busRunning>>
  /\ UNCHANGED <<accepted, failed>>

Fails(kind) == kind \in FaultKinds \ failed /\ failed' = failed \cup {kind}

\* An awaited call raises.  What cancel_all raises is caught where it is
\* called, and what a handler raises by the bus; an operator gets what its
\* call raises; what start and stop raise ends the process.
Raises(t) ==
  /\ \/ /\ Fails("cancel") /\ tasks[t].at \in Cancelling
        /\ CancelEnds(t)
     \/ /\ Fails("reconcile") /\ tasks[t].at = "reconcile_ack"
        /\ tasks' = [tasks EXCEPT ![t] = NoTask]
        /\ UNCHANGED <<state, live, latched, busRunning, logq>>
     \/ /\ Fails("reconcile") /\ tasks[t].at = "reconcile_boot"
        /\ Exit
        /\ UNCHANGED <<state, live, latched, busRunning>>
     \/ /\ Fails("log") /\ AtLog(t) /\ t # "main"
        /\ GoOn(t, Tail(logq))
        /\ UNCHANGED busRunning
     \/ /\ Fails("log") /\ AtLog(t) /\ t = "main"
        /\ Exit
        /\ UNCHANGED <<state, live, latched, busRunning>>
  /\ UNCHANGED <<heard, danger, accepted>>

-----------------------------------------------------------------------------
(* The strategy's orders, and the world. *)

\* From the start of market data, awaited with the first reconciliation, to
\* its stop after the drain.
Trading == tasks["main"].at \in {"reconcile_boot", "log_booted", "up", "await_tick",
                                 "log_drain", "drain"}

\* The breakers check evaluates: all, unless one trips.
Checked == 1 .. Len(Breakers)

\* Executor.submit_intent: risk.check, then the order is at the venue before
\* anything is awaited.  Neither looks at the supervisor's state.
Submit ==
  /\ Trading /\ accepted < MaxOrders
  /\ ~\E k \in Checked : Trips(Breakers[k])
  /\ accepted' = accepted + 1
  /\ live' = live \cup {accepted + 1}
  /\ UNCHANGED <<state, busRunning, heard, danger, latched, tasks, logq, failed>>

\* check stops at the first breaker that trips; a latching one latches.
SubmitRejected ==
  /\ Trading
  /\ \E k \in Checked : /\ Least(k, {j \in Checked : Trips(Breakers[j])})
                        /\ Evaluate({k})
  /\ UNCHANGED <<state, busRunning, heard, danger, live, accepted, tasks, logq, failed>>

\* The venue filled an order.
OrderCloses ==
  /\ Trading
  /\ \E o \in live : live' = live \ {o}
  /\ UNCHANGED <<state, busRunning, heard, danger, latched, accepted, tasks, logq, failed>>

\* Equity, positions and heartbeats come to meet a breaker's condition, or
\* cease to.
ConditionChanges ==
  /\ Trading
  /\ \E b \in BreakerNames : danger' = IF b \in danger THEN danger \ {b} ELSE danger \cup {b}
  /\ UNCHANGED <<state, busRunning, heard, latched, live, accepted, tasks, logq, failed>>

-----------------------------------------------------------------------------

Init ==
  /\ state = "BOOTING" /\ heard = "BOOTING"
  /\ busRunning = FALSE
  /\ danger = {} /\ latched = {}
  /\ live = {} /\ accepted = 0
  /\ tasks = [t \in Tasks |-> IF t = "main" THEN At("new") ELSE NoTask]
  /\ logq = <<>> /\ failed = {}

Returns(t) == CancelWritten(t) \/ Reconciled(t) \/ LogWritten(t)

Next ==
  \/ Start \/ Stop \/ TickEnded \/ TickWakes \/ TickReconciled
  \/ \E t \in Tasks : Returns(t) \/ Raises(t)
  \/ \E t \in Operators : Acknowledge(t) \/ ManualQuarantine(t)
  \/ Submit \/ SubmitRejected \/ OrderCloses \/ ConditionChanges

Spec == Init /\ [][Next]_vars

\* What is awaited returns (or raises), the sleep ends, and the loop resumes
\* whoever waited.  Nothing obliges operators, strategy or signals to come.
FairSpec ==
  /\ Spec
  /\ WF_vars(TickEnded) /\ WF_vars(TickWakes) /\ WF_vars(TickReconciled)
  /\ \A t \in Tasks : WF_vars(Returns(t))

-----------------------------------------------------------------------------
(* Properties. *)

Points ==
  {"none", "new", "reconcile_boot", "up", "await_tick", "done", "sleep", "reconcile",
   "reconcile_ack"} \cup Cancelling
LogPoints ==
  {"log_boot", "log_booted", "log_ack", "log_acked", "log_quarantine", "log_drain", "log_stop"}

\* Every variable has its type, and a task waits for the log exactly while it
\* is in the log's queue, once.
TypeOK ==
  /\ state \in States /\ heard \in States
  /\ busRunning \in BOOLEAN
  /\ danger \subseteq BreakerNames /\ latched \subseteq Latching
  /\ accepted \in 0 .. MaxOrders /\ live \subseteq 1 .. accepted
  /\ tasks \in [Tasks -> [at : Points \cup LogPoints, breaker : 0 .. Len(Breakers),
                          rest : SUBSET (1 .. MaxOrders)]]
  /\ logq \in Seq(Tasks)
  /\ \A i, j \in DOMAIN logq : logq[i] = logq[j] => i = j
  /\ \A t \in Tasks : tasks[t].at \in LogPoints <=> \E i \in DOMAIN logq : logq[i] = t
  /\ failed \subseteq FaultKinds

\* "No path returns from QUARANTINE to RUNNING without an explicit
\* acknowledge()" (runtime/system_state.py:17-18), which goes by RECONCILING:
\* no call that was under way when the system was quarantined resumes it.
ResumesOnlyByAck == [][state = "QUARANTINE" => state' # "RUNNING"]_vars

\* No handler of a tripped breaker runs on while the system drains or after:
\* stop ends the tick task before it changes the state ("no more new
\* BreakerTripped events", supervisor/default.py:172).
NoTickWhileStopping ==
  state \in {"DRAINING", "STOPPED"} => tasks["tick"] = NoTask

\* Subscribers to SystemStateChanged, who unlatch by it, hear the changes in
\* the order they were made: when no change is on its way to them the last
\* they heard of is the state.  Only the change whose announcement stop cuts
\* short stays unheard until the next.
SubscribersAgree ==
  busRunning /\ logq = <<>> /\ "log" \notin failed /\ tasks["main"].at # "await_tick"
    => heard = state

Ending == tasks["main"].at \notin {"reconcile_boot", "log_booted", "up"}

\* A latched breaker, all of which flatten, takes the system out of RUNNING,
\* whichever calls raise and whoever else acts on the state meanwhile.
LatchedLeavesRunning ==
  (latched # {} /\ state = "RUNNING") ~> (state # "RUNNING" \/ Ending)

\* ... and has every order cancelled, those too that were accepted in
\* QUARANTINE: a cancel_all that raised is repeated by the next tick.
LatchedClearsBook == latched # {} ~> (live = {} \/ latched = {} \/ Ending)

\* A shutdown completes though the cancels of its drain fail.
StopCompletes ==
  tasks["main"].at = "await_tick" ~> (state = "STOPPED" \/ "log" \in failed)

\* RECONCILING is a passage: what a start or an acknowledge began ends, unless
\* it raised.
ReconcilingEnds ==
  state = "RECONCILING" ~> (state # "RECONCILING" \/ failed \cap {"log", "reconcile"} # {})

\* A system whose re-reconciliation failed "stays in QUARANTINE"
\* (supervisor/base.py:67-68): with no call under way it is not RECONCILING.
FailedAckStaysQuarantined ==
  tasks["main"].at = "up" /\ (\A t \in Operators : tasks[t] = NoTask) => state # "RECONCILING"

\* QUARANTINE "stops accepting new order submissions" (supervisor/base.py:54).
NoOrderInQuarantine == [][state = "QUARANTINE" => accepted' = accepted]_vars

=============================================================================
