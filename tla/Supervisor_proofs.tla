--------------------------- MODULE Supervisor_proofs ---------------------------
(***************************************************************************)
(* Proofs about Supervisor, for any breakers and any actions of theirs,    *)
(* any number of operators and orders, and whatever awaited calls raise.   *)
(*                                                                         *)
(* Whatever a task does when it runs, it either changes the state and      *)
(* queues for the log, or leaves the state alone and suspends elsewhere    *)
(* (Moved); that is proved once for each of the operators the actions are  *)
(* built from, and the invariants follow from it.                          *)
(***************************************************************************)
EXTENDS Supervisor, TLAPS

TaskRecord == [at : Points \cup LogPoints, breaker : 0 .. Len(Breakers),
               rest : SUBSET (1 .. MaxOrders)]

MainPoints == {"new", "log_boot", "reconcile_boot", "log_booted", "up", "await_tick",
               "log_drain", "drain", "log_stop", "done"}
TickPoints == {"none", "sleep", "reconcile", "cancel", "flatten", "quarantine_cancel",
               "log_quarantine"}
OperatorPoints == {"none", "quarantine_cancel", "log_quarantine", "log_ack", "reconcile_ack",
                   "log_acked"}

PointsOf(t) ==
  IF t = "main" THEN MainPoints ELSE IF t = "tick" THEN TickPoints ELSE OperatorPoints

\* Each task waits only where its own calls can.
EachAtItsPoints == \A t \in Tasks : tasks[t].at \in PointsOf(t)

\* The other tasks live while main is up, operators' calls a little longer.
OthersWhileUp ==
  /\ tasks["main"].at # "up" => tasks["tick"] = NoTask
  /\ tasks["main"].at \in {"new", "log_boot", "reconcile_boot", "done"} =>
       \A t \in Tasks \ {"main"} : tasks[t] = NoTask

\* What main's point says of the state and of the bus.
StateAtPoint ==
  /\ tasks["main"].at = "new" => state = "BOOTING"
  /\ tasks["main"].at \in {"log_boot", "reconcile_boot"} => state = "RECONCILING"
  /\ state \in {"DRAINING", "STOPPED"} =>
       tasks["main"].at \in {"log_drain", "drain", "log_stop", "done"}
  /\ tasks["main"].at = "log_stop" => ~busRunning

\* The change announced last is the state; the log's queue holds those not
\* announced yet.
LastAnnounced ==
  busRunning /\ "log" \notin failed /\ tasks["main"].at # "await_tick" =>
    /\ logq = <<>> => heard = state
    /\ logq # <<>> => state = Announces(tasks[logq[Len(logq)]].at)

SupervisorInv == TypeOK /\ EachAtItsPoints /\ OthersWhileUp /\ StateAtPoint /\ LastAnnounced

\* What a task does when it runs: it suspends in Points, or changes the state
\* and queues for the log behind q.
Moved(t, q) ==
  /\ tasks' \in [Tasks -> TaskRecord]
  /\ \A u \in Tasks \ {t} : tasks'[u] = tasks[u]
  /\ tasks'[t].at \in PointsOf(t)
  /\ live' \subseteq live
  /\ \/ tasks'[t].at \in Points /\ logq' = q /\ state' = state
     \/ /\ tasks'[t].at \in LogPoints
        /\ logq' = Append(q, t) /\ state' = Announces(tasks'[t].at)

\* q holds the tasks that await the log, without t, once each.
Pending(q, t) ==
  /\ q \in Seq(Tasks)
  /\ \A i, j \in DOMAIN q : q[i] = q[j] => i = j
  /\ \A u \in Tasks : u # t /\ tasks[u].at \in LogPoints <=> \E i \in DOMAIN q : q[i] = u

-----------------------------------------------------------------------------
(* The points, and the queue for the log. *)

LEMMA PointsAreTyped ==
  ASSUME NEW t \in Tasks
  PROVE  /\ PointsOf(t) \subseteq Points \cup LogPoints
         /\ Points \cap LogPoints = {}
         /\ t # "main" => "log_drain" \notin PointsOf(t) /\ "log_stop" \notin PointsOf(t)
  BY DEF PointsOf, MainPoints, TickPoints, OperatorPoints, Points, LogPoints, Cancelling

LEMMA AnnouncesAState ==
  ASSUME NEW p \in LogPoints
  PROVE  /\ Announces(p) \in States
         /\ Announces(p) \in {"DRAINING", "STOPPED"} => p \in {"log_drain", "log_stop"}
  BY DEF Announces, LogPoints, States

LEMMA NotQueued ==
  ASSUME TypeOK, NEW t \in Tasks, tasks[t].at \notin LogPoints
  PROVE  Pending(logq, t)
  BY DEF TypeOK, Pending

LEMMA HeadQueued ==
  ASSUME TypeOK, NEW t \in Tasks, AtLog(t)
  PROVE  /\ Pending(Tail(logq), t)
         /\ tasks[t].at \in LogPoints
<1>1. /\ logq \in Seq(Tasks) /\ logq # <<>> /\ logq[1] = t
      /\ 1 \in DOMAIN logq /\ DOMAIN logq = 1 .. Len(logq) /\ Len(logq) \in Nat \ {0}
  BY DEF TypeOK, AtLog
<1>2. /\ Tail(logq) \in Seq(Tasks) /\ DOMAIN Tail(logq) = 1 .. Len(logq) - 1
      /\ \A i \in 1 .. Len(logq) - 1 : Tail(logq)[i] = logq[i + 1]
  BY <1>1
<1>3. \A i, j \in DOMAIN Tail(logq) : Tail(logq)[i] = Tail(logq)[j] => i = j
  BY <1>1, <1>2 DEF TypeOK
<1>4. ASSUME NEW u \in Tasks
      PROVE  u # t /\ tasks[u].at \in LogPoints
               <=> \E i \in DOMAIN Tail(logq) : Tail(logq)[i] = u
  <2>1. tasks[u].at \in LogPoints <=> \E i \in DOMAIN logq : logq[i] = u
    BY DEF TypeOK
  <2>2. ASSUME u # t, NEW i \in DOMAIN logq, logq[i] = u
        PROVE  i - 1 \in DOMAIN Tail(logq) /\ Tail(logq)[i - 1] = u
    BY <1>1, <1>2, <2>2
  <2>3. ASSUME NEW i \in DOMAIN Tail(logq), Tail(logq)[i] = u
        PROVE  i + 1 \in DOMAIN logq /\ logq[i + 1] = u /\ u # t
    <3>1. i + 1 \in DOMAIN logq /\ logq[i + 1] = u
      BY <1>1, <1>2, <2>3
    <3>2. i + 1 # 1
      BY <1>2
    <3> QED BY <1>1, <3>1, <3>2 DEF TypeOK
  <2> QED BY <2>1, <2>2, <2>3
<1> QED BY <1>1, <1>2, <1>3, <1>4 DEF Pending, TypeOK

\* What follows for the types of the variables.
LEMMA MovedKeepsTypes ==
  ASSUME TypeOK, NEW t \in Tasks, NEW q, Pending(q, t), Moved(t, q),
         heard' \in States, busRunning' \in BOOLEAN, danger' \subseteq BreakerNames,
         latched' \subseteq Latching, accepted' = accepted, failed' \subseteq FaultKinds
  PROVE  TypeOK'
<1>1. state' \in States
  BY AnnouncesAState DEF Moved, TypeOK
<1>2. live' \subseteq 1 .. accepted' /\ accepted' \in 0 .. MaxOrders
  BY DEF Moved, TypeOK
<1>3. logq' \in Seq(Tasks) /\ \A i, j \in DOMAIN logq' : logq'[i] = logq'[j] => i = j
  <2>1. CASE logq' = q
    BY <2>1 DEF Pending
  <2>2. CASE logq' = Append(q, t)
    <3>1. /\ q \in Seq(Tasks) /\ DOMAIN q = 1 .. Len(q) /\ Len(q) \in Nat
          /\ \A i \in DOMAIN q : q[i] # t
      BY DEF Pending
    <3>2. /\ logq' \in Seq(Tasks) /\ DOMAIN logq' = 1 .. Len(q) + 1
          /\ \A i \in 1 .. Len(q) : logq'[i] = q[i]
          /\ logq'[Len(q) + 1] = t
      BY <2>2, <3>1
    <3> QED BY <3>1, <3>2 DEF Pending
  <2> QED BY <2>1, <2>2 DEF Moved
<1>4. ASSUME NEW u \in Tasks
      PROVE  tasks'[u].at \in LogPoints <=> \E i \in DOMAIN logq' : logq'[i] = u
  <2>1. CASE tasks'[t].at \in Points /\ logq' = q
    BY <2>1, PointsAreTyped DEF Pending, Moved
  <2>2. CASE tasks'[t].at \in LogPoints /\ logq' = Append(q, t)
    <3>1. q \in Seq(Tasks) /\ DOMAIN q = 1 .. Len(q) /\ Len(q) \in Nat
      BY DEF Pending
    <3>2. /\ DOMAIN logq' = 1 .. Len(q) + 1
          /\ \A i \in 1 .. Len(q) : logq'[i] = q[i]
          /\ logq'[Len(q) + 1] = t
      BY <2>2, <3>1
    <3>3. CASE u = t
      BY <2>2, <3>1, <3>2, <3>3
    <3>4. CASE u # t
      <4>1. tasks'[u].at \in LogPoints <=> \E i \in DOMAIN q : q[i] = u
        BY <3>4 DEF Moved, Pending
      <4> QED BY <3>1, <3>2, <3>4, <4>1
    <3> QED BY <3>3, <3>4
  <2> QED BY <2>1, <2>2 DEF Moved
<1> QED BY <1>1, <1>2, <1>3, <1>4 DEF TypeOK, Moved, TaskRecord

\* When the head of the queue is announced, the last of the rest, or else what
\* was just announced, is the state.
LEMMA HeadAnnounced ==
  ASSUME TypeOK, LastAnnounced, NEW t \in Tasks, AtLog(t),
         busRunning, "log" \notin failed, tasks["main"].at # "await_tick"
  PROVE  /\ Tail(logq) = <<>> => Announces(tasks[t].at) = state
         /\ Tail(logq) # <<>> => state = Announces(tasks[Tail(logq)[Len(Tail(logq))]].at)
<1> DEFINE q == Tail(logq)
<1>1. /\ logq \in Seq(Tasks) /\ logq # <<>> /\ logq[1] = t
      /\ Len(logq) \in Nat /\ Len(logq) > 0
  BY DEF TypeOK, AtLog
<1>2. state = Announces(tasks[logq[Len(logq)]].at)
  BY <1>1 DEF LastAnnounced
<1>3. /\ q \in Seq(Tasks) /\ Len(q) = Len(logq) - 1
      /\ \A i \in 1 .. Len(logq) - 1 : q[i] = logq[i + 1]
  BY <1>1
<1> HIDE DEF q
<1>4. CASE Len(logq) = 1
  <2>1. q = <<>>
    BY <1>3, <1>4
  <2> QED BY <1>1, <1>2, <1>4, <2>1 DEF q
<1>5. CASE Len(logq) # 1
  <2>1. q # <<>> /\ q[Len(q)] = logq[Len(logq)]
    BY <1>1, <1>3, <1>5
  <2> QED BY <1>2, <2>1 DEF q
<1> QED BY <1>4, <1>5

\* What follows for the announcements: q is the queue as t found it, or t's
\* change has just been announced out of it.
LEMMA MovedKeepsAnnounced ==
  ASSUME TypeOK, LastAnnounced, NEW t \in Tasks, NEW q, Pending(q, t), Moved(t, q),
         busRunning' => busRunning \/ tasks'[t].at \in LogPoints,
         tasks["main"].at = "await_tick" =>
           tasks'["main"].at = "await_tick" \/ tasks'[t].at \in LogPoints,
         failed \subseteq failed',
         \/ q = logq /\ heard' = heard
         \/ /\ AtLog(t) /\ q = Tail(logq)
            /\ heard' = Announces(tasks[t].at) \/ ~busRunning \/ "log" \in failed'
  PROVE  LastAnnounced'
<1>1. CASE tasks'[t].at \in LogPoints
  <2>1. logq' = Append(q, t) /\ state' = Announces(tasks'[t].at)
    BY <1>1, PointsAreTyped DEF Moved
  <2>2. logq' # <<>> /\ logq'[Len(logq')] = t
    BY <2>1 DEF Pending
  <2> QED BY <2>1, <2>2 DEF LastAnnounced
<1>2. CASE tasks'[t].at \notin LogPoints
  <2> SUFFICES ASSUME busRunning', "log" \notin failed', tasks'["main"].at # "await_tick"
               PROVE  /\ logq' = <<>> => heard' = state'
                      /\ logq' # <<>> => state' = Announces(tasks'[logq'[Len(logq')]].at)
    BY DEF LastAnnounced
  <2>1. logq' = q /\ state' = state
    BY <1>2 DEF Moved
  <2>2. /\ logq = <<>> => heard = state
        /\ logq # <<>> => state = Announces(tasks[logq[Len(logq)]].at)
    BY <1>2 DEF LastAnnounced
  <2>3. ASSUME q # <<>>
        PROVE  q[Len(q)] \in Tasks /\ tasks'[q[Len(q)]] = tasks[q[Len(q)]]
    <3>1. Len(q) \in DOMAIN q /\ q[Len(q)] \in Tasks
      BY <2>3 DEF Pending
    <3>2. q[Len(q)] # t
      BY <3>1 DEF Pending
    <3> QED BY <3>1, <3>2 DEF Moved
  <2>4. CASE q = logq /\ heard' = heard
    BY <2>1, <2>2, <2>3, <2>4
  <2>5. CASE AtLog(t) /\ q = Tail(logq) /\ heard' = Announces(tasks[t].at)
    BY <1>2, <2>1, <2>3, <2>5, HeadAnnounced
  <2>6. busRunning
    BY <1>2
  <2> QED BY <2>4, <2>5, <2>6
<1> QED BY <1>1, <1>2

\* When a task other than main runs, all of it follows.
LEMMA OthersKeepInv ==
  ASSUME SupervisorInv, NEW t \in Tasks \ {"main"}, NEW q, Pending(q, t), Moved(t, q),
         tasks["main"].at \notin {"new", "log_boot", "reconcile_boot", "done"},
         t = "tick" => tasks["main"].at = "up",
         danger' \subseteq BreakerNames, latched' \subseteq Latching, busRunning' = busRunning,
         accepted' = accepted, failed' \subseteq FaultKinds, failed \subseteq failed',
         \/ q = logq /\ heard' = heard
         \/ /\ AtLog(t) /\ q = Tail(logq)
            /\ \/ heard' = IF busRunning THEN Announces(tasks[t].at) ELSE heard
               \/ heard' = heard /\ "log" \in failed'
  PROVE  SupervisorInv' /\ live' \subseteq live
<1>1. heard' \in States /\ busRunning' \in BOOLEAN
  <2>1. AtLog(t) => Announces(tasks[t].at) \in States
    BY HeadQueued, AnnouncesAState DEF SupervisorInv
  <2> QED BY <2>1 DEF SupervisorInv, TypeOK
<1>2. TypeOK'
  BY <1>1, MovedKeepsTypes DEF SupervisorInv
<1>3. "main" \in Tasks /\ "tick" \in Tasks /\ tasks'["main"] = tasks["main"]
  BY DEF Moved, Tasks
<1>4. LastAnnounced'
  BY <1>3, MovedKeepsAnnounced DEF SupervisorInv
<1>5. EachAtItsPoints'
  BY DEF SupervisorInv, EachAtItsPoints, Moved
<1>6. OthersWhileUp'
  BY <1>3 DEF SupervisorInv, OthersWhileUp, Moved
<1>7. state' = state \/ state' \notin {"DRAINING", "STOPPED"}
  BY PointsAreTyped, AnnouncesAState DEF Moved
<1>8. StateAtPoint'
  BY <1>3, <1>7 DEF SupervisorInv, StateAtPoint
<1> QED BY <1>2, <1>4, <1>5, <1>6, <1>8 DEF SupervisorInv, Moved

-----------------------------------------------------------------------------
(* What the actions are built from: each makes its task move. *)

LEMMA TransitionMoves ==
  ASSUME TypeOK, NEW t \in Tasks, NEW q, NEW task \in TaskRecord, NEW point \in LogPoints,
         point \in PointsOf(t), Transition(t, task, point, q), live' = live
  PROVE  Moved(t, q)
BY DEF Transition, Moved, TypeOK, TaskRecord

LEMMA CancelNextMoves ==
  ASSUME TypeOK, NEW t \in Tasks, NEW q, NEW task \in TaskRecord,
         task.at \in Points \cap PointsOf(t), CancelNext(t, task, q)
  PROVE  Moved(t, q)
<1>1. PICK o \in 1 .. MaxOrders :
        /\ live' = live \ {o}
        /\ tasks' = [tasks EXCEPT ![t] = [task EXCEPT !.rest = @ \ 1 .. o]]
  BY DEF CancelNext
<1>2. [task EXCEPT !.rest = @ \ 1 .. o] \in TaskRecord
  BY DEF TaskRecord
<1> QED BY <1>1, <1>2 DEF CancelNext, Moved, TypeOK, TaskRecord

LEMMA CancelAllMoves ==
  ASSUME TypeOK, NEW t \in Tasks, NEW q, NEW task \in TaskRecord,
         NEW point \in Points \cap PointsOf(t), CancelAll(t, task, point, q)
  PROVE  Moved(t, q)
<1>1. [task EXCEPT !.at = point, !.rest = live] \in TaskRecord
  <2>1. live \in SUBSET (1 .. MaxOrders)
    BY SupervisorAssumption DEF TypeOK
  <2> QED BY <2>1 DEF TaskRecord
<1>2. [task EXCEPT !.at = point, !.rest = live].at = point
  BY DEF TaskRecord
<1> QED BY <1>1, <1>2, CancelNextMoves DEF CancelAll

LEMMA QuarantineMoves ==
  ASSUME TypeOK, NEW t \in Tasks \ {"main"}, NEW q, NEW task \in TaskRecord,
         Quarantine(t, task, q)
  PROVE  Moved(t, q)
<1>1. /\ "quarantine_cancel" \in Points \cap PointsOf(t)
      /\ "log_quarantine" \in LogPoints \cap PointsOf(t)
  BY DEF Points, LogPoints, Cancelling, PointsOf, TickPoints, OperatorPoints
<1> QED BY <1>1, CancelAllMoves, TransitionMoves DEF Quarantine

LEMMA EmptyTasks ==
  /\ \A p \in Points : At(p) \in TaskRecord
  /\ NoTask \in TaskRecord /\ NoTask.at = "none"
  /\ \A i \in 1 .. Len(Breakers) : [At("none") EXCEPT !.breaker = i] \in TaskRecord
  /\ Len(Breakers) \in Nat
BY SupervisorAssumption DEF At, NoTask, TaskRecord, Points

LEMMA RunBreakersMoves ==
  ASSUME TypeOK, NEW i \in Nat, NEW q, RunBreakers(i, q), i > 0
  PROVE  Moved("tick", q) /\ latched' \subseteq Latching
<1> DEFINE due == {j \in i .. Len(Breakers) : Acts(Breakers[j])}
<1>1. "tick" \in Tasks \ {"main"}
  BY DEF Tasks
<1>2. ASSUME NEW S, Evaluate(S)
      PROVE  latched' \subseteq Latching
  BY <1>2 DEF Evaluate, TypeOK
<1>3. CASE due = {}
  <2>1. /\ Evaluate(i .. Len(Breakers)) /\ tasks' = [tasks EXCEPT !["tick"] = At("sleep")]
        /\ logq' = q /\ state' = state /\ live' = live
    BY <1>3 DEF RunBreakers
  <2>2. At("sleep") \in TaskRecord /\ At("sleep").at = "sleep" /\ "sleep" \in Points
    BY EmptyTasks DEF Points, At
  <2>3. "sleep" \in PointsOf("tick")
    BY DEF PointsOf, TickPoints
  <2> QED BY <1>1, <1>2, <2>1, <2>2, <2>3 DEF Moved, TypeOK, TaskRecord
<1>4. ASSUME NEW j \in due, Evaluate(i .. j), Handle(j, q)
      PROVE  Moved("tick", q) /\ latched' \subseteq Latching
  <2> DEFINE task == [At("none") EXCEPT !.breaker = j]
  <2>1. task \in TaskRecord
    BY EmptyTasks
  <2>2. "flatten" \in Points \cap PointsOf("tick") /\ "cancel" \in Points \cap PointsOf("tick")
    BY DEF Points, Cancelling, PointsOf, TickPoints
  <2> HIDE DEF task
  <2>3. \/ CancelAll("tick", task, "flatten", q)
        \/ CancelAll("tick", task, "cancel", q)
        \/ Quarantine("tick", task, q)
    BY <1>4 DEF Handle, task
  <2> QED BY <1>1, <1>2, <1>4, <2>1, <2>2, <2>3, CancelAllMoves, QuarantineMoves
<1> QED BY <1>3, <1>4 DEF RunBreakers

LEMMA GoOnMoves ==
  ASSUME TypeOK, NEW t \in Tasks, NEW q, GoOn(t, q)
  PROVE  t # "main" /\ Moved(t, q) /\ latched' \subseteq Latching
<1>1. CASE t = "tick" /\ RunBreakers(tasks[t].breaker + 1, q)
  <2>1. tasks[t].breaker + 1 \in Nat /\ tasks[t].breaker + 1 > 0
    BY EmptyTasks DEF TypeOK
  <2> QED BY <1>1, <2>1, RunBreakersMoves
<1>2. CASE /\ t \in Operators /\ tasks' = [tasks EXCEPT ![t] = NoTask]
           /\ logq' = q /\ UNCHANGED <<state, live, latched>>
  <2>1. t # "main" /\ t # "tick"
    BY <1>2, SupervisorAssumption
  <2>2. NoTask.at \in Points \cap PointsOf(t)
    BY <2>1, EmptyTasks DEF PointsOf, OperatorPoints, Points
  <2> QED BY <1>2, <2>1, <2>2, EmptyTasks DEF Moved, TypeOK, TaskRecord
<1> QED BY <1>1, <1>2 DEF GoOn

\* quarantine goes on after its cancels; main shuts down after its drain.
LEMMA CancelEndsMoves ==
  ASSUME TypeOK, EachAtItsPoints, NEW t \in Tasks, tasks[t].at \in Cancelling, CancelEnds(t)
  PROVE  /\ Moved(t, logq) /\ latched' \subseteq Latching
         /\ \/ t # "main" /\ busRunning' = busRunning
            \/ t = "main" /\ ~busRunning' /\ busRunning' \in BOOLEAN
               /\ tasks'[t].at = "log_stop"
<1> USE DEF TypeOK
<1>1. tasks[t] \in TaskRecord /\ tasks[t].at \in PointsOf(t)
  BY DEF EachAtItsPoints, TaskRecord
<1>2. CASE GoOn(t, logq) /\ UNCHANGED busRunning
  BY <1>2, GoOnMoves
<1>3. CASE /\ tasks[t].at = "flatten" /\ Quarantine(t, tasks[t], logq)
           /\ UNCHANGED <<busRunning, latched>>
  <2>1. t # "main"
    BY <1>1, <1>3 DEF PointsOf, MainPoints
  <2> QED BY <1>1, <1>3, <2>1, QuarantineMoves
<1>4. CASE /\ tasks[t].at = "quarantine_cancel"
           /\ Transition(t, tasks[t], "log_quarantine", logq)
           /\ UNCHANGED <<busRunning, live, latched>>
  <2>1. t # "main" /\ "log_quarantine" \in LogPoints \cap PointsOf(t)
    BY <1>1, <1>4 DEF PointsOf, MainPoints, TickPoints, OperatorPoints, LogPoints
  <2> QED BY <1>1, <1>4, <2>1, TransitionMoves
<1>5. CASE tasks[t].at = "drain" /\ Shutdown(logq) /\ UNCHANGED <<live, latched>>
  <2>1. t = "main" /\ "log_stop" \in LogPoints \cap PointsOf(t)
    BY <1>1, <1>5 DEF PointsOf, MainPoints, TickPoints, OperatorPoints, LogPoints
  <2>2. Moved(t, logq)
    BY <1>1, <1>5, <2>1, TransitionMoves DEF Shutdown
  <2>3. tasks'[t].at = "log_stop"
    BY <1>1, <1>5, <2>1 DEF Shutdown, Transition, TaskRecord
  <2> QED BY <1>5, <2>1, <2>2, <2>3 DEF Shutdown
<1> QED BY <1>2, <1>3, <1>4, <1>5 DEF CancelEnds

LEMMA CancelWrittenMoves ==
  ASSUME TypeOK, EachAtItsPoints, NEW t \in Tasks, CancelWritten(t)
  PROVE  /\ Moved(t, logq) /\ latched' \subseteq Latching
         /\ \/ busRunning' = busRunning /\ (t = "main" => tasks'[t].at = "drain")
            \/ t = "main" /\ ~busRunning' /\ busRunning' \in BOOLEAN
               /\ tasks'[t].at = "log_stop"
         /\ UNCHANGED <<heard, danger, accepted, failed>>
<1>1. tasks[t] \in TaskRecord /\ tasks[t].at \in Points \cap PointsOf(t)
  BY DEF EachAtItsPoints, TaskRecord, TypeOK, CancelWritten, Points
<1>2. CASE CancelNext(t, tasks[t], logq) /\ UNCHANGED <<busRunning, latched>>
  <2>1. Moved(t, logq)
    BY <1>1, <1>2, CancelNextMoves
  <2>2. t = "main" => tasks'[t].at = "drain"
    <3>1. t = "main" => tasks[t].at = "drain"
      BY <1>1 DEF CancelWritten, Cancelling, PointsOf, MainPoints
    <3>2. tasks'[t].at = tasks[t].at
      BY <1>1, <1>2 DEF CancelNext, TaskRecord, TypeOK
    <3> QED BY <3>1, <3>2
  <2> QED BY <1>2, <2>1, <2>2 DEF TypeOK, CancelWritten
<1>3. CASE CancelEnds(t)
  BY <1>3, CancelEndsMoves DEF CancelWritten
<1> QED BY <1>2, <1>3 DEF CancelWritten

\* A task that is under way is so while main lets it.
LEMMA OthersUnderWay ==
  ASSUME SupervisorInv, NEW t \in Tasks \ {"main"}, tasks[t].at # "none"
  PROVE  /\ tasks["main"].at \notin {"new", "log_boot", "reconcile_boot", "done"}
         /\ t = "tick" => tasks["main"].at = "up"
BY EmptyTasks DEF SupervisorInv, OthersWhileUp

-----------------------------------------------------------------------------
(* The tasks other than main keep the invariant. *)

LEMMA CancelWrittenElsewhere ==
  ASSUME SupervisorInv, NEW t \in Tasks \ {"main"}, CancelWritten(t)
  PROVE  SupervisorInv' /\ live' \subseteq live
<1>1. tasks[t].at \notin LogPoints \cup {"none"}
  BY DEF CancelWritten, Cancelling, LogPoints
<1>2. /\ Moved(t, logq) /\ latched' \subseteq Latching /\ busRunning' = busRunning
      /\ UNCHANGED <<heard, danger, accepted, failed>>
  BY CancelWrittenMoves DEF SupervisorInv
<1>3. danger' \subseteq BreakerNames /\ failed' \subseteq FaultKinds
  BY <1>2 DEF SupervisorInv, TypeOK
<1> QED BY <1>1, <1>2, <1>3, NotQueued, OthersUnderWay, OthersKeepInv DEF SupervisorInv

LEMMA ReconciledElsewhere ==
  ASSUME SupervisorInv, NEW t \in Tasks \ {"main"}, Reconciled(t)
  PROVE  SupervisorInv' /\ live' \subseteq live
<1>1. tasks[t].at \in PointsOf(t) /\ tasks[t] \in TaskRecord
  BY DEF SupervisorInv, EachAtItsPoints, TypeOK, TaskRecord
<1>2. tasks[t].at \notin LogPoints \cup {"none"} /\ "log_acked" \in LogPoints \cap PointsOf(t)
  BY <1>1 DEF Reconciled, LogPoints, PointsOf, TickPoints, OperatorPoints
<1>3. /\ Transition(t, tasks[t], "log_acked", logq)
      /\ UNCHANGED <<busRunning, heard, danger, latched, live, accepted, failed>>
  BY DEF Reconciled
<1>4. Moved(t, logq)
  BY <1>1, <1>2, <1>3, TransitionMoves DEF SupervisorInv
<1>5. latched' \subseteq Latching /\ danger' \subseteq BreakerNames /\ failed' \subseteq FaultKinds
  BY <1>3 DEF SupervisorInv, TypeOK
<1> QED BY <1>2, <1>3, <1>4, <1>5, NotQueued, OthersUnderWay, OthersKeepInv DEF SupervisorInv

LEMMA LogWrittenElsewhere ==
  ASSUME SupervisorInv, NEW t \in Tasks \ {"main"}, LogWritten(t)
  PROVE  SupervisorInv' /\ live' \subseteq live
<1>1. AtLog(t) /\ Pending(Tail(logq), t) /\ tasks[t].at \in LogPoints
  BY HeadQueued DEF SupervisorInv, LogWritten
<1>2. tasks[t].at # "none"
  BY <1>1 DEF LogPoints
<1>3. tasks \in [Tasks -> TaskRecord] /\ tasks[t].at \in PointsOf(t)
  BY DEF SupervisorInv, TypeOK, TaskRecord, EachAtItsPoints
<1>4. /\ Moved(t, Tail(logq)) /\ latched' \subseteq Latching /\ danger' \subseteq BreakerNames
      /\ busRunning' = busRunning
  <2>1. CASE /\ tasks[t].at = "log_quarantine" /\ GoOn(t, Tail(logq))
             /\ UNCHANGED <<danger, busRunning>>
    BY <2>1, GoOnMoves DEF SupervisorInv, TypeOK
  <2>2. CASE /\ tasks[t].at = "log_ack"
             /\ tasks' = [tasks EXCEPT ![t].at = "reconcile_ack"] /\ logq' = Tail(logq)
             /\ latched' = IF busRunning THEN {} ELSE latched
             /\ danger' = IF busRunning THEN danger \ Latching ELSE danger
             /\ UNCHANGED <<state, live, busRunning>>
    <3>1. "reconcile_ack" \in Points \cap PointsOf(t)
      BY <1>3, <2>2 DEF Points, PointsOf, TickPoints, OperatorPoints
    <3>2. Moved(t, Tail(logq))
      BY <1>3, <2>2, <3>1 DEF Moved, TaskRecord
    <3> QED BY <2>2, <3>2 DEF SupervisorInv, TypeOK
  <2>3. CASE /\ tasks[t].at = "log_acked"
             /\ tasks' = [tasks EXCEPT ![t] = NoTask] /\ logq' = Tail(logq)
             /\ UNCHANGED <<state, live, latched, danger, busRunning>>
    <3>1. "none" \in Points \cap PointsOf(t)
      BY DEF Points, PointsOf, TickPoints, OperatorPoints
    <3>2. Moved(t, Tail(logq))
      BY <1>3, <2>3, <3>1, EmptyTasks DEF Moved
    <3> QED BY <2>3, <3>2 DEF SupervisorInv, TypeOK
  <2>4. tasks[t].at \in {"log_quarantine", "log_ack", "log_acked"}
    BY <1>1, <1>3 DEF PointsOf, TickPoints, OperatorPoints, LogPoints
  <2> QED BY <2>1, <2>2, <2>3, <2>4 DEF LogWritten
<1>5. /\ heard' = IF busRunning THEN Announces(tasks[t].at) ELSE heard
      /\ accepted' = accepted /\ failed' = failed
  BY DEF LogWritten
<1>6. failed' \subseteq FaultKinds
  BY <1>5 DEF SupervisorInv, TypeOK
<1> QED BY <1>1, <1>2, <1>4, <1>5, <1>6, OthersUnderWay, OthersKeepInv

LEMMA RaisesElsewhere ==
  ASSUME SupervisorInv, NEW t \in Tasks \ {"main"}, Raises(t)
  PROVE  SupervisorInv' /\ live' \subseteq live
<1>1. /\ tasks \in [Tasks -> TaskRecord] /\ tasks[t].at \in PointsOf(t)
      /\ UNCHANGED <<heard, danger, accepted>>
      /\ failed' \subseteq FaultKinds /\ failed \subseteq failed'
  BY DEF SupervisorInv, TypeOK, TaskRecord, EachAtItsPoints, Raises, Fails
<1>2. danger' \subseteq BreakerNames
  BY <1>1 DEF SupervisorInv, TypeOK
<1>3. CASE tasks[t].at \in Cancelling /\ CancelEnds(t)
  <2>1. tasks[t].at \notin LogPoints \cup {"none"}
    BY <1>3 DEF Cancelling, LogPoints
  <2>2. Moved(t, logq) /\ latched' \subseteq Latching /\ busRunning' = busRunning
    BY <1>3, CancelEndsMoves DEF SupervisorInv
  <2> QED BY <1>1, <1>2, <2>1, <2>2, NotQueued, OthersUnderWay, OthersKeepInv
          DEF SupervisorInv
<1>4. CASE /\ tasks[t].at = "reconcile_ack" /\ tasks' = [tasks EXCEPT ![t] = NoTask]
           /\ UNCHANGED <<state, live, latched, busRunning, logq>>
  <2>1. tasks[t].at \notin LogPoints \cup {"none"}
    BY <1>4 DEF LogPoints
  <2>2. "none" \in Points \cap PointsOf(t)
    BY DEF Points, PointsOf, TickPoints, OperatorPoints
  <2>3. Moved(t, logq) /\ latched' \subseteq Latching
    BY <1>1, <1>4, <2>2, EmptyTasks DEF Moved, SupervisorInv, TypeOK
  <2> QED BY <1>1, <1>2, <1>4, <2>1, <2>3, NotQueued, OthersUnderWay, OthersKeepInv
          DEF SupervisorInv
<1>5. CASE Fails("log") /\ AtLog(t) /\ GoOn(t, Tail(logq)) /\ UNCHANGED busRunning
  <2>1. Pending(Tail(logq), t) /\ tasks[t].at \in LogPoints
    BY <1>5, HeadQueued DEF SupervisorInv
  <2>2. tasks[t].at # "none"
    BY <2>1 DEF LogPoints
  <2>3. Moved(t, Tail(logq)) /\ latched' \subseteq Latching
    BY <1>5, GoOnMoves DEF SupervisorInv
  <2>4. "log" \in failed'
    BY <1>5 DEF Fails
  <2> QED BY <1>1, <1>2, <1>5, <2>1, <2>2, <2>3, <2>4, OthersUnderWay, OthersKeepInv
<1>6. tasks[t].at # "reconcile_boot"
  BY <1>1 DEF PointsOf, TickPoints, OperatorPoints
<1> QED BY <1>3, <1>4, <1>5, <1>6 DEF Raises

LEMMA OperatorsCall ==
  ASSUME SupervisorInv, NEW t \in Operators, Acknowledge(t) \/ ManualQuarantine(t)
  PROVE  SupervisorInv' /\ live' \subseteq live
<1>1. /\ t \in Tasks \ {"main"} /\ t # "tick" /\ tasks[t].at = "none"
      /\ NoTask \in TaskRecord
  BY EmptyTasks, SupervisorAssumption DEF Tasks, Acknowledge, ManualQuarantine
<1>2. /\ tasks[t].at \notin LogPoints
      /\ "log_ack" \in LogPoints \cap PointsOf(t)
  BY <1>1 DEF LogPoints, PointsOf, OperatorPoints
<1>3. tasks["main"].at \notin {"new", "log_boot", "reconcile_boot", "done"}
  BY DEF Acknowledge, ManualQuarantine, Up, SupervisorInv, StateAtPoint
<1>4. Moved(t, logq) /\ latched' = latched
  <2>1. CASE Acknowledge(t)
    BY <1>1, <1>2, <2>1, TransitionMoves DEF Acknowledge, SupervisorInv
  <2>2. CASE ManualQuarantine(t)
    BY <1>1, <2>2, QuarantineMoves DEF ManualQuarantine, SupervisorInv
  <2> QED BY <2>1, <2>2
<1>5. UNCHANGED <<busRunning, heard, danger, accepted, failed>>
  BY DEF Acknowledge, ManualQuarantine
<1>6. latched' \subseteq Latching /\ danger' \subseteq BreakerNames /\ failed' \subseteq FaultKinds
  BY <1>4, <1>5 DEF SupervisorInv, TypeOK
<1> QED BY <1>1, <1>2, <1>3, <1>4, <1>5, <1>6, NotQueued, OthersKeepInv DEF SupervisorInv

LEMMA TickGoesOn ==
  ASSUME SupervisorInv, TickWakes \/ TickReconciled
  PROVE  SupervisorInv' /\ live' \subseteq live
<1>1. /\ "tick" \in Tasks \ {"main"} /\ tasks["tick"].at \notin LogPoints \cup {"none"}
      /\ tasks \in [Tasks -> TaskRecord]
  BY DEF Tasks, LogPoints, TickWakes, TickReconciled, SupervisorInv, TypeOK, TaskRecord
<1>2. Moved("tick", logq) /\ latched' \subseteq Latching
  <2>1. CASE TickWakes
    <3>1. At("reconcile") \in TaskRecord /\ At("reconcile").at \in Points \cap PointsOf("tick")
      BY EmptyTasks DEF At, Points, PointsOf, TickPoints
    <3> QED BY <1>1, <2>1, <3>1 DEF TickWakes, Moved, SupervisorInv, TypeOK
  <2>2. CASE TickReconciled
    BY <2>2, RunBreakersMoves DEF TickReconciled, SupervisorInv
  <2> QED BY <2>1, <2>2
<1>3. UNCHANGED <<busRunning, heard, danger, accepted, failed>>
  BY DEF TickWakes, TickReconciled
<1>4. danger' \subseteq BreakerNames /\ failed' \subseteq FaultKinds
  BY <1>3 DEF SupervisorInv, TypeOK
<1> QED BY <1>1, <1>2, <1>3, <1>4, NotQueued, OthersUnderWay, OthersKeepInv
        DEF SupervisorInv

-----------------------------------------------------------------------------
(* main keeps the invariant. *)

\* main runs and does not come or stay up: what is left to show is what its
\* new point says of the state.
LEMMA MainKeepsInv ==
  ASSUME SupervisorInv, NEW q, Pending(q, "main"), Moved("main", q),
         tasks["main"].at # "up", tasks'["main"].at \notin {"new", "up", "done"},
         tasks["main"].at = "await_tick" => tasks'["main"].at \in LogPoints,
         busRunning' => busRunning \/ tasks'["main"].at \in LogPoints, busRunning' \in BOOLEAN,
         danger' = danger, latched' = latched, accepted' = accepted,
         failed' \subseteq FaultKinds, failed \subseteq failed',
         \/ q = logq /\ heard' = heard
         \/ /\ AtLog("main") /\ q = Tail(logq)
            /\ heard' = IF busRunning THEN Announces(tasks["main"].at) ELSE heard,
         tasks'["main"].at \in {"log_boot", "reconcile_boot"} =>
           /\ tasks["main"].at \in {"new", "log_boot", "reconcile_boot"}
           /\ state' = "RECONCILING",
         state' \in {"DRAINING", "STOPPED"} =>
           tasks'["main"].at \in {"log_drain", "drain", "log_stop"},
         tasks'["main"].at = "log_stop" => ~busRunning'
  PROVE  SupervisorInv' /\ live' \subseteq live
<1>1. "main" \in Tasks /\ "tick" \in Tasks
  BY DEF Tasks
<1>2. heard' \in States
  <2>1. AtLog("main") => Announces(tasks["main"].at) \in States
    BY <1>1, HeadQueued, AnnouncesAState DEF SupervisorInv
  <2> QED BY <2>1 DEF SupervisorInv, TypeOK
<1>3. danger' \subseteq BreakerNames /\ latched' \subseteq Latching
  BY DEF SupervisorInv, TypeOK
<1>4. TypeOK'
  BY <1>1, <1>2, <1>3, MovedKeepsTypes DEF SupervisorInv
<1>5. LastAnnounced'
  BY <1>1, MovedKeepsAnnounced DEF SupervisorInv
<1>6. EachAtItsPoints'
  BY DEF SupervisorInv, EachAtItsPoints, Moved
<1>7. OthersWhileUp'
  BY <1>1 DEF SupervisorInv, OthersWhileUp, Moved
<1>8. StateAtPoint'
  BY DEF StateAtPoint
<1> QED BY <1>4, <1>5, <1>6, <1>7, <1>8 DEF SupervisorInv, Moved

LEMMA StartKeepsInv ==
  ASSUME SupervisorInv, Start
  PROVE  SupervisorInv' /\ live' \subseteq live
<1>1. /\ "main" \in Tasks /\ tasks["main"].at = "new" /\ tasks["main"].at \notin LogPoints
      /\ "log_boot" \in LogPoints \cap PointsOf("main")
      /\ At("new") \in TaskRecord /\ tasks \in [Tasks -> TaskRecord]
  BY EmptyTasks DEF Tasks, Start, LogPoints, Points, PointsOf, MainPoints, SupervisorInv,
                    TypeOK, TaskRecord
<1>2. Moved("main", logq)
  BY <1>1, TransitionMoves DEF Start, SupervisorInv
<1>3. tasks'["main"].at = "log_boot" /\ state' = "RECONCILING"
  BY <1>1 DEF Start, Transition, TaskRecord, Announces
<1>4. /\ busRunning' = TRUE
      /\ UNCHANGED <<heard, danger, latched, accepted, failed>>
      /\ failed' \subseteq FaultKinds
  BY DEF Start, SupervisorInv, TypeOK
<1> QED BY <1>1, <1>2, <1>3, <1>4, NotQueued, MainKeepsInv DEF SupervisorInv

LEMMA TickEndedKeepsInv ==
  ASSUME SupervisorInv, TickEnded
  PROVE  SupervisorInv' /\ live' \subseteq live
<1>1. /\ "main" \in Tasks /\ tasks["main"].at = "await_tick" /\ tasks["main"].at \notin LogPoints
      /\ "log_drain" \in LogPoints \cap PointsOf("main")
      /\ tasks \in [Tasks -> TaskRecord]
  BY DEF Tasks, TickEnded, LogPoints, PointsOf, MainPoints, SupervisorInv, TypeOK, TaskRecord
<1>2. Moved("main", logq)
  BY <1>1, TransitionMoves DEF TickEnded, SupervisorInv
<1>3. tasks'["main"].at = "log_drain"
  BY <1>1 DEF TickEnded, Transition, TaskRecord
<1>4. /\ UNCHANGED <<busRunning, heard, danger, latched, accepted, failed>>
      /\ failed' \subseteq FaultKinds /\ busRunning' \in BOOLEAN
  BY DEF TickEnded, SupervisorInv, TypeOK
<1> QED BY <1>1, <1>2, <1>3, <1>4, NotQueued, MainKeepsInv DEF SupervisorInv

LEMMA MainReconciled ==
  ASSUME SupervisorInv, Reconciled("main")
  PROVE  SupervisorInv' /\ live' \subseteq live
<1>1. /\ "main" \in Tasks /\ tasks \in [Tasks -> TaskRecord]
      /\ tasks["main"].at = "reconcile_boot" /\ tasks["main"].at \notin LogPoints
      /\ "log_booted" \in LogPoints \cap PointsOf("main")
  BY DEF Tasks, Reconciled, LogPoints, PointsOf, MainPoints, SupervisorInv, EachAtItsPoints,
         TypeOK, TaskRecord
<1>2. Moved("main", logq)
  BY <1>1, TransitionMoves DEF Reconciled, SupervisorInv
<1>3. tasks'["main"].at = "log_booted" /\ state' = "RUNNING"
  BY <1>1 DEF Reconciled, Transition, TaskRecord, Announces
<1>4. /\ UNCHANGED <<busRunning, heard, danger, latched, accepted, failed>>
      /\ failed' \subseteq FaultKinds /\ busRunning' \in BOOLEAN
  BY DEF Reconciled, SupervisorInv, TypeOK
<1>5. tasks["main"].at # "await_tick"
  BY <1>1
<1> QED BY <1>1, <1>2, <1>3, <1>4, <1>5, NotQueued, MainKeepsInv DEF SupervisorInv

\* The drain goes on, or is over: written and raised cancels alike.
LEMMA DrainKeepsInv ==
  ASSUME SupervisorInv, tasks["main"].at = "drain", Moved("main", logq),
         \/ tasks'["main"].at = "drain" /\ busRunning' = busRunning
         \/ tasks'["main"].at = "log_stop" /\ ~busRunning' /\ busRunning' \in BOOLEAN,
         UNCHANGED <<heard, danger, latched, accepted>>,
         failed' \subseteq FaultKinds, failed \subseteq failed'
  PROVE  SupervisorInv' /\ live' \subseteq live
<1>1. "main" \in Tasks /\ tasks["main"].at \notin LogPoints
  BY DEF Tasks, LogPoints
<1>2. busRunning' \in BOOLEAN
  BY DEF SupervisorInv, TypeOK
<1> QED BY <1>1, <1>2, NotQueued, MainKeepsInv DEF SupervisorInv

LEMMA MainCancelWritten ==
  ASSUME SupervisorInv, CancelWritten("main")
  PROVE  SupervisorInv' /\ live' \subseteq live
<1>1. "main" \in Tasks /\ tasks["main"].at = "drain"
  BY DEF Tasks, CancelWritten, Cancelling, SupervisorInv, EachAtItsPoints, PointsOf, MainPoints
<1>2. /\ Moved("main", logq)
      /\ \/ tasks'["main"].at = "drain" /\ busRunning' = busRunning
         \/ tasks'["main"].at = "log_stop" /\ ~busRunning' /\ busRunning' \in BOOLEAN
      /\ UNCHANGED <<heard, danger, accepted, failed>>
  BY <1>1, CancelWrittenMoves DEF SupervisorInv
<1>3. latched' = latched
  BY <1>1 DEF CancelWritten, CancelEnds
<1>4. failed' \subseteq FaultKinds /\ failed \subseteq failed'
  BY <1>2 DEF SupervisorInv, TypeOK
<1> QED BY <1>1, <1>2, <1>3, <1>4, DrainKeepsInv

\* Everything is over.
LEMMA ExitKeepsInv ==
  ASSUME SupervisorInv, Exit, UNCHANGED <<state, danger, latched, live, accepted, busRunning>>,
         heard' \in States, failed' \subseteq FaultKinds,
         busRunning /\ "log" \notin failed' => heard' = state
  PROVE  SupervisorInv' /\ live' \subseteq live
<1>1. "main" \in Tasks /\ At("done") \in TaskRecord /\ At("done").at = "done"
  BY EmptyTasks DEF Tasks, At, Points
<1>2. /\ tasks' \in [Tasks -> TaskRecord] /\ logq' = <<>>
      /\ tasks'["main"] = At("done") /\ \A t \in Tasks \ {"main"} : tasks'[t] = NoTask
  BY <1>1, EmptyTasks DEF Exit
<1>3. \A t \in Tasks : tasks'[t].at \in Points \cap PointsOf(t)
  BY <1>1, <1>2, EmptyTasks
     DEF Points, PointsOf, MainPoints, TickPoints, OperatorPoints
<1>4. TypeOK'
  BY <1>2, <1>3, PointsAreTyped DEF SupervisorInv, TypeOK, TaskRecord
<1>5. EachAtItsPoints' /\ OthersWhileUp'
  BY <1>1, <1>2, <1>3 DEF EachAtItsPoints, OthersWhileUp, Tasks
<1>6. StateAtPoint' /\ LastAnnounced'
  BY <1>1, <1>2 DEF StateAtPoint, LastAnnounced
<1> QED BY <1>4, <1>5, <1>6 DEF SupervisorInv

LEMMA MainLogWritten ==
  ASSUME SupervisorInv, LogWritten("main")
  PROVE  SupervisorInv' /\ live' \subseteq live
<1> DEFINE q == Tail(logq)
<1>1. /\ "main" \in Tasks /\ "tick" \in Tasks /\ AtLog("main")
      /\ Pending(q, "main") /\ tasks["main"].at \in LogPoints
  BY HeadQueued DEF Tasks, SupervisorInv, LogWritten
<1>2. tasks \in [Tasks -> TaskRecord] /\ tasks["main"].at \in PointsOf("main")
  BY <1>1 DEF SupervisorInv, TypeOK, TaskRecord, EachAtItsPoints
<1>3. /\ heard' = IF busRunning THEN Announces(tasks["main"].at) ELSE heard
      /\ accepted' = accepted /\ failed' = failed
  BY DEF LogWritten
<1>4. failed' \subseteq FaultKinds /\ failed \subseteq failed' /\ busRunning \in BOOLEAN
  BY <1>3 DEF SupervisorInv, TypeOK
<1>5. heard' \in States
  BY <1>1, <1>3, AnnouncesAState DEF SupervisorInv, TypeOK
<1> HIDE DEF q
<1>6. CASE /\ tasks["main"].at = "log_boot"
           /\ tasks' = [tasks EXCEPT !["main"].at = "reconcile_boot"] /\ logq' = q
           /\ UNCHANGED <<state, live, latched, danger, busRunning>>
  <2>1. /\ "reconcile_boot" \in Points \cap PointsOf("main")
        /\ tasks'["main"].at = "reconcile_boot"
    BY <1>1, <1>2, <1>6 DEF Points, PointsOf, MainPoints, TaskRecord
  <2>2. Moved("main", q)
    BY <1>1, <1>2, <1>6, <2>1 DEF Moved, TaskRecord
  <2>3. state' = "RECONCILING"
    BY <1>6 DEF SupervisorInv, StateAtPoint
  <2> QED BY <1>1, <1>3, <1>4, <1>6, <2>1, <2>2, <2>3, MainKeepsInv DEF q
<1>7. CASE tasks["main"].at = "log_drain" /\ UNCHANGED <<latched, danger>>
           /\ \/ CancelAll("main", tasks["main"], "drain", q) /\ UNCHANGED busRunning
              \/ Shutdown(q) /\ UNCHANGED live
  <2>1. /\ "drain" \in Points \cap PointsOf("main")
        /\ "log_stop" \in LogPoints \cap PointsOf("main")
    BY DEF Points, LogPoints, PointsOf, MainPoints, Cancelling
  <2>2. /\ Moved("main", q)
        /\ tasks["main"] \in TaskRecord
    BY <1>1, <1>2, <1>7, <2>1, CancelAllMoves, TransitionMoves DEF Shutdown, SupervisorInv
  <2>3. \/ tasks'["main"].at = "drain" /\ busRunning' = busRunning
        \/ tasks'["main"].at = "log_stop" /\ busRunning' = FALSE
    <3>1. CASE CancelAll("main", tasks["main"], "drain", q) /\ UNCHANGED busRunning
      <4>1. [tasks["main"] EXCEPT !.at = "drain", !.rest = live].at = "drain"
        BY <2>2 DEF TaskRecord
      <4>2. \A task \in {[tasks["main"] EXCEPT !.at = "drain", !.rest = live]}, o \in Nat :
              [task EXCEPT !.rest = @ \ 1 .. o].at = "drain"
        BY <2>2, <4>1 DEF TaskRecord
      <4> QED BY <1>1, <1>2, <3>1, <4>2 DEF CancelAll, CancelNext
    <3>2. CASE Shutdown(q)
      BY <1>1, <1>2, <2>2, <3>2 DEF Shutdown, Transition, TaskRecord
    <3> QED BY <1>7, <3>1, <3>2
  <2>4. /\ tasks'["main"].at \notin {"new", "up", "done", "log_boot", "reconcile_boot"}
        /\ tasks'["main"].at = "log_stop" => ~busRunning' \/ busRunning' = busRunning
        /\ tasks'["main"].at \in {"log_drain", "drain", "log_stop"}
        /\ busRunning' => busRunning
    BY <2>3
  <2>5. tasks'["main"].at = "log_stop" => ~busRunning'
    BY <2>3
  <2>6. tasks["main"].at \notin {"up", "await_tick"} /\ busRunning' \in BOOLEAN
    BY <1>4, <1>7, <2>3
  <2> QED BY <1>1, <1>3, <1>4, <1>7, <2>2, <2>4, <2>5, <2>6, MainKeepsInv DEF q
<1>8. CASE /\ tasks["main"].at = "log_booted"
           /\ tasks' = [tasks EXCEPT !["main"] = At("up"), !["tick"] = At("sleep")]
           /\ logq' = q
           /\ UNCHANGED <<state, live, latched, danger, busRunning>>
  <2>1. /\ At("up") \in TaskRecord /\ At("up").at = "up" /\ "up" \in Points \cap PointsOf("main")
        /\ At("sleep") \in TaskRecord /\ At("sleep").at = "sleep"
        /\ "sleep" \in Points \cap PointsOf("tick")
    BY EmptyTasks DEF At, Points, PointsOf, MainPoints, TickPoints
  <2>2. /\ tasks' \in [Tasks -> TaskRecord]
        /\ tasks'["main"] = At("up") /\ tasks'["tick"] = At("sleep")
        /\ \A u \in Tasks \ {"main", "tick"} : tasks'[u] = tasks[u]
    BY <1>1, <1>2, <1>8, <2>1
  <2>3. tasks["tick"].at \notin LogPoints
    BY <1>8, EmptyTasks DEF SupervisorInv, OthersWhileUp, LogPoints
  <2>4. \A u \in Tasks : tasks'[u].at \in LogPoints <=> u # "main" /\ tasks[u].at \in LogPoints
    BY <2>1, <2>2, <2>3, PointsAreTyped
  <2>5. TypeOK'
    BY <1>1, <1>3, <1>4, <1>5, <1>8, <2>2, <2>4 DEF SupervisorInv, TypeOK, Pending, TaskRecord
  <2>6. EachAtItsPoints' /\ OthersWhileUp'
    BY <1>2, <2>1, <2>2 DEF SupervisorInv, EachAtItsPoints, OthersWhileUp
  <2>7. StateAtPoint'
    BY <1>8, <2>1, <2>2 DEF SupervisorInv, StateAtPoint
  <2>8. LastAnnounced'
    <3> SUFFICES ASSUME busRunning', "log" \notin failed'
                 PROVE  /\ q = <<>> => heard' = state
                        /\ q # <<>> => state = Announces(tasks'[q[Len(q)]].at)
      BY <1>8 DEF LastAnnounced
    <3>1. /\ q = <<>> => heard' = state
          /\ q # <<>> => state = Announces(tasks[q[Len(q)]].at)
      BY <1>1, <1>3, <1>8, HeadAnnounced DEF SupervisorInv, q
    <3>2. ASSUME q # <<>>
          PROVE  tasks'[q[Len(q)]] = tasks[q[Len(q)]]
      <4>1. Len(q) \in DOMAIN q /\ q[Len(q)] \in Tasks
        BY <1>1, <3>2 DEF Pending
      <4>2. q[Len(q)] # "main" /\ tasks[q[Len(q)]].at \in LogPoints
        BY <1>1, <4>1 DEF Pending
      <4> QED BY <2>2, <2>3, <4>1, <4>2
    <3> QED BY <3>1, <3>2
  <2> QED BY <1>8, <2>5, <2>6, <2>7, <2>8 DEF SupervisorInv
<1>9. CASE /\ tasks["main"].at = "log_stop" /\ Exit
           /\ UNCHANGED <<state, live, latched, danger, busRunning>>
  <2>1. ~busRunning
    BY <1>9 DEF SupervisorInv, StateAtPoint
  <2> QED BY <1>3, <1>4, <1>5, <1>9, <2>1, ExitKeepsInv
<1>10. tasks["main"].at \in {"log_boot", "log_booted", "log_drain", "log_stop"}
  BY <1>1, <1>2 DEF PointsOf, MainPoints, LogPoints
<1> QED BY <1>6, <1>7, <1>8, <1>9, <1>10 DEF LogWritten, q

LEMMA MainRaises ==
  ASSUME SupervisorInv, Raises("main")
  PROVE  SupervisorInv' /\ live' \subseteq live
<1>1. /\ "main" \in Tasks /\ tasks["main"].at \in PointsOf("main")
      /\ UNCHANGED <<heard, danger, accepted>> /\ heard' \in States
      /\ failed' \subseteq FaultKinds /\ failed \subseteq failed'
  BY DEF Tasks, SupervisorInv, EachAtItsPoints, TypeOK, Raises, Fails
<1>2. CASE tasks["main"].at \in Cancelling /\ CancelEnds("main")
  <2>1. tasks["main"].at = "drain"
    BY <1>1, <1>2 DEF Cancelling, PointsOf, MainPoints
  <2>2. /\ Moved("main", logq)
        /\ tasks'["main"].at = "log_stop" /\ ~busRunning' /\ busRunning' \in BOOLEAN
    BY <1>1, <1>2, CancelEndsMoves DEF SupervisorInv
  <2>3. latched' = latched
    BY <1>2, <2>1 DEF CancelEnds
  <2> QED BY <1>1, <2>1, <2>2, <2>3, DrainKeepsInv
<1>3. CASE /\ tasks["main"].at = "reconcile_boot" /\ Exit
           /\ UNCHANGED <<state, live, latched, busRunning>>
  <2>1. \A t \in Tasks : tasks[t].at \notin LogPoints
    BY <1>3, EmptyTasks DEF SupervisorInv, OthersWhileUp, LogPoints
  <2>2. logq = <<>>
    <3>1. logq \in Seq(Tasks) /\ \A i \in DOMAIN logq : logq[i] \in Tasks
      BY DEF SupervisorInv, TypeOK
    <3>2. DOMAIN logq = {}
      BY <2>1, <3>1 DEF SupervisorInv, TypeOK
    <3> QED BY <3>1, <3>2
  <2>3. busRunning /\ "log" \notin failed' => heard' = state
    BY <1>1, <1>3, <2>2 DEF SupervisorInv, LastAnnounced
  <2> QED BY <1>1, <1>3, <2>3, ExitKeepsInv
<1>4. CASE Fails("log") /\ Exit /\ UNCHANGED <<state, live, latched, busRunning>>
  <2>1. "log" \in failed'
    BY <1>4 DEF Fails
  <2> QED BY <1>1, <1>4, <2>1, ExitKeepsInv
<1>5. tasks["main"].at # "reconcile_ack"
  BY <1>1 DEF PointsOf, MainPoints
<1> QED BY <1>2, <1>3, <1>4, <1>5 DEF Raises

\* The queue without the tick task's entry holds the others', once each.
LEMMA RemovedAtOthers ==
  ASSUME TypeOK, NEW i \in DOMAIN logq
  PROVE  Pending(RemovedAt(i, logq), logq[i])
<1> DEFINE q == RemovedAt(i, logq)
           at(j) == IF j < i THEN j ELSE j + 1
<1>1. /\ logq \in Seq(Tasks) /\ DOMAIN logq = 1 .. Len(logq) /\ Len(logq) \in Nat
      /\ i \in 1 .. Len(logq)
  BY DEF TypeOK
<1>2. /\ \A j \in 1 .. Len(logq) - 1 : at(j) \in 1 .. Len(logq) /\ at(j) # i
      /\ \A j, k \in 1 .. Len(logq) - 1 : at(j) = at(k) => j = k
      /\ \A k \in 1 .. Len(logq) : k # i => \E j \in 1 .. Len(logq) - 1 : at(j) = k
  <2>1. ASSUME NEW k \in 1 .. Len(logq), k # i
        PROVE  \E j \in 1 .. Len(logq) - 1 : at(j) = k
    <3>1. CASE k < i
      BY <1>1, <3>1
    <3>2. CASE k > i
      <4>1. k - 1 \in 1 .. Len(logq) - 1 /\ at(k - 1) = k
        BY <1>1, <3>2
      <4> QED BY <4>1
    <3> QED BY <1>1, <2>1, <3>1, <3>2
  <2> QED BY <1>1, <2>1
<1>3. q = [j \in 1 .. Len(logq) - 1 |-> logq[at(j)]]
  BY DEF RemovedAt
<1> HIDE DEF at
<1>4. q \in Seq(Tasks)
  <2>1. \A j \in 1 .. Len(logq) - 1 : logq[at(j)] \in Tasks
    BY <1>1, <1>2
  <2>2. Len(logq) - 1 \in Nat
    BY <1>1
  <2> QED BY <1>3, <2>1, <2>2
<1>5. DOMAIN q = 1 .. Len(logq) - 1 /\ \A j \in DOMAIN q : q[j] = logq[at(j)]
  BY <1>3
<1> HIDE DEF q
<1>6. ASSUME NEW j \in DOMAIN q, NEW k \in DOMAIN q, q[j] = q[k]
      PROVE  j = k
  <2>1. at(j) \in DOMAIN logq /\ at(k) \in DOMAIN logq /\ logq[at(j)] = logq[at(k)]
    BY <1>1, <1>2, <1>5, <1>6
  <2>2. at(j) = at(k)
    BY <2>1 DEF TypeOK
  <2> QED BY <1>2, <1>5, <2>2
<1>7. ASSUME NEW u \in Tasks
      PROVE  u # logq[i] /\ tasks[u].at \in LogPoints <=> \E j \in DOMAIN q : q[j] = u
  <2>1. tasks[u].at \in LogPoints <=> \E k \in DOMAIN logq : logq[k] = u
    BY DEF TypeOK
  <2>2. \A k \in DOMAIN logq : logq[k] = logq[i] => k = i
    BY DEF TypeOK
  <2>3. ASSUME NEW k \in DOMAIN logq, logq[k] = u, u # logq[i]
        PROVE  \E j \in DOMAIN q : q[j] = u
    <3>1. PICK j \in 1 .. Len(logq) - 1 : at(j) = k
      BY <1>1, <1>2, <2>3
    <3> QED BY <1>5, <2>3, <3>1
  <2>4. ASSUME NEW j \in DOMAIN q, q[j] = u
        PROVE  u # logq[i] /\ \E k \in DOMAIN logq : logq[k] = u
    BY <1>1, <1>2, <1>5, <2>2, <2>4
  <2> QED BY <2>1, <2>3, <2>4
<1> QED BY <1>4, <1>6, <1>7 DEF Pending, q

LEMMA StopKeepsInv ==
  ASSUME SupervisorInv, Stop
  PROVE  SupervisorInv' /\ live' \subseteq live
<1>1. /\ "main" \in Tasks /\ "tick" \in Tasks /\ tasks \in [Tasks -> TaskRecord]
      /\ tasks["main"].at = "up"
  BY DEF Tasks, SupervisorInv, TypeOK, TaskRecord, Stop
<1>2. /\ At("await_tick") \in TaskRecord /\ At("await_tick").at = "await_tick"
      /\ "await_tick" \in Points \cap PointsOf("main")
      /\ "none" \in Points \cap PointsOf("tick")
  BY EmptyTasks DEF At, Points, PointsOf, MainPoints, TickPoints
<1>3. /\ tasks' \in [Tasks -> TaskRecord]
      /\ tasks'["main"] = At("await_tick") /\ tasks'["tick"] = NoTask
      /\ \A u \in Tasks \ {"main", "tick"} : tasks'[u] = tasks[u]
  BY <1>1, <1>2, EmptyTasks DEF Stop
<1>4. Pending(logq', "tick")
  <2>1. CASE (\A i \in DOMAIN logq : logq[i] # "tick") /\ logq' = logq
    <3>1. tasks["tick"].at \notin LogPoints
      BY <1>1, <2>1 DEF SupervisorInv, TypeOK
    <3> QED BY <1>1, <2>1, <3>1, NotQueued DEF SupervisorInv
  <2>2. CASE \E i \in DOMAIN logq : logq[i] = "tick" /\ logq' = RemovedAt(i, logq)
    BY <2>2, RemovedAtOthers DEF SupervisorInv
  <2> QED BY <2>1, <2>2 DEF Stop
<1>5. \A u \in Tasks : tasks'[u].at \in LogPoints <=> u # "tick" /\ tasks[u].at \in LogPoints
  BY <1>1, <1>2, <1>3, EmptyTasks, PointsAreTyped DEF LogPoints
<1>6. TypeOK'
  BY <1>3, <1>4, <1>5 DEF Stop, SupervisorInv, TypeOK, Pending, TaskRecord
<1>7. EachAtItsPoints' /\ OthersWhileUp'
  BY <1>1, <1>2, <1>3, EmptyTasks DEF SupervisorInv, EachAtItsPoints, OthersWhileUp
<1>8. StateAtPoint' /\ LastAnnounced'
  BY <1>2, <1>3 DEF Stop, StateAtPoint, LastAnnounced
<1> QED BY <1>6, <1>7, <1>8 DEF SupervisorInv, Stop

-----------------------------------------------------------------------------
(* Every step keeps the invariant; only Submit adds an order. *)

LEMMA InitSatisfiesInv ==
  ASSUME Init
  PROVE  SupervisorInv
<1>1. /\ At("new") \in TaskRecord /\ At("new").at = "new" /\ "new" \in Points
      /\ "main" \in Tasks
  BY EmptyTasks DEF At, Points, Tasks
<1>2. TypeOK
  <2>1. tasks \in [Tasks -> TaskRecord] /\ \A t \in Tasks : tasks[t].at \notin LogPoints
    BY <1>1, EmptyTasks DEF Init, LogPoints
  <2>2. logq \in Seq(Tasks) /\ DOMAIN logq = {}
    BY DEF Init
  <2>3. accepted \in 0 .. MaxOrders /\ live \subseteq 1 .. accepted
    BY SupervisorAssumption DEF Init
  <2>4. \A t \in Tasks : tasks[t].at \in LogPoints <=> \E i \in DOMAIN logq : logq[i] = t
    BY <2>1, <2>2
  <2> QED BY <2>1, <2>2, <2>3, <2>4 DEF Init, TypeOK, TaskRecord, States
<1>3. EachAtItsPoints /\ OthersWhileUp
  BY <1>1, EmptyTasks
     DEF Init, EachAtItsPoints, OthersWhileUp, PointsOf, MainPoints, TickPoints,
         OperatorPoints, Tasks
<1>4. StateAtPoint /\ LastAnnounced
  BY <1>1 DEF Init, StateAtPoint, LastAnnounced
<1> QED BY <1>2, <1>3, <1>4 DEF SupervisorInv

\* Submit, the venue and the world leave the tasks, the state and the log alone.
WorldSteps == Submit \/ SubmitRejected \/ OrderCloses \/ ConditionChanges

LEMMA WorldKeepsInv ==
  ASSUME SupervisorInv, WorldSteps
  PROVE  SupervisorInv'
<1>1. /\ UNCHANGED <<state, busRunning, heard, tasks, logq, failed>>
  BY DEF WorldSteps, Submit, SubmitRejected, OrderCloses, ConditionChanges
<1>2. /\ accepted' \in 0 .. MaxOrders /\ live' \subseteq 1 .. accepted'
      /\ latched' \subseteq Latching /\ danger' \subseteq BreakerNames
  <2>1. CASE Submit
    BY <2>1, SupervisorAssumption DEF Submit, SupervisorInv, TypeOK
  <2>2. CASE SubmitRejected
    BY <2>2 DEF SubmitRejected, Evaluate, SupervisorInv, TypeOK
  <2>3. CASE OrderCloses
    BY <2>3 DEF OrderCloses, SupervisorInv, TypeOK
  <2>4. CASE ConditionChanges
    BY <2>4 DEF ConditionChanges, SupervisorInv, TypeOK
  <2> QED BY <2>1, <2>2, <2>3, <2>4 DEF WorldSteps
<1>3. TypeOK'
  BY <1>1, <1>2 DEF SupervisorInv, TypeOK
<1>4. EachAtItsPoints' /\ OthersWhileUp' /\ StateAtPoint' /\ LastAnnounced'
  BY <1>1 DEF SupervisorInv, EachAtItsPoints, OthersWhileUp, StateAtPoint, LastAnnounced
<1> QED BY <1>3, <1>4 DEF SupervisorInv

LEMMA NextKeepsInv ==
  ASSUME SupervisorInv, [Next]_vars
  PROVE  SupervisorInv' /\ (live' \subseteq live \/ Submit)
<1>1. CASE Start
  BY <1>1, StartKeepsInv
<1>2. CASE Stop
  BY <1>2, StopKeepsInv
<1>3. CASE TickEnded
  BY <1>3, TickEndedKeepsInv
<1>4. CASE TickWakes \/ TickReconciled
  BY <1>4, TickGoesOn
<1>5. ASSUME NEW t \in Tasks, Returns(t) \/ Raises(t)
      PROVE  SupervisorInv' /\ live' \subseteq live
  <2>1. CASE t = "main"
    BY <1>5, <2>1, MainCancelWritten, MainReconciled, MainLogWritten, MainRaises DEF Returns
  <2>2. CASE t # "main"
    BY <1>5, <2>2, CancelWrittenElsewhere, ReconciledElsewhere, LogWrittenElsewhere,
       RaisesElsewhere DEF Returns
  <2> QED BY <2>1, <2>2
<1>6. ASSUME NEW t \in Operators, Acknowledge(t) \/ ManualQuarantine(t)
      PROVE  SupervisorInv' /\ live' \subseteq live
  BY <1>6, OperatorsCall
<1>7. CASE WorldSteps
  <2>1. live' \subseteq live \/ Submit
    BY <1>7 DEF WorldSteps, SubmitRejected, OrderCloses, ConditionChanges
  <2> QED BY <1>7, <2>1, WorldKeepsInv
<1>8. CASE UNCHANGED vars
  BY <1>8 DEF vars, SupervisorInv, TypeOK, EachAtItsPoints, OthersWhileUp, StateAtPoint,
              LastAnnounced
<1> QED BY <1>1, <1>2, <1>3, <1>4, <1>5, <1>6, <1>7, <1>8 DEF Next, WorldSteps

THEOREM SupervisorInvHolds == Spec => []SupervisorInv
<1>1. Init => SupervisorInv
  BY InitSatisfiesInv
<1>2. SupervisorInv /\ [Next]_vars => SupervisorInv'
  BY NextKeepsInv
<1> QED BY <1>1, <1>2, PTL DEF Spec

-----------------------------------------------------------------------------
(* The properties. *)

\* Every variable has its type, and a task waits for the log exactly while it
\* is in the log's queue, once: no call, however it is interrupted by stop, by
\* what it awaits raising or by the process's end, is left waiting for a row
\* nobody writes.
THEOREM TypeCorrect == Spec => []TypeOK
<1>1. SupervisorInv => TypeOK
  BY DEF SupervisorInv
<1> QED BY <1>1, SupervisorInvHolds, PTL

\* stop ends the tick task before it changes the state (default.py:172-191): no
\* handler of a tripped breaker runs on while the system drains or after.
THEOREM NoTickOnceStopping == Spec => []NoTickWhileStopping
<1>1. SupervisorInv => NoTickWhileStopping
  BY DEF SupervisorInv, StateAtPoint, OthersWhileUp, NoTickWhileStopping
<1> QED BY <1>1, SupervisorInvHolds, PTL

\* Subscribers to SystemStateChanged hear the changes in the order they were
\* made, though each is announced only after its own awaited write.
THEOREM SubscribersHearTheState == Spec => []SubscribersAgree
<1>1. SupervisorInv => SubscribersAgree
  BY DEF SupervisorInv, LastAnnounced, SubscribersAgree
<1> QED BY <1>1, SupervisorInvHolds, PTL

=============================================================================
