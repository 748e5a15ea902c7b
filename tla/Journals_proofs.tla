--------------------------- MODULE Journals_proofs ---------------------------
(***************************************************************************)
(* Proofs about Journals, for any tasks that handle fills, clock, number   *)
(* of calls and of restarts: the journals implement DurableLog, and no     *)
(* order's row is durable before its fill's.                               *)
(*                                                                         *)
(* The inductive invariant is an operator of the state it is about, so     *)
(* that a step can be taken apart: the statement executed leaves its       *)
(* worker's queue, the transaction or the file changes, the task moves on, *)
(* and its next statement is sent.                                         *)
(***************************************************************************)
EXTENDS Journals, FiniteSetTheorems, TLAPS

AnyRow == Row \cup {NoRow}
Statement == [op : {"insert", "commit", "close"}, row : AnyRow, task : Tasks \cup {"none"}]
Planned == [conn : Conns, row : AnyRow]
Transaction == [conn : Conns \cup {"none"}, rows : Seq(Row)]

\* The rows of a sequence of rows, those the connection's transaction has, and
\* all that a statement has put anywhere.
RowsIn(rows) == {rows[i] : i \in DOMAIN rows}
TxnRows(x, c) == IF x.conn = c THEN RowsIn(x.rows) ELSE {}
Stored(d, x) == RowsIn(d) \cup RowsIn(x.rows)

\* A row of one of the calls so far.
IsKnown(row, n) == row \in Row /\ row.call <= n

\* An order's row has its fill's in the file.
Backed(row, d) ==
  row.table = "order" => \E fill \in RowsIn(d) : fill.table = "fill" /\ fill.call = row.call

\* n: calls, d: the disk, x: the transaction, tk: the tasks, wk: the workers'
\* queues, cl: the closed connections.
StoredInv(n, d, x) ==
  /\ \A row \in Stored(d, x) : IsKnown(row, n) /\ Backed(row, d)
  /\ \A i, j \in DOMAIN x.rows : x.rows[i] = x.rows[j] => i = j
  /\ RowsIn(x.rows) \cap RowsIn(d) = {}
  /\ x.conn = "none" => x.rows = <<>>

\* An order's write comes just after its fill's, or has the fill's row in the
\* file; a write still to be sent is of a row not yet put anywhere.
PlansInv(plan, n, d, x) ==
  \A i \in DOMAIN plan :
    /\ plan[i].row # NoRow => IsKnown(plan[i].row, n)
    /\ i > 1 => plan[i].row \notin Stored(d, x)
    /\ plan[i].row.table = "order" =>
         IF i = 1 THEN Backed(plan[1].row, d)
         ELSE plan[i - 1].row.table = "fill" /\ plan[i - 1].row.call = plan[i].row.call

\* No two writes are of the same row.
DistinctPlans(tk) ==
  \A t, u \in Tasks : \A i \in DOMAIN tk[t], j \in DOMAIN tk[u] :
    tk[t][i].row = tk[u][j].row /\ tk[t][i].row # NoRow => t = u /\ i = j

TasksInv(tk, n, d, x) ==
  DistinctPlans(tk) /\ \A t \in Tasks : PlansInv(tk[t], n, d, x)

\* A statement is of the write its task awaits.  What is inserted is nowhere
\* yet, what is committed is in the file or in the connection's transaction.
Sound(s, c, tk, n, d, x, cl) ==
  /\ s.task # "none" => tk[s.task] # <<>> /\ tk[s.task][1].row = s.row
  /\ s.op = "insert" =>
       /\ IsKnown(s.row, n) /\ Backed(s.row, d) /\ s.row \notin Stored(d, x)
       /\ \A t \in Tasks : \A i \in DOMAIN tk[t] : i > 1 => tk[t][i].row # s.row
  /\ s.op = "commit" /\ c \notin cl => s.row \in RowsIn(d) \cup TxnRows(x, c)
  /\ s.op = "close" => s.row = NoRow

Apart(r, s) ==
  /\ r.task = s.task => r.task = "none"
  /\ r.op = "insert" /\ s.op = "insert" => r.row # s.row

WorkInv(tk, wk, n, d, x, cl) ==
  /\ \A c \in Conns : \A i \in DOMAIN wk[c] : Sound(wk[c][i], c, tk, n, d, x, cl)
  /\ \A c, e \in Conns : \A i \in DOMAIN wk[c], j \in DOMAIN wk[e] :
       c # e \/ i # j => Apart(wk[c][i], wk[e][j])

AllInv(tk, wk, n, d, x, cl) ==
  StoredInv(n, d, x) /\ TasksInv(tk, n, d, x) /\ WorkInv(tk, wk, n, d, x, cl)

ApartFromAll(s, wk) ==
  \A c \in Conns : \A i \in DOMAIN wk[c] : Apart(s, wk[c][i]) /\ Apart(wk[c][i], s)

\* A task none of whose statements is in a queue.
Silent(t, wk) == \A c \in Conns : \A i \in DOMAIN wk[c] : wk[c][i].task # t

-----------------------------------------------------------------------------
(* A statement leaves the queue, and one joins it. *)

\* s is the first statement of a connection's queue; the rest is without it.
FirstOf(s, c, tk, wk, n, d, x, cl, rest) ==
  /\ WorkInv(tk, wk, n, d, x, cl)
  /\ wk \in [Conns -> Seq(Statement)] /\ c \in Conns /\ wk[c] # <<>>
  /\ s = Head(wk[c]) /\ rest = [wk EXCEPT ![c] = Tail(wk[c])]

LEMMA Dropped ==
  ASSUME NEW tk, NEW wk, NEW n, NEW d, NEW x, NEW cl, NEW s, NEW c, NEW rest,
         FirstOf(s, c, tk, wk, n, d, x, cl, rest)
  PROVE  /\ rest \in [Conns -> Seq(Statement)] /\ WorkInv(tk, rest, n, d, x, cl)
         /\ s \in Statement /\ Sound(s, c, tk, n, d, x, cl)
         /\ ApartFromAll(s, rest)
         /\ s.task # "none" => Silent(s.task, rest)
<1> DEFINE at(e, j) == IF e = c THEN j + 1 ELSE j
<1> USE DEF FirstOf
<1>1. wk[c] \in Seq(Statement)
  OBVIOUS
<1>2. /\ s = wk[c][1] /\ s \in Statement /\ 1 \in DOMAIN wk[c] /\ Tail(wk[c]) \in Seq(Statement)
      /\ DOMAIN Tail(wk[c]) = 1 .. Len(wk[c]) - 1 /\ DOMAIN wk[c] = 1 .. Len(wk[c]) /\ Len(wk[c]) \in Nat
      /\ \A j \in 1 .. Len(wk[c]) - 1 : Tail(wk[c])[j] = wk[c][j + 1]
  BY <1>1
<1>3. rest \in [Conns -> Seq(Statement)]
  BY <1>2
<1>4. ASSUME NEW e \in Conns, NEW j \in DOMAIN rest[e]
      PROVE  /\ at(e, j) \in DOMAIN wk[e] /\ rest[e][j] = wk[e][at(e, j)]
             /\ j \in Nat /\ (e = c => at(e, j) # 1)
  <2>1. CASE e = c
    <3>1. rest[e] = Tail(wk[c])
      BY <2>1
    <3> QED BY <1>2, <2>1, <3>1
  <2>2. CASE e # c
    <3>1. rest[e] = wk[e] /\ wk[e] \in Seq(Statement)
      BY <2>2
    <3>2. j \in Nat
      BY <3>1
    <3> QED BY <2>2, <3>1, <3>2
  <2> QED BY <2>1, <2>2
<1>5. ASSUME NEW e \in Conns, NEW f \in Conns, NEW i \in DOMAIN rest[e], NEW j \in DOMAIN rest[f],
             e # f \/ i # j
      PROVE  e # f \/ at(e, i) # at(f, j)
  BY <1>4, <1>5
<1> HIDE DEF at
<1>6. Sound(s, c, tk, n, d, x, cl)
  BY <1>2 DEF WorkInv
<1>7. ASSUME NEW e \in Conns, NEW j \in DOMAIN rest[e]
      PROVE  Apart(s, rest[e][j]) /\ Apart(rest[e][j], s)
  <2>1. at(e, j) \in DOMAIN wk[e] /\ rest[e][j] = wk[e][at(e, j)] /\ (e = c => at(e, j) # 1)
    BY <1>4
  <2>2. PICK k : k = at(e, j)
    OBVIOUS
  <2> QED BY <1>2, <2>1, <2>2 DEF WorkInv
<1>8. WorkInv(tk, rest, n, d, x, cl)
  <2>1. ASSUME NEW e \in Conns, NEW j \in DOMAIN rest[e]
        PROVE  Sound(rest[e][j], e, tk, n, d, x, cl)
    BY <1>4 DEF WorkInv
  <2>2. ASSUME NEW e \in Conns, NEW f \in Conns, NEW i \in DOMAIN rest[e], NEW j \in DOMAIN rest[f],
               e # f \/ i # j
        PROVE  Apart(rest[e][i], rest[f][j])
    <3>1. PICK k, l : k = at(e, i) /\ l = at(f, j)
      OBVIOUS
    <3>2. e # f \/ k # l
      BY <1>5, <2>2, <3>1
    <3>3. k \in DOMAIN wk[e] /\ l \in DOMAIN wk[f] /\ rest[e][i] = wk[e][k] /\ rest[f][j] = wk[f][l]
      BY <1>4, <3>1
    <3> QED BY <3>2, <3>3 DEF WorkInv
  <2> QED BY <2>1, <2>2 DEF WorkInv
<1>9. s.task # "none" => Silent(s.task, rest)
  BY <1>7 DEF Silent, Apart
<1>10. ApartFromAll(s, rest)
  BY <1>7 DEF ApartFromAll
<1> QED BY <1>2, <1>3, <1>6, <1>8, <1>9, <1>10

\* A statement that may be sent, and the queues once it is.
Joins(s, c, tk, wk, n, d, x, cl) ==
  /\ wk \in [Conns -> Seq(Statement)] /\ WorkInv(tk, wk, n, d, x, cl)
  /\ c \in Conns /\ s \in Statement /\ Sound(s, c, tk, n, d, x, cl)
  /\ Silent(s.task, wk) /\ s.task # "none"
  /\ s.op = "insert" => \A e \in Conns : \A j \in DOMAIN wk[e] :
                          wk[e][j].op = "insert" => wk[e][j].row # s.row

WithStatement(wk, c, s) == [wk EXCEPT ![c] = Append(wk[c], s)]

LEMMA Joined ==
  ASSUME NEW tk, NEW wk, NEW n, NEW d, NEW x, NEW cl, NEW c, NEW s,
         Joins(s, c, tk, wk, n, d, x, cl)
  PROVE  /\ WithStatement(wk, c, s) \in [Conns -> Seq(Statement)]
         /\ WorkInv(tk, WithStatement(wk, c, s), n, d, x, cl)
<1> DEFINE more == WithStatement(wk, c, s)
<1>0. /\ wk \in [Conns -> Seq(Statement)] /\ WorkInv(tk, wk, n, d, x, cl)
      /\ c \in Conns /\ s \in Statement /\ Sound(s, c, tk, n, d, x, cl)
      /\ Silent(s.task, wk) /\ s.task # "none"
      /\ s.op = "insert" => \A e \in Conns : \A j \in DOMAIN wk[e] :
                              wk[e][j].op = "insert" => wk[e][j].row # s.row
      /\ more = [wk EXCEPT ![c] = Append(wk[c], s)]
  BY DEF Joins, WithStatement
<1> USE <1>0
<1> HIDE DEF more
<1> DEFINE new == Len(wk[c]) + 1
<1>1. wk[c] \in Seq(Statement)
  OBVIOUS
<1>2. /\ Append(wk[c], s) \in Seq(Statement) /\ DOMAIN Append(wk[c], s) = 1 .. new
      /\ DOMAIN wk[c] = 1 .. Len(wk[c]) /\ Len(wk[c]) \in Nat
      /\ Append(wk[c], s)[new] = s /\ \A j \in DOMAIN wk[c] : Append(wk[c], s)[j] = wk[c][j]
  BY <1>1
<1>3. more \in [Conns -> Seq(Statement)]
  BY <1>2
<1>4. ASSUME NEW e \in Conns, NEW j \in DOMAIN more[e]
      PROVE  \/ e = c /\ j = new /\ more[e][j] = s
             \/ j \in DOMAIN wk[e] /\ more[e][j] = wk[e][j]
  <2>1. CASE e = c
    <3>1. more[e] = Append(wk[c], s)
      BY <2>1
    <3>2. j \in DOMAIN wk[c] \/ j = new
      BY <1>2, <3>1
    <3> QED BY <1>2, <2>1, <3>1, <3>2
  <2>2. CASE e # c
    BY <2>2
  <2> QED BY <2>1, <2>2
<1>5. new \notin DOMAIN wk[c]
  BY <1>2
<1> HIDE DEF new
<1>6. ASSUME NEW e \in Conns, NEW j \in DOMAIN wk[e]
      PROVE  Apart(s, wk[e][j]) /\ Apart(wk[e][j], s)
  BY DEF Apart, Silent
<1>7. ASSUME NEW e \in Conns, NEW j \in DOMAIN more[e]
      PROVE  Sound(more[e][j], e, tk, n, d, x, cl)
  BY <1>4 DEF WorkInv
<1>8. ASSUME NEW e \in Conns, NEW f \in Conns, NEW i \in DOMAIN more[e], NEW j \in DOMAIN more[f],
             e # f \/ i # j
      PROVE  Apart(more[e][i], more[f][j])
  <2>1. CASE e = c /\ i = new /\ more[e][i] = s
    <3>1. j \in DOMAIN wk[f] /\ more[f][j] = wk[f][j]
      BY <1>4, <1>8, <2>1
    <3> QED BY <1>6, <2>1, <3>1
  <2>2. CASE i \in DOMAIN wk[e] /\ more[e][i] = wk[e][i]
    <3>1. CASE f = c /\ j = new /\ more[f][j] = s
      BY <1>6, <2>2, <3>1
    <3>2. CASE j \in DOMAIN wk[f] /\ more[f][j] = wk[f][j]
      BY <1>8, <2>2, <3>2 DEF WorkInv
    <3> QED BY <1>4, <3>1, <3>2
  <2> QED BY <1>4, <2>1, <2>2
<1> QED BY <1>3, <1>7, <1>8 DEF WorkInv, more

-----------------------------------------------------------------------------
(* A task goes on to other writes. *)

LEMMA TaskNames ==
  /\ "none" \notin Tasks /\ "tick" \in Tasks /\ "main" \in Tasks /\ "operator" \in Tasks
BY JournalsAssumption DEF Tasks

\* No symbol has the name of another table.
LEMMA TableNames ==
  /\ "balance" \in AccountTables
  /\ AccountTables \cap (OrderTables \cup States \cup {"none"}) = {}
BY JournalsAssumption DEF AccountTables, OrderTables, States

LEMMA NoRowIsNone == NoRow \notin Row /\ NoRow.table = "none" /\ NoRow \in AnyRow
BY TableNames DEF NoRow, Row, AnyRow, OrderTables, States

\* The statements that are sent are of rows not inserted, nor about to be.
Unsent(row, wk, d, x) ==
  row \notin Stored(d, x)
    /\ \A c \in Conns : \A j \in DOMAIN wk[c] : wk[c][j].op = "insert" => wk[c][j].row # row

LEMMA Replanned ==
  ASSUME NEW tk \in [Tasks -> Seq(Planned)], NEW wk \in [Conns -> Seq(Statement)],
         NEW n, NEW d, NEW x, NEW cl,
         WorkInv(tk, wk, n, d, x, cl), NEW t \in Tasks, Silent(t, wk),
         NEW left \in Seq(Planned),
         \A i \in DOMAIN left : i > 1 => left[i].row = NoRow \/ Unsent(left[i].row, wk, d, x),
         NEW next, next = [tk EXCEPT ![t] = left]
  PROVE  WorkInv(next, wk, n, d, x, cl)
<1>1. ASSUME NEW c \in Conns, NEW j \in DOMAIN wk[c]
      PROVE  Sound(wk[c][j], c, next, n, d, x, cl)
  <2> DEFINE s == wk[c][j]
  <2>1. Sound(s, c, tk, n, d, x, cl) /\ s.task # t /\ s \in Statement
    BY DEF WorkInv, Silent
  <2>2. s.op = "insert" => \A i \in DOMAIN left : i > 1 => left[i].row # s.row
    <3>1. SUFFICES ASSUME s.op = "insert", NEW i \in DOMAIN left, i > 1
                   PROVE  left[i].row # s.row
      OBVIOUS
    <3>2. s.row # NoRow
      BY <2>1, <3>1, NoRowIsNone DEF Sound, IsKnown
    <3> QED BY <3>1, <3>2 DEF Unsent
  <2>3. s.task # "none" => next[s.task] = tk[s.task]
    BY <2>1 DEF Statement
  <2> HIDE DEF s
  <2>4. s.op = "insert" =>
          \A u \in Tasks : \A i \in DOMAIN next[u] : i > 1 => next[u][i].row # s.row
    BY <2>1, <2>2 DEF Sound
  <2>5. Sound(s, c, next, n, d, x, cl)
    BY <2>1, <2>3, <2>4 DEF Sound
  <2> QED BY <2>5 DEF s
<1> QED BY <1>1 DEF WorkInv

\* Task t's writes are replaced by others and the first of them, if any, is sent.
Goes(tk, wk, t, left, next, sent) ==
  /\ next = [tk EXCEPT ![t] = left]
  /\ sent = IF left = <<>> THEN wk
            ELSE [wk EXCEPT ![left[1].conn] = Append(@, FirstStatement(t, left[1]))]

LEMMA GoesOn ==
  ASSUME NEW tk \in [Tasks -> Seq(Planned)], NEW wk \in [Conns -> Seq(Statement)],
         NEW n, NEW d, NEW x, NEW cl,
         AllInv(tk, wk, n, d, x, cl), NEW t \in Tasks, Silent(t, wk),
         NEW left \in Seq(Planned),
         \A i \in DOMAIN left : left[i].row = NoRow \/ Unsent(left[i].row, wk, d, x),
         NEW next, NEW sent, Goes(tk, wk, t, left, next, sent), TasksInv(next, n, d, x)
  PROVE  /\ next \in [Tasks -> Seq(Planned)] /\ sent \in [Conns -> Seq(Statement)]
         /\ AllInv(next, sent, n, d, x, cl)
<1>0. /\ next = [tk EXCEPT ![t] = left]
      /\ sent = IF left = <<>> THEN wk
                ELSE [wk EXCEPT ![left[1].conn] = Append(@, FirstStatement(t, left[1]))]
  BY DEF Goes
<1> USE <1>0
<1>1. next \in [Tasks -> Seq(Planned)]
  OBVIOUS
<1>2. WorkInv(next, wk, n, d, x, cl)
  BY Replanned DEF AllInv
<1>3. CASE left = <<>>
  BY <1>1, <1>2, <1>3 DEF AllInv
<1>4. CASE left # <<>>
  <2> DEFINE s == FirstStatement(t, left[1])
  <2>1. left[1] \in Planned /\ 1 \in DOMAIN left
    BY <1>4
  <2>2. /\ s \in Statement /\ s.task = t /\ s.row = left[1].row /\ s.op \in {"insert", "close"}
        /\ s.op = "close" <=> left[1].row = NoRow
    BY <2>1 DEF FirstStatement, Statement, Planned
  <2>3. next[t] = left /\ s.task # "none"
    BY <2>2, TaskNames
  <2>4. ASSUME s.op = "insert"
        PROVE  Unsent(s.row, wk, d, x) /\ s.row # NoRow
    BY <2>1, <2>2, <2>4
  <2>5. ASSUME s.op = "insert"
        PROVE  /\ IsKnown(s.row, n) /\ Backed(s.row, d) /\ s.row \notin Stored(d, x)
               /\ \A u \in Tasks : \A i \in DOMAIN next[u] : i > 1 => next[u][i].row # s.row
    <3>1. PlansInv(left, n, d, x)
      BY <2>3 DEF TasksInv
    <3>2. IsKnown(left[1].row, n)
      BY <2>1, <2>2, <2>4, <2>5, <3>1 DEF PlansInv
    <3>3. Backed(left[1].row, d)
      BY <2>1, <3>1 DEF PlansInv, Backed
    <3>4. ASSUME NEW u \in Tasks, NEW i \in DOMAIN next[u], i > 1
          PROVE  next[u][i].row # left[1].row
      BY <2>1, <2>2, <2>3, <2>4, <2>5, <3>4 DEF TasksInv, DistinctPlans
    <3> QED BY <2>2, <2>4, <2>5, <3>2, <3>3, <3>4 DEF Unsent
  <2>6. Sound(s, left[1].conn, next, n, d, x, cl)
    BY <1>4, <2>2, <2>3, <2>5 DEF Sound
  <2>7. left[1].conn \in Conns
    BY <2>1 DEF Planned
  <2>8. sent = [wk EXCEPT ![left[1].conn] = Append(wk[left[1].conn], s)]
    BY <1>4, <2>7
  <2> HIDE DEF s
  <2>9. sent \in [Conns -> Seq(Statement)] /\ WorkInv(next, sent, n, d, x, cl)
    <3>1. s.op = "insert" => \A e \in Conns : \A j \in DOMAIN wk[e] :
                               wk[e][j].op = "insert" => wk[e][j].row # s.row
      BY <2>4 DEF Unsent
    <3>2. s \in Statement /\ Silent(s.task, wk) /\ s.task # "none"
      BY <2>2, <2>3
    <3>3. Joins(s, left[1].conn, next, wk, n, d, x, cl)
      BY <1>2, <2>6, <2>7, <3>1, <3>2 DEF Joins
    <3>4. sent = WithStatement(wk, left[1].conn, s)
      BY <2>8 DEF WithStatement
    <3>5. PICK c, r : c = left[1].conn /\ r = s
      OBVIOUS
    <3>6. Joins(r, c, next, wk, n, d, x, cl)
      BY <3>3, <3>5
    <3>7. /\ WithStatement(wk, c, r) \in [Conns -> Seq(Statement)]
          /\ WorkInv(next, WithStatement(wk, c, r), n, d, x, cl)
      BY <3>6, Joined
    <3> QED BY <3>4, <3>5, <3>7
  <2> QED BY <1>1, <2>9 DEF AllInv
<1> QED BY <1>3, <1>4

\* To the next of its writes: when the last was a fill's, it is in the file.
LEMMA NextWrite ==
  ASSUME NEW tk \in [Tasks -> Seq(Planned)], NEW wk \in [Conns -> Seq(Statement)],
         NEW n, NEW d, NEW x, NEW cl,
         AllInv(tk, wk, n, d, x, cl), NEW t \in Tasks, Silent(t, wk), tk[t] # <<>>,
         tk[t][1].row.table = "fill" => tk[t][1].row \in RowsIn(d),
         NEW left, left = Tail(tk[t]), NEW next, NEW sent, Goes(tk, wk, t, left, next, sent)
  PROVE  /\ next \in [Tasks -> Seq(Planned)] /\ sent \in [Conns -> Seq(Statement)]
         /\ AllInv(next, sent, n, d, x, cl)
<1>0. next = [tk EXCEPT ![t] = left]
  BY DEF Goes
<1>1. tk[t] \in Seq(Planned)
  OBVIOUS
<1>2. /\ left \in Seq(Planned) /\ DOMAIN left = 1 .. Len(tk[t]) - 1
      /\ DOMAIN tk[t] = 1 .. Len(tk[t]) /\ Len(tk[t]) \in Nat \ {0}
      /\ \A i \in 1 .. Len(tk[t]) - 1 : left[i] = tk[t][i + 1]
  BY <1>1
<1>3. /\ TasksInv(tk, n, d, x) /\ WorkInv(tk, wk, n, d, x, cl) /\ PlansInv(tk[t], n, d, x)
  BY DEF AllInv, TasksInv
<1>4. ASSUME NEW i \in DOMAIN left
      PROVE  i \in Nat \ {0} /\ i + 1 \in DOMAIN tk[t] /\ i + 1 > 1 /\ i + 1 - 1 = i /\ left[i] = tk[t][i + 1]
  BY <1>2
<1>5. ASSUME NEW i \in DOMAIN left
      PROVE  /\ Unsent(left[i].row, wk, d, x)
             /\ left[i].row # NoRow => IsKnown(left[i].row, n)
  <2>1. PICK k \in DOMAIN tk[t] : k = i + 1
    BY <1>4
  <2>2. tk[t][k].row \notin Stored(d, x) /\ (tk[t][k].row # NoRow => IsKnown(tk[t][k].row, n)) /\ left[i] = tk[t][k]
    BY <1>3, <1>4, <2>1 DEF PlansInv
  <2>3. ASSUME NEW c \in Conns, NEW j \in DOMAIN wk[c], wk[c][j].op = "insert"
        PROVE  wk[c][j].row # tk[t][k].row
    BY <1>3, <1>4, <2>1, <2>3 DEF WorkInv, Sound
  <2> QED BY <2>2, <2>3 DEF Unsent
<1>6. ASSUME NEW i \in DOMAIN left, left[i].row.table = "order"
      PROVE  IF i = 1 THEN Backed(left[1].row, d)
             ELSE left[i - 1].row.table = "fill" /\ left[i - 1].row.call = left[i].row.call
  <2>1. PICK k \in DOMAIN tk[t] : k = i + 1
    BY <1>4
  <2>2. left[i] = tk[t][k] /\ k # 1 /\ k - 1 = i
    BY <1>4, <2>1
  <2>3. tk[t][i].row.table = "fill" /\ tk[t][i].row.call = left[i].row.call
    BY <1>3, <1>6, <2>2 DEF PlansInv
  <2>4. CASE i = 1
    <3>1. tk[t][1].row \in RowsIn(d)
      BY <2>3, <2>4
    <3> QED BY <2>3, <2>4, <3>1 DEF Backed
  <2>5. CASE i # 1
    <3>1. i - 1 \in 1 .. Len(tk[t]) - 1 /\ i - 1 + 1 = i
      BY <1>2, <1>4, <2>5
    <3>2. left[i - 1] = tk[t][i]
      BY <1>2, <3>1
    <3> QED BY <2>3, <2>5, <3>2
  <2> QED BY <2>4, <2>5
<1>7. PlansInv(left, n, d, x)
  BY <1>5, <1>6 DEF PlansInv, Unsent
<1>8. DistinctPlans(next)
  <2> DEFINE at(u, i) == IF u = t THEN i + 1 ELSE i
  <2>1. ASSUME NEW u \in Tasks, NEW i \in DOMAIN next[u]
        PROVE  at(u, i) \in DOMAIN tk[u] /\ next[u][i] = tk[u][at(u, i)] /\ i \in Nat
    <3>1. CASE u = t
      BY <1>0, <1>4, <3>1
    <3>2. CASE u # t
      <4>1. next[u] = tk[u] /\ tk[u] \in Seq(Planned)
        BY <1>0, <3>2
      <4> QED BY <3>2, <4>1
    <3> QED BY <3>1, <3>2
  <2>2. ASSUME NEW u \in Tasks, NEW v \in Tasks, NEW i \in DOMAIN next[u], NEW j \in DOMAIN next[v],
               next[u][i].row = next[v][j].row, next[u][i].row # NoRow
        PROVE  u = v /\ i = j
    <3>1. PICK k, l : k = at(u, i) /\ l = at(v, j)
      OBVIOUS
    <3>2. k \in DOMAIN tk[u] /\ l \in DOMAIN tk[v] /\ next[u][i] = tk[u][k] /\ next[v][j] = tk[v][l]
      BY <2>1, <3>1
    <3>3. u = v /\ k = l
      BY <1>3, <2>2, <3>2 DEF TasksInv, DistinctPlans
    <3> QED BY <2>1, <3>1, <3>3
  <2> QED BY <2>2 DEF DistinctPlans
<1>9. TasksInv(next, n, d, x)
  BY <1>0, <1>3, <1>7, <1>8 DEF TasksInv
<1> QED BY <1>2, <1>5, <1>9, GoesOn

-----------------------------------------------------------------------------
(* The calls, the transaction and the file. *)

LEMMA CallsGrow ==
  ASSUME NEW tk, NEW wk, NEW n \in Nat, NEW d \in Seq(Row), NEW x \in Transaction, NEW cl,
         AllInv(tk, wk, n, d, x, cl)
  PROVE  AllInv(tk, wk, n + 1, d, x, cl)
<1>1. \A row : IsKnown(row, n) => IsKnown(row, n + 1)
  BY DEF IsKnown, Row
<1>2. StoredInv(n + 1, d, x)
  BY <1>1 DEF AllInv, StoredInv
<1>3. TasksInv(tk, n + 1, d, x)
  BY <1>1 DEF AllInv, TasksInv, PlansInv
<1>4. WorkInv(tk, wk, n + 1, d, x, cl)
  BY <1>1 DEF AllInv, WorkInv, Sound
<1> QED BY <1>2, <1>3, <1>4 DEF AllInv

\* Less is stored, and at least what was in the file still is.
LEMMA LessStored ==
  ASSUME NEW tk, NEW wk, NEW n, NEW d, NEW x, NEW e, NEW y, NEW cl, NEW cm,
         TasksInv(tk, n, d, x), WorkInv(tk, wk, n, d, x, cl),
         Stored(e, y) \subseteq Stored(d, x), RowsIn(d) \subseteq RowsIn(e), cl \subseteq cm,
         \A c \in Conns \ cm : TxnRows(x, c) \subseteq RowsIn(e) \cup TxnRows(y, c)
  PROVE  TasksInv(tk, n, e, y) /\ WorkInv(tk, wk, n, e, y, cm)
<1>1. \A row : Backed(row, d) => Backed(row, e)
  BY DEF Backed
<1>2. TasksInv(tk, n, e, y)
  BY <1>1 DEF TasksInv, PlansInv
<1>3. ASSUME NEW c \in Conns, NEW j \in DOMAIN wk[c]
      PROVE  Sound(wk[c][j], c, tk, n, e, y, cm)
  <2>1. Sound(wk[c][j], c, tk, n, d, x, cl)
    BY DEF WorkInv
  <2> QED BY <1>1, <2>1 DEF Sound
<1> QED BY <1>2, <1>3 DEF WorkInv

LEMMA RowsOfAppend ==
  ASSUME NEW S, NEW rows \in Seq(S), NEW row \in S
  PROVE  /\ Append(rows, row) \in Seq(S) /\ RowsIn(Append(rows, row)) = RowsIn(rows) \cup {row}
         /\ (\A i, j \in DOMAIN rows : rows[i] = rows[j] => i = j) /\ row \notin RowsIn(rows) =>
              \A i, j \in DOMAIN Append(rows, row) :
                Append(rows, row)[i] = Append(rows, row)[j] => i = j
<1> DEFINE more == Append(rows, row)
<1>1. /\ more \in Seq(S) /\ DOMAIN more = 1 .. Len(rows) + 1 /\ DOMAIN rows = 1 .. Len(rows)
      /\ Len(rows) \in Nat /\ more[Len(rows) + 1] = row
      /\ \A i \in 1 .. Len(rows) : more[i] = rows[i]
  OBVIOUS
<1> HIDE DEF more
<1>2. RowsIn(more) = RowsIn(rows) \cup {row}
  <2>1. Len(rows) + 1 \in DOMAIN more /\ DOMAIN rows \subseteq DOMAIN more
    BY <1>1
  <2>2. \A i \in DOMAIN more : i \in DOMAIN rows \/ i = Len(rows) + 1
    BY <1>1
  <2> QED BY <1>1, <2>1, <2>2 DEF RowsIn
<1>3. ASSUME \A i, j \in DOMAIN rows : rows[i] = rows[j] => i = j, row \notin RowsIn(rows),
             NEW i \in DOMAIN more, NEW j \in DOMAIN more, more[i] = more[j]
      PROVE  i = j
  BY <1>1, <1>3 DEF RowsIn
<1> QED BY <1>1, <1>2, <1>3 DEF more

LEMMA RowsOfConcat ==
  ASSUME NEW S, NEW r \in Seq(S), NEW s \in Seq(S)
  PROVE  r \o s \in Seq(S) /\ RowsIn(r \o s) = RowsIn(r) \cup RowsIn(s)
<1>1. /\ r \o s \in Seq(S) /\ DOMAIN (r \o s) = 1 .. Len(r) + Len(s)
      /\ DOMAIN r = 1 .. Len(r) /\ DOMAIN s = 1 .. Len(s) /\ Len(r) \in Nat /\ Len(s) \in Nat
      /\ \A i \in 1 .. Len(r) : (r \o s)[i] = r[i]
      /\ \A i \in 1 .. Len(s) : (r \o s)[Len(r) + i] = s[i]
  OBVIOUS
<1>2. RowsIn(r \o s) \subseteq RowsIn(r) \cup RowsIn(s)
  <2>1. SUFFICES ASSUME NEW i \in DOMAIN (r \o s)
                 PROVE  (r \o s)[i] \in RowsIn(r) \cup RowsIn(s)
    BY DEF RowsIn
  <2>2. CASE i \in 1 .. Len(r)
    BY <1>1, <2>2 DEF RowsIn
  <2>3. CASE i \notin 1 .. Len(r)
    <3>1. i - Len(r) \in 1 .. Len(s) /\ Len(r) + (i - Len(r)) = i
      BY <1>1, <2>3
    <3>2. (r \o s)[i] = s[i - Len(r)]
      BY <1>1, <3>1
    <3> QED BY <1>1, <3>1, <3>2 DEF RowsIn
  <2> QED BY <2>2, <2>3
<1>3. RowsIn(r) \subseteq RowsIn(r \o s)
  <2>1. SUFFICES ASSUME NEW i \in DOMAIN r PROVE r[i] \in RowsIn(r \o s)
    BY DEF RowsIn
  <2>2. i \in DOMAIN (r \o s) /\ (r \o s)[i] = r[i]
    BY <1>1
  <2> QED BY <2>2 DEF RowsIn
<1>4. RowsIn(s) \subseteq RowsIn(r \o s)
  <2>1. SUFFICES ASSUME NEW i \in DOMAIN s PROVE s[i] \in RowsIn(r \o s)
    BY DEF RowsIn
  <2>2. Len(r) + i \in DOMAIN (r \o s) /\ (r \o s)[Len(r) + i] = s[i]
    BY <1>1
  <2> QED BY <2>2 DEF RowsIn
<1> QED BY <1>1, <1>2, <1>3, <1>4

LEMMA NothingInNoTxn ==
  /\ NoTxn \in Transaction /\ RowsIn(<<>>) = {} /\ NoTxn.rows = <<>> /\ NoTxn.conn = "none"
  /\ \A c : TxnRows(NoTxn, c) = {}
<1>1. DOMAIN <<>> = {} /\ <<>> \in Seq(Row)
  OBVIOUS
<1>2. RowsIn(<<>>) = {}
  BY <1>1 DEF RowsIn
<1> QED BY <1>1, <1>2 DEF NoTxn, Transaction, TxnRows

LEMMA Inserted ==
  ASSUME NEW tk, NEW wk, NEW n, NEW d \in Seq(Row), NEW x \in Transaction, NEW cl,
         AllInv(tk, wk, n, d, x, cl), NEW c \in Conns, x.conn \in {"none", c},
         NEW row, IsKnown(row, n), Backed(row, d), Unsent(row, wk, d, x),
         \A t \in Tasks : \A i \in DOMAIN tk[t] : i > 1 => tk[t][i].row # row,
         NEW y, y = [conn |-> c, rows |-> Append(x.rows, row)]
  PROVE  y \in Transaction /\ AllInv(tk, wk, n, d, y, cl) /\ row \in TxnRows(y, c)
<1>1. x.rows \in Seq(Row) /\ row \in Row
  BY DEF Transaction, IsKnown
<1>2. /\ y \in Transaction /\ y.conn = c /\ RowsIn(y.rows) = RowsIn(x.rows) \cup {row}
      /\ (\A i, j \in DOMAIN x.rows : x.rows[i] = x.rows[j] => i = j) /\ row \notin RowsIn(x.rows) =>
           \A i, j \in DOMAIN y.rows : y.rows[i] = y.rows[j] => i = j
  <2>1. y.rows = Append(x.rows, row) /\ y.conn = c
    OBVIOUS
  <2>2. Append(x.rows, row) \in Seq(Row)
    BY <1>1
  <2>3. y \in Transaction
    BY <2>2 DEF Transaction
  <2>4. PICK rows \in Seq(Row) : rows = x.rows
    BY <1>1
  <2>5. /\ RowsIn(Append(rows, row)) = RowsIn(rows) \cup {row}
        /\ (\A i, j \in DOMAIN rows : rows[i] = rows[j] => i = j) /\ row \notin RowsIn(rows) =>
             \A i, j \in DOMAIN Append(rows, row) :
               Append(rows, row)[i] = Append(rows, row)[j] => i = j
    BY <1>1, RowsOfAppend
  <2>6. y.rows = Append(rows, row)
    BY <2>1, <2>4
  <2>7. RowsIn(y.rows) = RowsIn(x.rows) \cup {row}
    BY <2>4, <2>5, <2>6
  <2>8. (\A i, j \in DOMAIN rows : rows[i] = rows[j] => i = j) /\ row \notin RowsIn(rows) =>
          \A i, j \in DOMAIN y.rows : y.rows[i] = y.rows[j] => i = j
    BY <2>5, <2>6
  <2> QED BY <2>1, <2>3, <2>4, <2>7, <2>8
<1>3. row \notin Stored(d, x) /\ Stored(d, y) = Stored(d, x) \cup {row}
  BY <1>2 DEF Unsent, Stored
<1>4. StoredInv(n, d, y)
  <2>1. StoredInv(n, d, x)
    BY DEF AllInv
  <2>2. y.conn # "none"
    BY <1>2 DEF Conns
  <2> QED BY <1>2, <1>3, <2>1, <2>2 DEF StoredInv, Stored
<1>5. TasksInv(tk, n, d, y)
  <2>1. DistinctPlans(tk) /\ \A t \in Tasks : PlansInv(tk[t], n, d, x)
    BY DEF AllInv, TasksInv
  <2>2. ASSUME NEW t \in Tasks
        PROVE  PlansInv(tk[t], n, d, y)
    BY <1>3, <2>1 DEF PlansInv
  <2> QED BY <2>1, <2>2 DEF TasksInv
<1>6. WorkInv(tk, wk, n, d, y, cl)
  <2>1. ASSUME NEW e \in Conns, NEW j \in DOMAIN wk[e]
        PROVE  Sound(wk[e][j], e, tk, n, d, y, cl)
    <3>1. Sound(wk[e][j], e, tk, n, d, x, cl)
      BY DEF AllInv, WorkInv
    <3>2. wk[e][j].op = "insert" => wk[e][j].row # row
      BY DEF Unsent
    <3>3. TxnRows(x, e) \subseteq TxnRows(y, e)
      <4>1. CASE x.conn = "none"
        BY <4>1 DEF TxnRows, Conns
      <4>2. CASE x.conn = c
        BY <1>2, <4>2 DEF TxnRows
      <4> QED BY <4>1, <4>2
    <3> QED BY <1>3, <3>1, <3>2, <3>3 DEF Sound
  <2> QED BY <2>1 DEF AllInv, WorkInv
<1> QED BY <1>2, <1>4, <1>5, <1>6 DEF AllInv, TxnRows

LEMMA Committed ==
  ASSUME NEW tk, NEW wk, NEW n, NEW d \in Seq(Row), NEW x \in Transaction, NEW cl,
         AllInv(tk, wk, n, d, x, cl)
  PROVE  LET e == d \o x.rows
         IN  /\ e \in Seq(Row) /\ AllInv(tk, wk, n, e, NoTxn, cl)
             /\ RowsIn(e) = RowsIn(d) \cup RowsIn(x.rows)
<1>0. PICK e : e = d \o x.rows
  OBVIOUS
<1>1. x.rows \in Seq(Row)
  BY DEF Transaction
<1>2. e \in Seq(Row) /\ RowsIn(e) = RowsIn(d) \cup RowsIn(x.rows)
  BY <1>0, <1>1, RowsOfConcat
<1>3. Stored(e, NoTxn) = Stored(d, x)
  BY <1>2, NothingInNoTxn DEF Stored
<1>4. \A c \in Conns : TxnRows(x, c) \subseteq RowsIn(e)
  BY <1>2 DEF TxnRows
<1>5. TasksInv(tk, n, e, NoTxn) /\ WorkInv(tk, wk, n, e, NoTxn, cl)
  <2>1. TasksInv(tk, n, d, x) /\ WorkInv(tk, wk, n, d, x, cl)
    BY DEF AllInv
  <2>2. RowsIn(d) \subseteq RowsIn(e) /\ Stored(e, NoTxn) \subseteq Stored(d, x)
    BY <1>2, <1>3
  <2>3. \A c \in Conns \ cl : TxnRows(x, c) \subseteq RowsIn(e) \cup TxnRows(NoTxn, c)
    BY <1>4
  <2> QED BY <2>1, <2>2, <2>3, LessStored
<1>6. StoredInv(n, e, NoTxn)
  <2>1. \A row \in Stored(d, x) : IsKnown(row, n) /\ Backed(row, d)
    BY DEF AllInv, StoredInv
  <2>2. \A row \in Stored(e, NoTxn) : IsKnown(row, n) /\ Backed(row, e)
    BY <1>2, <1>3, <2>1 DEF Backed
  <2>3. DOMAIN NoTxn.rows = {}
    <3>1. DOMAIN <<>> = {}
      OBVIOUS
    <3> QED BY <3>1, NothingInNoTxn
  <2> QED BY <2>2, <2>3, NothingInNoTxn DEF StoredInv
<1>7. AllInv(tk, wk, n, e, NoTxn, cl)
  BY <1>5, <1>6 DEF AllInv
<1> QED BY <1>0, <1>2, <1>7

LEMMA RolledBack ==
  ASSUME NEW tk, NEW wk, NEW n, NEW d, NEW x, NEW cl,
         AllInv(tk, wk, n, d, x, cl), NEW c \in Conns,
         NEW y, y = IF x.conn = c THEN NoTxn ELSE x
  PROVE  AllInv(tk, wk, n, d, y, cl \cup {c})
<1>1. StoredInv(n, d, y)
  <2>1. CASE x.conn = c
    <3>1. DOMAIN NoTxn.rows = {}
      <4>1. DOMAIN <<>> = {}
        OBVIOUS
      <4> QED BY <4>1, NothingInNoTxn
    <3>2. y = NoTxn /\ Stored(d, NoTxn) \subseteq Stored(d, x)
      BY <2>1, NothingInNoTxn DEF Stored
    <3> QED BY <3>1, <3>2, NothingInNoTxn DEF AllInv, StoredInv
  <2>2. CASE x.conn # c
    BY <2>2 DEF AllInv
  <2> QED BY <2>1, <2>2
<1>2. Stored(d, y) \subseteq Stored(d, x)
  BY NothingInNoTxn DEF Stored
<1>3. \A e \in Conns \ (cl \cup {c}) : TxnRows(x, e) \subseteq TxnRows(y, e)
  BY DEF TxnRows
<1>4. TasksInv(tk, n, d, y) /\ WorkInv(tk, wk, n, d, y, cl \cup {c})
  <2>1. TasksInv(tk, n, d, x) /\ WorkInv(tk, wk, n, d, x, cl)
    BY DEF AllInv
  <2>2. \A e \in Conns \ (cl \cup {c}) : TxnRows(x, e) \subseteq RowsIn(d) \cup TxnRows(y, e)
    BY <1>3
  <2>3. RowsIn(d) \subseteq RowsIn(d) /\ cl \subseteq cl \cup {c}
    OBVIOUS
  <2> QED BY <1>2, <2>1, <2>2, <2>3, LessStored
<1> QED BY <1>1, <1>4 DEF AllInv

-----------------------------------------------------------------------------
(* What becomes of the task whose statement is done. *)

\* s has left the queues wk; tm and wm are the tasks and the queues after it.
Resumes(s, c, tk, wk, tm, wm) ==
  /\ s.task = "none" => tm = tk /\ wm = wk
  /\ s.task # "none" /\ s.op = "insert" =>
       tm = tk /\ wm = WithStatement(wk, c, [s EXCEPT !.op = "commit"])
  /\ s.task # "none" /\ s.op # "insert" => Goes(tk, wk, s.task, Tail(tk[s.task]), tm, wm)

\* What the statement leaves behind.
Done(s, c, tk, wk, d, x) ==
  /\ s \in Statement /\ c \in Conns
  /\ s.task # "none" => Silent(s.task, wk) /\ tk[s.task] # <<>> /\ tk[s.task][1].row = s.row
  /\ s.op = "insert" => s.row \in RowsIn(d) \cup TxnRows(x, c)
  /\ s.op # "insert" /\ s.row.table = "fill" => s.row \in RowsIn(d)

LEMMA Resumed ==
  ASSUME NEW tk \in [Tasks -> Seq(Planned)], NEW wk \in [Conns -> Seq(Statement)],
         NEW n, NEW d, NEW x, NEW cl, AllInv(tk, wk, n, d, x, cl),
         NEW s, NEW c, Done(s, c, tk, wk, d, x),
         NEW tm, NEW wm, Resumes(s, c, tk, wk, tm, wm)
  PROVE  /\ tm \in [Tasks -> Seq(Planned)] /\ wm \in [Conns -> Seq(Statement)]
         /\ AllInv(tm, wm, n, d, x, cl)
<1>1. CASE s.task = "none"
  BY <1>1 DEF Resumes
<1>2. CASE s.task # "none" /\ s.op = "insert"
  <2>1. PICK r : r = [s EXCEPT !.op = "commit"]
    OBVIOUS
  <2>2. s \in Statement /\ c \in Conns /\ s.row \in RowsIn(d) \cup TxnRows(x, c)
    BY <1>2 DEF Done
  <2>3. r \in Statement /\ r.task = s.task /\ r.row = s.row /\ r.op = "commit"
    BY <2>1, <2>2 DEF Statement
  <2>4. Sound(r, c, tk, n, d, x, cl)
    BY <1>2, <2>2, <2>3 DEF Sound, Done
  <2>5. Joins(r, c, tk, wk, n, d, x, cl)
    BY <1>2, <2>2, <2>3, <2>4 DEF Joins, Done, AllInv
  <2>6. /\ WithStatement(wk, c, r) \in [Conns -> Seq(Statement)]
        /\ WorkInv(tk, WithStatement(wk, c, r), n, d, x, cl)
    BY <2>5, Joined
  <2>7. tm = tk /\ wm = WithStatement(wk, c, r)
    BY <1>2, <2>1 DEF Resumes
  <2> QED BY <2>6, <2>7 DEF AllInv
<1>3. CASE s.task # "none" /\ s.op # "insert"
  <2>1. PICK t, left : t = s.task /\ left = Tail(tk[t])
    OBVIOUS
  <2>2. t \in Tasks /\ Silent(t, wk) /\ tk[t] # <<>> /\ tk[t][1].row = s.row
    BY <1>3, <2>1 DEF Done, Statement
  <2>3. Goes(tk, wk, t, left, tm, wm)
    BY <1>3, <2>1 DEF Resumes
  <2>4. tk[t][1].row.table = "fill" => tk[t][1].row \in RowsIn(d)
    BY <1>3, <2>2 DEF Done
  <2> QED BY <2>1, <2>2, <2>3, <2>4, NextWrite
<1> QED BY <1>1, <1>2, <1>3

\* A call that ends without its other writes.
LEMMA GivesUp ==
  ASSUME NEW tk \in [Tasks -> Seq(Planned)], NEW wk \in [Conns -> Seq(Statement)],
         NEW n, NEW d, NEW x, NEW cl, AllInv(tk, wk, n, d, x, cl),
         NEW t \in Tasks, Silent(t, wk), NEW tm, tm = [tk EXCEPT ![t] = <<>>]
  PROVE  tm \in [Tasks -> Seq(Planned)] /\ AllInv(tm, wk, n, d, x, cl)
<1>1. <<>> \in Seq(Planned) /\ DOMAIN <<>> = {}
  OBVIOUS
<1>2. tm \in [Tasks -> Seq(Planned)] /\ tm[t] = <<>> /\ \A u \in Tasks : u # t => tm[u] = tk[u]
  BY <1>1
<1>3. TasksInv(tm, n, d, x)
  <2>1. DistinctPlans(tk) /\ \A u \in Tasks : PlansInv(tk[u], n, d, x)
    BY DEF AllInv, TasksInv
  <2>2. PlansInv(<<>>, n, d, x)
    BY <1>1 DEF PlansInv
  <2>3. \A u \in Tasks : PlansInv(tm[u], n, d, x)
    BY <1>2, <2>1, <2>2
  <2>4. DistinctPlans(tm)
    BY <1>1, <1>2, <2>1 DEF DistinctPlans
  <2> QED BY <2>3, <2>4 DEF TasksInv
<1>4. WorkInv(tm, wk, n, d, x, cl)
  BY <1>1, Replanned DEF AllInv
<1> QED BY <1>2, <1>3, <1>4 DEF AllInv

-----------------------------------------------------------------------------
(* A new call. *)

\* Writes of rows that only the k-th call writes, an order's after its fill's.
FreshWrites(writes, k) ==
  /\ writes \in Seq(Planned)
  /\ \A i \in DOMAIN writes : writes[i].row # NoRow => writes[i].row.call = k
  /\ \A i, j \in DOMAIN writes : writes[i].row = writes[j].row /\ writes[i].row # NoRow => i = j
  /\ \A i \in DOMAIN writes : writes[i].row.table = "order" =>
       /\ i > 1 /\ writes[i - 1].row.table = "fill"
       /\ writes[i - 1].row.call = writes[i].row.call

LEMMA NewCall ==
  ASSUME NEW tk \in [Tasks -> Seq(Planned)], NEW wk \in [Conns -> Seq(Statement)],
         NEW n \in Nat, NEW d \in Seq(Row), NEW x \in Transaction, NEW cl,
         AllInv(tk, wk, n, d, x, cl), NEW t \in Tasks, tk[t] = <<>>,
         NEW writes, FreshWrites(writes, n + 1),
         NEW tm, NEW wm, Goes(tk, wk, t, writes, tm, wm)
  PROVE  /\ tm \in [Tasks -> Seq(Planned)] /\ wm \in [Conns -> Seq(Statement)]
         /\ AllInv(tm, wm, n + 1, d, x, cl)
<1>1. AllInv(tk, wk, n + 1, d, x, cl)
  BY CallsGrow
<1>2. Silent(t, wk)
  <2>1. ASSUME NEW c \in Conns, NEW j \in DOMAIN wk[c], wk[c][j].task = t
        PROVE  FALSE
    <3>1. Sound(wk[c][j], c, tk, n, d, x, cl)
      BY DEF AllInv, WorkInv
    <3> QED BY <2>1, <3>1, TaskNames DEF Sound
  <2> QED BY <2>1 DEF Silent
<1>3. writes \in Seq(Planned) /\ DOMAIN writes = 1 .. Len(writes)
  BY DEF FreshWrites
<1>4. ASSUME NEW i \in DOMAIN writes, writes[i].row # NoRow
      PROVE  /\ writes[i].row \in Row /\ writes[i].row.call = n + 1
             /\ \A row : IsKnown(row, n) => row # writes[i].row
  <2>1. writes[i] \in Planned
    BY <1>3
  <2>2. writes[i].row \in Row /\ writes[i].row.call = n + 1
    BY <1>4, <2>1 DEF FreshWrites, Planned, AnyRow
  <2> QED BY <2>2 DEF IsKnown
<1>5. ASSUME NEW i \in DOMAIN writes, writes[i].row # NoRow
      PROVE  Unsent(writes[i].row, wk, d, x)
  <2>1. \A row \in Stored(d, x) : row # writes[i].row
    BY <1>4, <1>5 DEF AllInv, StoredInv
  <2>2. ASSUME NEW c \in Conns, NEW j \in DOMAIN wk[c], wk[c][j].op = "insert"
        PROVE  wk[c][j].row # writes[i].row
    BY <1>4, <1>5, <2>2 DEF AllInv, WorkInv, Sound
  <2> QED BY <2>1, <2>2 DEF Unsent
<1>6. PlansInv(writes, n + 1, d, x)
  <2>1. SUFFICES ASSUME NEW i \in DOMAIN writes
                 PROVE  /\ writes[i].row # NoRow => IsKnown(writes[i].row, n + 1)
                        /\ i > 1 => writes[i].row \notin Stored(d, x)
                        /\ writes[i].row.table = "order" =>
                             /\ i # 1 /\ writes[i - 1].row.table = "fill"
                             /\ writes[i - 1].row.call = writes[i].row.call
    BY DEF PlansInv
  <2>2. writes[i].row # NoRow => IsKnown(writes[i].row, n + 1)
    BY <1>4 DEF IsKnown
  <2>3. writes[i].row \notin Stored(d, x)
    <3>1. CASE writes[i].row = NoRow
      BY <3>1, NoRowIsNone DEF AllInv, StoredInv, IsKnown
    <3>2. CASE writes[i].row # NoRow
      BY <1>5, <3>2 DEF Unsent
    <3> QED BY <3>1, <3>2
  <2>4. writes[i].row.table = "order" =>
           /\ i # 1 /\ writes[i - 1].row.table = "fill"
           /\ writes[i - 1].row.call = writes[i].row.call
    BY <1>3 DEF FreshWrites
  <2> QED BY <2>2, <2>3, <2>4
<1>7. tm[t] = writes /\ \A u \in Tasks : u # t => tm[u] = tk[u]
  BY DEF Goes
<1>8. TasksInv(tm, n + 1, d, x)
  <2>1. DistinctPlans(tk) /\ \A u \in Tasks : PlansInv(tk[u], n + 1, d, x)
    BY <1>1 DEF AllInv, TasksInv
  <2>2. \A u \in Tasks : PlansInv(tm[u], n + 1, d, x)
    BY <1>6, <1>7, <2>1
  <2>3. ASSUME NEW u \in Tasks, u # t, NEW i \in DOMAIN tm[u], tm[u][i].row # NoRow
        PROVE  IsKnown(tm[u][i].row, n)
    BY <1>7, <2>3 DEF AllInv, TasksInv, PlansInv
  <2>4. ASSUME NEW u \in Tasks, NEW v \in Tasks, NEW i \in DOMAIN tm[u], NEW j \in DOMAIN tm[v],
               tm[u][i].row = tm[v][j].row, tm[u][i].row # NoRow
        PROVE  u = v /\ i = j
    <3>1. CASE u = t /\ v = t
      BY <1>7, <2>4, <3>1 DEF FreshWrites
    <3>2. CASE u # t /\ v # t
      BY <1>7, <2>1, <2>4, <3>2 DEF DistinctPlans
    <3>3. CASE u = t /\ v # t
      BY <1>4, <1>7, <2>3, <2>4, <3>3
    <3>4. CASE u # t /\ v = t
      BY <1>4, <1>7, <2>3, <2>4, <3>4
    <3> QED BY <3>1, <3>2, <3>3, <3>4
  <2> QED BY <2>2, <2>4 DEF TasksInv, DistinctPlans
<1>9. \A i \in DOMAIN writes : writes[i].row = NoRow \/ Unsent(writes[i].row, wk, d, x)
  BY <1>5
<1>10. PICK m : m = n + 1
  OBVIOUS
<1>11. AllInv(tk, wk, m, d, x, cl) /\ TasksInv(tm, m, d, x)
  BY <1>1, <1>8, <1>10
<1>12. /\ tm \in [Tasks -> Seq(Planned)] /\ wm \in [Conns -> Seq(Statement)]
       /\ AllInv(tm, wm, m, d, x, cl)
  BY <1>2, <1>3, <1>9, <1>11, GoesOn
<1> QED BY <1>10, <1>12

-----------------------------------------------------------------------------
(* What the calls write. *)

\* The rows that writes are of.
RowsOf(writes) == {writes[i].row : i \in DOMAIN writes}

LEMMA OneWrite ==
  ASSUME NEW w \in Planned, w.row.table # "order", NEW k, w.row # NoRow => w.row.call = k
  PROVE  FreshWrites(<<w>>, k) /\ <<w>>[1] = w /\ <<w>> # <<>> /\ RowsOf(<<w>>) = {w.row}
<1>1. <<w>> \in Seq(Planned) /\ Len(<<w>>) = 1 /\ <<w>>[1] = w /\ DOMAIN <<w>> = {1}
  OBVIOUS
<1>2. <<w>> # <<>>
  BY <1>1
<1>3. FreshWrites(<<w>>, k)
  BY <1>1 DEF FreshWrites
<1>4. RowsOf(<<w>>) = {w.row}
  BY <1>1 DEF RowsOf
<1> QED BY <1>1, <1>2, <1>3, <1>4

LEMMA NoWrites ==
  ASSUME NEW k
  PROVE  FreshWrites(<<>>, k) /\ RowsOf(<<>>) = {}
<1>1. <<>> \in Seq(Planned) /\ DOMAIN <<>> = {}
  OBVIOUS
<1> QED BY <1>1 DEF FreshWrites, RowsOf

LEMMA MoreWrites ==
  ASSUME NEW k, NEW r, FreshWrites(r, k), NEW s, FreshWrites(s, k),
         r # <<>>, NEW first, r[1] = first,
         RowsOf(r) \cap RowsOf(s) \subseteq {NoRow}
  PROVE  /\ FreshWrites(r \o s, k) /\ (r \o s)[1] = first /\ r \o s # <<>>
         /\ RowsOf(r \o s) \subseteq RowsOf(r) \cup RowsOf(s)
<1> DEFINE rs == r \o s
<1>0. \A i \in DOMAIN r, j \in DOMAIN s : r[i].row = s[j].row => r[i].row = NoRow
  BY DEF RowsOf
<1>1. r \in Seq(Planned) /\ s \in Seq(Planned)
  BY DEF FreshWrites
<1>2. /\ rs \in Seq(Planned) /\ DOMAIN rs = 1 .. Len(r) + Len(s)
      /\ DOMAIN r = 1 .. Len(r) /\ DOMAIN s = 1 .. Len(s) /\ Len(r) \in Nat \ {0} /\ Len(s) \in Nat
      /\ \A i \in 1 .. Len(r) : rs[i] = r[i]
      /\ \A i \in 1 .. Len(s) : rs[Len(r) + i] = s[i]
  BY <1>1
<1>3. rs # <<>> /\ rs[1] = first
  <2>1. Len(<<>>) = 0 /\ Len(rs) = Len(r) + Len(s)
    BY <1>1
  <2> QED BY <1>2, <2>1
<1> HIDE DEF rs
<1>4. ASSUME NEW i \in DOMAIN rs
      PROVE  \/ i \in DOMAIN r /\ rs[i] = r[i]
             \/ i - Len(r) \in DOMAIN s /\ rs[i] = s[i - Len(r)] /\ i > Len(r)
  <2>1. CASE i \in 1 .. Len(r)
    BY <1>2, <2>1
  <2>2. CASE i \notin 1 .. Len(r)
    <3>1. PICK l, m \in Nat : l = Len(r) /\ m = Len(s)
      BY <1>2, Zenon
    <3>2. i \in 1 .. l + m /\ i \notin 1 .. l
      BY <1>2, <2>2, <3>1
    <3>3. i - l \in 1 .. m /\ l + (i - l) = i /\ i > l
      BY <3>2
    <3>4. rs[i] = s[i - l]
      BY <1>2, <3>1, <3>3
    <3> QED BY <1>2, <3>1, <3>3, <3>4, Zenon
  <2> QED BY <2>1, <2>2
<1>5. \A i \in DOMAIN rs : rs[i].row # NoRow => rs[i].row.call = k
  BY <1>4 DEF FreshWrites
<1>6. ASSUME NEW i \in DOMAIN rs, NEW j \in DOMAIN rs, rs[i].row = rs[j].row, rs[i].row # NoRow
      PROVE  i = j
  <2>1. CASE i \in DOMAIN r /\ j \in DOMAIN r
    BY <1>2, <1>6, <2>1 DEF FreshWrites
  <2>2. CASE i \in DOMAIN r /\ j \notin DOMAIN r
    BY <1>0, <1>2, <1>4, <1>6, <2>2
  <2>3. CASE i \notin DOMAIN r /\ j \in DOMAIN r
    BY <1>0, <1>2, <1>4, <1>6, <2>3
  <2>4. CASE i \notin DOMAIN r /\ j \notin DOMAIN r
    <3>1. PICK a, b : a = i - Len(r) /\ b = j - Len(r)
      OBVIOUS
    <3>2. a \in DOMAIN s /\ b \in DOMAIN s /\ rs[i] = s[a] /\ rs[j] = s[b]
      BY <1>4, <2>4, <3>1
    <3>3. a = b
      BY <1>6, <3>2 DEF FreshWrites
    <3> QED BY <1>2, <3>1, <3>3
  <2> QED BY <2>1, <2>2, <2>3, <2>4
<1>7. ASSUME NEW i \in DOMAIN rs, rs[i].row.table = "order"
      PROVE  i > 1 /\ rs[i - 1].row.table = "fill" /\ rs[i - 1].row.call = rs[i].row.call
  <2>1. CASE i \in DOMAIN r /\ rs[i] = r[i]
    <3>1. i > 1 /\ r[i - 1].row.table = "fill" /\ r[i - 1].row.call = r[i].row.call
      BY <1>7, <2>1 DEF FreshWrites
    <3>2. i - 1 \in 1 .. Len(r)
      BY <1>2, <2>1, <3>1
    <3> QED BY <1>2, <2>1, <3>1, <3>2
  <2>2. CASE i - Len(r) \in DOMAIN s /\ rs[i] = s[i - Len(r)] /\ i > Len(r)
    <3>1. PICK a \in DOMAIN s : a = i - Len(r)
      BY <2>2
    <3>2. a > 1 /\ s[a - 1].row.table = "fill" /\ s[a - 1].row.call = s[a].row.call
      BY <1>7, <2>2, <3>1 DEF FreshWrites
    <3>3. a - 1 \in 1 .. Len(s) /\ Len(r) + (a - 1) = i - 1 /\ i > 1
      <4>1. PICK l, m \in Nat : l = Len(r) /\ m = Len(s)
        BY <1>2, Zenon
      <4>2. i \in Nat /\ a \in 1 .. m /\ a = i - l
        BY <1>2, <3>1, <4>1
      <4>3. a - 1 \in 1 .. m /\ l + (a - 1) = i - 1 /\ i > 1
        BY <3>2, <4>2
      <4> QED BY <4>1, <4>3, Zenon
    <3>4. rs[i - 1] = s[a - 1]
      BY <1>2, <3>3
    <3> QED BY <2>2, <3>1, <3>2, <3>3, <3>4
  <2> QED BY <1>4, <2>1, <2>2
<1>8. RowsOf(rs) \subseteq RowsOf(r) \cup RowsOf(s)
  BY <1>4 DEF RowsOf
<1> QED BY <1>2, <1>3, <1>5, <1>6, <1>7, <1>8 DEF FreshWrites, rs

LEMMA WriteIsPlanned ==
  ASSUME NEW conn \in Conns, NEW table \in OrderTables \cup States, NEW call \in Nat
  PROVE  LET w == Write(conn, table, call)
         IN  /\ w \in Planned /\ w.row.table = table /\ w.row.call = call /\ w.row \in Row
             /\ w.conn = conn
BY DEF Write, Planned, AnyRow, Row

LEMMA CloseIsPlanned ==
  ASSUME NEW conn \in Conns
  PROVE  Close(conn) \in Planned /\ Close(conn).row = NoRow
BY DEF Close, Planned, AnyRow

LEMMA FillIsFresh ==
  ASSUME NEW call \in Nat
  PROVE  FreshWrites(FillWrites(call), call) /\ FillWrites(call) # <<>>
<1>1. PICK a, b : a = Write("orders", "fill", call) /\ b = Write("orders", "order", call)
  OBVIOUS
<1>2. /\ a \in Planned /\ b \in Planned /\ a.row.table = "fill" /\ b.row.table = "order"
      /\ a.row.call = call /\ b.row.call = call
  BY <1>1, WriteIsPlanned DEF Conns, OrderTables
<1>3. /\ <<a, b>> \in Seq(Planned) /\ Len(<<a, b>>) = 2 /\ DOMAIN <<a, b>> = {1, 2}
      /\ <<a, b>>[1] = a /\ <<a, b>>[2] = b
  BY <1>2
<1>4. <<a, b>> # <<>> /\ FillWrites(call) = <<a, b>>
  <2>1. Len(<<>>) = 0
    OBVIOUS
  <2> QED BY <1>1, <1>3, <2>1 DEF FillWrites
<1>5. FreshWrites(<<a, b>>, call)
  <2>1. a.row # b.row
    BY <1>2
  <2> QED BY <1>2, <1>3, <2>1 DEF FreshWrites
<1> QED BY <1>4, <1>5

\* The reconciles under way are of calls.
LEMMA UnwrittenIsCalls ==
  ASSUME tasks \in [Tasks -> Seq(Planned)]
  PROVE  Unwritten \subseteq Nat
<1>1. ASSUME NEW t \in Tasks, NEW w \in Range(tasks[t]), w.row.table \in AccountTables
      PROVE  w.row.call \in Nat
  <2>1. w \in Planned
    BY DEF Range
  <2>2. w.row # NoRow
    BY <1>1, TableNames, NoRowIsNone
  <2> QED BY <2>1, <2>2 DEF Planned, AnyRow, Row
<1> QED BY <1>1 DEF Unwritten

LEMMA SnapshotIsPlanned ==
  ASSUME NEW k \in Nat, NEW time \in Nat, calls' = k, clock' = time, NEW table \in AccountTables,
         tasks \in [Tasks -> Seq(Planned)]
  PROVE  LET w == Snapshot(table)
         IN  /\ w \in Planned /\ w.row \in Row /\ w.conn = "account" /\ w.row.table = table
             /\ w.row.call = k /\ w.row.time = time /\ w.row.beside = Unwritten
BY UnwrittenIsCalls DEF Snapshot, Planned, AnyRow, Row, Conns

LEMMA OneMore ==
  ASSUME NEW r, r \in Seq(Planned), NEW w, w \in Planned
  PROVE  LET rw == r \o <<w>>
         IN  /\ rw \in Seq(Planned) /\ DOMAIN rw = 1 .. Len(r) + 1
             /\ \A i \in 1 .. Len(r) : rw[i] = r[i]
             /\ rw[Len(r) + 1] = w
<1>1. <<w>> \in Seq(Planned)
  OBVIOUS
<1>2. PICK s \in Seq(Planned) : s = <<w>>
  BY <1>1
<1>3. Len(s) = 1 /\ s[1] = w
  BY <1>2
<1>4. /\ r \o s \in Seq(Planned) /\ DOMAIN (r \o s) = 1 .. Len(r) + Len(s)
      /\ \A i \in 1 .. Len(r) : (r \o s)[i] = r[i]
      /\ \A i \in 1 .. Len(s) : (r \o s)[Len(r) + i] = s[i]
  OBVIOUS
<1>5. PICK rw : rw = r \o s
  OBVIOUS
<1>6. /\ rw \in Seq(Planned) /\ DOMAIN rw = 1 .. Len(r) + 1
      /\ \A i \in 1 .. Len(r) : rw[i] = r[i]
  BY <1>3, <1>4, <1>5
<1>7. rw[Len(r) + 1] = w
  <2>1. 1 \in 1 .. Len(s)
    BY <1>3
  <2> QED BY <1>3, <1>4, <1>5, <2>1
<1>8. rw = r \o <<w>>
  BY <1>2, <1>5
<1> QED BY <1>6, <1>7, <1>8, Zenon

\* A reconcile's writes: a row of each position reported, then the balance's.
LEMMA ReconcileIs ==
  ASSUME NEW k \in Nat, NEW time \in Nat, calls' = k, clock' = time, NEW report \in Reports,
         tasks \in [Tasks -> Seq(Planned)]
  PROVE  LET writes == ReconcileWrites(report)
         IN  /\ report \in Seq(Symbols) /\ Len(report) \in Nat
             /\ writes \in Seq(Planned) /\ DOMAIN writes = 1 .. Len(report) + 1
             /\ \A i \in 1 .. Len(report) : writes[i] = Snapshot(report[i])
             /\ writes[Len(report) + 1] = Snapshot("balance")
             /\ \A i \in 1 .. Len(report) : report[i] \in AccountTables /\ report[i] # "balance"
<1>1. PICK l : l = Len(report)
  OBVIOUS
<1>2. report \in Seq(Symbols) /\ l \in Nat /\ DOMAIN report = 1 .. l
  BY <1>1, JournalsAssumption
<1>3. \A i \in 1 .. l : report[i] \in AccountTables /\ report[i] # "balance"
  BY <1>2, JournalsAssumption DEF AccountTables
<1>4. PICK r : r = [i \in DOMAIN report |-> Snapshot(report[i])]
  OBVIOUS
<1>5. r \in Seq(Planned) /\ Len(r) = l
  <2>1. \A i \in 1 .. l : Snapshot(report[i]) \in Planned
    BY <1>3, SnapshotIsPlanned
  <2>2. r \in [1 .. l -> Planned]
    BY <1>2, <1>4, <2>1
  <2> QED BY <1>2, <2>2
<1>6. PICK b : b = Snapshot("balance")
  OBVIOUS
<1>7. b \in Planned
  BY <1>6, TableNames, SnapshotIsPlanned
<1>8. PICK writes : writes = ReconcileWrites(report)
  OBVIOUS
<1>9. writes = r \o <<b>>
  BY <1>4, <1>6, <1>8 DEF ReconcileWrites
<1>10. /\ writes \in Seq(Planned) /\ DOMAIN writes = 1 .. l + 1
       /\ \A i \in 1 .. l : writes[i] = r[i]
       /\ writes[l + 1] = b
  BY <1>5, <1>7, <1>9, OneMore
<1>11. \A i \in 1 .. l : writes[i] = Snapshot(report[i])
  BY <1>2, <1>4, <1>10
<1> QED BY <1>1, <1>2, <1>3, <1>6, <1>8, <1>10, <1>11

\* A reconcile's rows are of its call, and none is a transition's.
LEMMA ReconcileIsFresh ==
  ASSUME NEW k \in Nat, NEW time \in Nat, calls' = k, clock' = time, NEW report \in Reports,
         tasks \in [Tasks -> Seq(Planned)]
  PROVE  /\ FreshWrites(ReconcileWrites(report), k) /\ ReconcileWrites(report) # <<>>
         /\ \A row \in RowsOf(ReconcileWrites(report)) : row.table \in AccountTables
<1>1. PICK writes, l : writes = ReconcileWrites(report) /\ l = Len(report)
  OBVIOUS
<1>2. /\ l \in Nat /\ writes \in Seq(Planned) /\ DOMAIN writes = 1 .. l + 1
      /\ \A i \in 1 .. l : writes[i] = Snapshot(report[i])
      /\ writes[l + 1] = Snapshot("balance")
      /\ \A i \in 1 .. l : report[i] \in AccountTables /\ report[i] # "balance"
  BY <1>1, ReconcileIs
<1>3. ASSUME NEW i \in DOMAIN writes
      PROVE  /\ writes[i].row.call = k /\ writes[i].row.table \in AccountTables
             /\ writes[i].row.table = IF i = l + 1 THEN "balance" ELSE report[i]
  <2>1. CASE i = l + 1
    BY <1>2, <2>1, TableNames, SnapshotIsPlanned
  <2>2. CASE i # l + 1
    <3>1. i \in 1 .. l
      BY <1>2, <2>2
    <3> QED BY <1>2, <2>2, <3>1, SnapshotIsPlanned
  <2> QED BY <2>1, <2>2
<1>4. ASSUME NEW i \in DOMAIN writes, NEW j \in DOMAIN writes, writes[i].row = writes[j].row
      PROVE  i = j
  <2>1. (IF i = l + 1 THEN "balance" ELSE report[i]) = (IF j = l + 1 THEN "balance" ELSE report[j])
    BY <1>3, <1>4
  <2>2. \A m \in DOMAIN writes : m # l + 1 => m \in DOMAIN report /\ report[m] # "balance"
    BY <1>1, <1>2, ReconcileIs
  <2> QED BY <2>1, <2>2, JournalsAssumption
<1>5. \A i \in DOMAIN writes : writes[i].row.table # "order"
  BY <1>3, TableNames DEF OrderTables
<1>6. writes # <<>>
  <2>1. 1 \in DOMAIN writes /\ DOMAIN <<>> = {}
    BY <1>2
  <2> QED BY <2>1
<1> QED BY <1>1, <1>2, <1>3, <1>4, <1>5, <1>6 DEF FreshWrites, RowsOf

LEMMA StateIsFresh ==
  ASSUME NEW k \in Nat, NEW to \in States
  PROVE  LET writes == <<Write("events", to, k)>>
         IN  FreshWrites(writes, k) /\ writes # <<>> /\ RowsOf(writes) = {writes[1].row}
<1>1. PICK w : w = Write("events", to, k)
  OBVIOUS
<1>2. w \in Planned /\ w.row.table = to /\ w.row.call = k
  BY <1>1, WriteIsPlanned DEF Conns
<1>3. to # "order"
  BY DEF States
<1> QED BY <1>1, <1>2, <1>3, OneWrite

\* With the transition of a start, or of an acknowledge, behind them.
LEMMA TransitionIsFresh ==
  ASSUME NEW k \in Nat, NEW time \in Nat, calls' = k, clock' = time, NEW report \in Reports,
         tasks \in [Tasks -> Seq(Planned)]
  PROVE  LET writes == ReconcileWrites(report) \o <<Write("events", "RUNNING", k)>>
         IN  FreshWrites(writes, k) /\ writes # <<>>
<1>1. PICK r, w : r = ReconcileWrites(report) /\ w = Write("events", "RUNNING", k)
  OBVIOUS
<1>2. w \in Planned /\ w.row.table = "RUNNING" /\ w.row.call = k
  BY <1>1, WriteIsPlanned DEF Conns, States
<1>3. PICK s : s = <<w>>
  OBVIOUS
<1>4. FreshWrites(s, k) /\ RowsOf(s) = {w.row}
  BY <1>2, <1>3, OneWrite
<1>5. FreshWrites(r, k) /\ r # <<>> /\ \A row \in RowsOf(r) : row.table \in AccountTables
  BY <1>1, ReconcileIsFresh
<1>6. RowsOf(r) \cap RowsOf(s) \subseteq {NoRow}
  BY <1>2, <1>4, <1>5, TableNames DEF States
<1>7. PICK first : r[1] = first
  OBVIOUS
<1>8. FreshWrites(r \o s, k) /\ r \o s # <<>>
  BY <1>4, <1>5, <1>6, <1>7, MoreWrites
<1> QED BY <1>1, <1>3, <1>8

LEMMA QuarantineIsFresh ==
  ASSUME NEW k \in Nat
  PROVE  LET writes == <<Write("orders", "cancel", k), Write("events", "QUARANTINE", k)>>
         IN  FreshWrites(writes, k) /\ writes # <<>>
<1>1. PICK a, b : a = Write("orders", "cancel", k) /\ b = Write("events", "QUARANTINE", k)
  OBVIOUS
<1>2. /\ a \in Planned /\ b \in Planned /\ a.row.table = "cancel" /\ b.row.table = "QUARANTINE"
      /\ a.row.call = k /\ b.row.call = k
  BY <1>1, WriteIsPlanned DEF Conns, OrderTables, States
<1>3. /\ <<a, b>> \in Seq(Planned) /\ Len(<<a, b>>) = 2 /\ DOMAIN <<a, b>> = {1, 2}
      /\ <<a, b>>[1] = a /\ <<a, b>>[2] = b
  BY <1>2
<1>4. <<a, b>> # <<>>
  <2>1. Len(<<>>) = 0
    OBVIOUS
  <2> QED BY <1>3, <2>1
<1>5. FreshWrites(<<a, b>>, k)
  <2>1. a.row # b.row
    BY <1>2
  <2> QED BY <1>2, <1>3, <2>1 DEF FreshWrites
<1> QED BY <1>1, <1>4, <1>5

\* stop's writes: two transitions, with the cancelled orders' between them when
\* there are any, and the three connections closed.
StopWrites(k, orders) ==
  <<Write("events", "DRAINING", k)>>
    \o (IF orders THEN <<Write("orders", "cancel", k)>> ELSE <<>>)
    \o <<Write("events", "STOPPED", k), Close("events"), Close("account"), Close("orders")>>

LEMMA StopIsFresh ==
  ASSUME NEW k \in Nat, NEW orders \in BOOLEAN
  PROVE  /\ FreshWrites(StopWrites(k, orders), k) /\ StopWrites(k, orders) # <<>>
         /\ StopWrites(k, orders)[1] = Write("events", "DRAINING", k)
<1>1. PICK a, b, z : /\ a = Write("events", "DRAINING", k) /\ b = Write("orders", "cancel", k)
                     /\ z = Write("events", "STOPPED", k)
  OBVIOUS
<1>2. /\ a \in Planned /\ a.row.table = "DRAINING" /\ a.row.call = k
      /\ b \in Planned /\ b.row.table = "cancel" /\ b.row.call = k
      /\ z \in Planned /\ z.row.table = "STOPPED" /\ z.row.call = k
  BY <1>1, WriteIsPlanned DEF Conns, OrderTables, States
<1>3. PICK e, f, g : e = Close("events") /\ f = Close("account") /\ g = Close("orders")
  OBVIOUS
<1>4. /\ e \in Planned /\ f \in Planned /\ g \in Planned
      /\ e.row = NoRow /\ f.row = NoRow /\ g.row = NoRow
  BY <1>3, CloseIsPlanned DEF Conns
<1>5. PICK r, mid, s : r = <<a>> /\ mid = (IF orders THEN <<b>> ELSE <<>>) /\ s = <<z, e, f, g>>
  OBVIOUS
<1>6. FreshWrites(r, k) /\ r # <<>> /\ r[1] = a /\ RowsOf(r) = {a.row}
  BY <1>2, <1>5, OneWrite
<1>7. FreshWrites(mid, k) /\ RowsOf(mid) \subseteq {b.row}
  <2>1. CASE orders
    BY <1>2, <1>5, <2>1, OneWrite
  <2>2. CASE ~orders
    BY <1>5, <2>2, NoWrites
  <2> QED BY <2>1, <2>2
<1>8. FreshWrites(s, k) /\ RowsOf(s) = {z.row, NoRow}
  <2>1. /\ s \in Seq(Planned) /\ Len(s) = 4 /\ DOMAIN s = {1, 2, 3, 4}
        /\ s[1] = z /\ s[2] = e /\ s[3] = f /\ s[4] = g
    BY <1>2, <1>4, <1>5
  <2>2. RowsOf(s) = {z.row, NoRow}
    BY <1>4, <2>1 DEF RowsOf
  <2>3. \A i \in DOMAIN s : s[i].row = NoRow \/ (i = 1 /\ s[i] = z)
    BY <1>4, <2>1
  <2>4. \A i \in DOMAIN s : s[i].row.table # "order"
    BY <1>2, <2>3, NoRowIsNone
  <2> QED BY <1>2, <2>1, <2>2, <2>3, <2>4 DEF FreshWrites
<1>9. FreshWrites(r \o mid, k) /\ (r \o mid)[1] = a /\ r \o mid # <<>> /\ RowsOf(r \o mid) \subseteq {a.row, b.row}
  <2>1. RowsOf(r) \cap RowsOf(mid) \subseteq {NoRow}
    BY <1>2, <1>6, <1>7
  <2>2. /\ FreshWrites(r \o mid, k) /\ (r \o mid)[1] = a /\ r \o mid # <<>>
        /\ RowsOf(r \o mid) \subseteq RowsOf(r) \cup RowsOf(mid)
    BY <1>6, <1>7, <2>1, MoreWrites
  <2> QED BY <1>6, <1>7, <2>2
<1>10. PICK rm : rm = r \o mid
  OBVIOUS
<1>11. FreshWrites(rm \o s, k) /\ (rm \o s)[1] = a /\ rm \o s # <<>>
  <2>1. RowsOf(rm) \cap RowsOf(s) \subseteq {NoRow}
    BY <1>2, <1>8, <1>9, <1>10
  <2>2. FreshWrites(rm, k) /\ rm[1] = a /\ rm # <<>>
    BY <1>9, <1>10
  <2> QED BY <1>8, <2>1, <2>2, MoreWrites
<1>12. StopWrites(k, orders) = rm \o s
  BY <1>1, <1>3, <1>5, <1>10 DEF StopWrites
<1> QED BY <1>1, <1>11, <1>12

-----------------------------------------------------------------------------
(* The invariant of the specification. *)

JournalTypes ==
  /\ tasks \in [Tasks -> Seq(Planned)] /\ worker \in [Conns -> Seq(Statement)]
  /\ txn \in Transaction /\ disk \in Seq(Row) /\ calls \in Nat /\ clock \in Nat

\* Main's writes belong to start or to stop.
MainBusy == tasks["main"] # <<>> => phase \in {"booting", "reconciling", "stopping"}

JournalInv ==
  /\ JournalTypes
  /\ AllInv(tasks, worker, calls, disk, txn, closed)
  /\ returned \subseteq RowsIn(disk)
  /\ MainBusy

\* The statement at the head of a worker's queue, and the queues without it.
LEMMA HeadDropped ==
  ASSUME JournalInv, NEW c \in Conns, worker[c] # <<>>,
         NEW s, s = Head(worker[c]), NEW rest, rest = [worker EXCEPT ![c] = Tail(worker[c])]
  PROVE  /\ rest \in [Conns -> Seq(Statement)]
         /\ AllInv(tasks, rest, calls, disk, txn, closed)
         /\ s \in Statement /\ Sound(s, c, tasks, calls, disk, txn, closed)
         /\ ApartFromAll(s, rest)
         /\ s.task # "none" => /\ Silent(s.task, rest) /\ tasks[s.task] # <<>>
                               /\ tasks[s.task][1].row = s.row /\ s.task \in Tasks
<1>1. WorkInv(tasks, worker, calls, disk, txn, closed) /\ worker \in [Conns -> Seq(Statement)]
  BY DEF JournalInv, JournalTypes, AllInv
<1>2. PICK tk, wk, n, d, x, cl :
        tk = tasks /\ wk = worker /\ n = calls /\ d = disk /\ x = txn /\ cl = closed
  OBVIOUS
<1>3. /\ rest \in [Conns -> Seq(Statement)] /\ WorkInv(tk, rest, n, d, x, cl)
      /\ s \in Statement /\ Sound(s, c, tk, n, d, x, cl)
      /\ ApartFromAll(s, rest)
      /\ s.task # "none" => Silent(s.task, rest)
  <2>1. FirstOf(s, c, tk, wk, n, d, x, cl, rest)
    BY <1>1, <1>2 DEF FirstOf
  <2>2. rest \in [Conns -> Seq(Statement)] /\ WorkInv(tk, rest, n, d, x, cl)
    BY <2>1, Dropped
  <2>3. s \in Statement /\ Sound(s, c, tk, n, d, x, cl)
    BY <2>1, Dropped
  <2>4. ApartFromAll(s, rest)
    BY <2>1, Dropped
  <2>5. s.task # "none" => Silent(s.task, rest)
    BY <2>1, Dropped
  <2> QED BY <2>2, <2>3, <2>4, <2>5
<1>4. s.task # "none" => tk[s.task] # <<>> /\ tk[s.task][1].row = s.row
  BY <1>3 DEF Sound
<1>5. s.task # "none" => s.task \in Tasks
  BY <1>3 DEF Statement
<1>6. AllInv(tasks, rest, calls, disk, txn, closed)
  BY <1>2, <1>3 DEF JournalInv, AllInv
<1> QED BY <1>2, <1>3, <1>4, <1>5, <1>6

\* What Resume does, and to the phase.
LEMMA ResumeIs ==
  ASSUME JournalInv, NEW c \in Conns, worker[c] # <<>>, NEW s, s = Head(worker[c]),
         NEW rest, rest = [worker EXCEPT ![c] = Tail(worker[c])],
         Resume(c, s, Tail(worker[c]))
  PROVE  /\ Resumes(s, c, tasks, rest, tasks', worker')
         /\ MainBusy'
         /\ returned' = returned \/ (s.op # "insert" /\ returned' = returned \cup ({s.row} \ {NoRow}))
<1>1. worker \in [Conns -> Seq(Statement)] /\ tasks \in [Tasks -> Seq(Planned)] /\ MainBusy
  BY DEF JournalInv, JournalTypes
<1>2. rest[c] = Tail(worker[c])
  BY <1>1
<1>3. CASE s.task = "none"
  BY <1>1, <1>3 DEF Resume, Resumes, MainBusy
<1>4. CASE s.task # "none" /\ s.op = "insert"
  <2>1. /\ worker' = [worker EXCEPT ![c] = Append(Tail(worker[c]), [s EXCEPT !.op = "commit"])]
        /\ UNCHANGED <<tasks, phase, returned>>
    BY <1>4 DEF Resume
  <2>2. worker' = WithStatement(rest, c, [s EXCEPT !.op = "commit"])
    BY <1>1, <1>2, <2>1 DEF WithStatement
  <2> QED BY <1>1, <1>4, <2>1, <2>2 DEF Resumes, MainBusy
<1>5. CASE s.task # "none" /\ s.op # "insert"
  <2>1. PICK t, left : t = s.task /\ left = Tail(tasks[t])
    OBVIOUS
  <2>2. /\ GoOn(t, left, rest)
        /\ IF t = "main" THEN MainReturns(left) ELSE UNCHANGED phase
        /\ returned' = returned \cup ({s.row} \ {NoRow})
    BY <1>5, <2>1 DEF Resume
  <2>3. Goes(tasks, rest, t, left, tasks', worker')
    BY <2>2 DEF GoOn, Goes
  <2>4. t \in Tasks /\ tasks[t] # <<>>
    BY <1>5, <2>1, HeadDropped
  <2>5. tasks'[t] = left /\ \A u \in Tasks : u # t => tasks'[u] = tasks[u]
    BY <1>1, <2>3, <2>4 DEF Goes
  <2>6. MainBusy'
    <3>1. CASE t # "main"
      BY <1>1, <2>2, <2>5, <3>1, TaskNames DEF MainBusy
    <3>2. CASE t = "main"
      BY <1>1, <2>2, <2>4, <2>5, <3>2 DEF MainBusy, MainReturns
    <3> QED BY <3>1, <3>2
  <2> QED BY <1>5, <2>1, <2>2, <2>3, <2>6 DEF Resumes
<1> QED BY <1>3, <1>4, <1>5

LEMMA InsertKeeps ==
  ASSUME JournalInv, NEW c \in Conns, Insert(c)
  PROVE  JournalInv'
<1>1. PICK s, rest : s = Head(worker[c]) /\ rest = [worker EXCEPT ![c] = Tail(worker[c])]
  OBVIOUS
<1>2. /\ worker[c] # <<>> /\ s.op = "insert" /\ txn.conn \in {"none", c}
      /\ txn' = [conn |-> c, rows |-> Append(txn.rows, s.row)]
      /\ Resume(c, s, Tail(worker[c])) /\ UNCHANGED <<disk, closed, calls, clock>>
  BY <1>1 DEF Insert, Lockable
<1>3. /\ rest \in [Conns -> Seq(Statement)]
      /\ AllInv(tasks, rest, calls, disk, txn, closed)
      /\ s \in Statement /\ Sound(s, c, tasks, calls, disk, txn, closed)
      /\ ApartFromAll(s, rest)
      /\ s.task # "none" => /\ Silent(s.task, rest) /\ tasks[s.task] # <<>>
                            /\ tasks[s.task][1].row = s.row /\ s.task \in Tasks
  BY <1>1, <1>2, HeadDropped
<1>4. /\ Resumes(s, c, tasks, rest, tasks', worker') /\ MainBusy' /\ returned' = returned
  BY <1>1, <1>2, ResumeIs
<1>5. /\ IsKnown(s.row, calls) /\ Backed(s.row, disk) /\ Unsent(s.row, rest, disk, txn)
      /\ \A t \in Tasks : \A i \in DOMAIN tasks[t] : i > 1 => tasks[t][i].row # s.row
  BY <1>2, <1>3 DEF Sound, Unsent, Apart, ApartFromAll
<1>6. PICK tk, n, d, x, y, cl, row :
        tk = tasks /\ n = calls /\ d = disk /\ x = txn /\ y = txn' /\ cl = closed /\ row = s.row
  OBVIOUS
<1>7. y \in Transaction /\ AllInv(tk, rest, n, d, y, cl) /\ row \in TxnRows(y, c)
  <2>1. d \in Seq(Row) /\ x \in Transaction /\ AllInv(tk, rest, n, d, x, cl)
    BY <1>3, <1>6 DEF JournalInv, JournalTypes
  <2>2. /\ x.conn \in {"none", c} /\ IsKnown(row, n) /\ Backed(row, d) /\ Unsent(row, rest, d, x)
        /\ \A t \in Tasks : \A i \in DOMAIN tk[t] : i > 1 => tk[t][i].row # row
        /\ y = [conn |-> c, rows |-> Append(x.rows, row)]
    BY <1>2, <1>5, <1>6
  <2> QED BY <2>1, <2>2, Inserted
<1>8. Done(s, c, tk, rest, d, y)
  BY <1>2, <1>3, <1>6, <1>7 DEF Done
<1>9. PICK tm, wm : tm = tasks' /\ wm = worker'
  OBVIOUS
<1>10. tk \in [Tasks -> Seq(Planned)] /\ Resumes(s, c, tk, rest, tm, wm)
  BY <1>4, <1>6, <1>9 DEF JournalInv, JournalTypes
<1>11. /\ tm \in [Tasks -> Seq(Planned)] /\ wm \in [Conns -> Seq(Statement)]
       /\ AllInv(tm, wm, n, d, y, cl)
  BY <1>3, <1>7, <1>8, <1>10, Resumed
<1>12. JournalTypes'
  BY <1>2, <1>6, <1>7, <1>9, <1>11 DEF JournalInv, JournalTypes
<1>13. AllInv(tasks', worker', calls', disk', txn', closed')
  BY <1>2, <1>6, <1>9, <1>11
<1> QED BY <1>2, <1>4, <1>12, <1>13 DEF JournalInv

LEMMA CommitKeeps ==
  ASSUME JournalInv, NEW c \in Conns, Commit(c)
  PROVE  JournalInv'
<1>1. PICK s, rest : s = Head(worker[c]) /\ rest = [worker EXCEPT ![c] = Tail(worker[c])]
  OBVIOUS
<1>2. /\ worker[c] # <<>> /\ s.op = "commit" /\ c \notin closed
      /\ Resume(c, s, Tail(worker[c])) /\ UNCHANGED <<closed, calls, clock>>
      /\ \/ txn.conn = c /\ disk' = disk \o txn.rows /\ txn' = NoTxn
         \/ txn.conn # c /\ disk' = disk /\ txn' = txn
  BY <1>1 DEF Commit, HasTxn
<1>3. /\ rest \in [Conns -> Seq(Statement)]
      /\ AllInv(tasks, rest, calls, disk, txn, closed)
      /\ s \in Statement /\ Sound(s, c, tasks, calls, disk, txn, closed)
      /\ s.task # "none" => /\ Silent(s.task, rest) /\ tasks[s.task] # <<>>
                            /\ tasks[s.task][1].row = s.row /\ s.task \in Tasks
  BY <1>1, <1>2, HeadDropped
<1>4. /\ Resumes(s, c, tasks, rest, tasks', worker') /\ MainBusy'
      /\ returned' = returned \/ returned' = returned \cup ({s.row} \ {NoRow})
  BY <1>1, <1>2, ResumeIs
<1>5. PICK tk, n, d, x, cl, e, y :
        /\ tk = tasks /\ n = calls /\ d = disk /\ x = txn /\ cl = closed
        /\ e = disk' /\ y = txn'
  OBVIOUS
<1>6. d \in Seq(Row) /\ x \in Transaction /\ AllInv(tk, rest, n, d, x, cl) /\ tk \in [Tasks -> Seq(Planned)]
  BY <1>3, <1>5 DEF JournalInv, JournalTypes
<1>7. s.row \in RowsIn(d) \cup TxnRows(x, c)
  BY <1>2, <1>3, <1>5 DEF Sound
<1>8. /\ e \in Seq(Row) /\ y \in Transaction /\ AllInv(tk, rest, n, e, y, cl)
      /\ RowsIn(d) \subseteq RowsIn(e) /\ s.row \in RowsIn(e)
  <2>1. CASE x.conn = c
    <3>1. e = d \o x.rows /\ y = NoTxn
      BY <1>2, <1>5, <2>1
    <3>2. /\ e \in Seq(Row) /\ AllInv(tk, rest, n, e, NoTxn, cl)
          /\ RowsIn(e) = RowsIn(d) \cup RowsIn(x.rows)
      <4>1. LET f == d \o x.rows
            IN  /\ f \in Seq(Row) /\ AllInv(tk, rest, n, f, NoTxn, cl)
                /\ RowsIn(f) = RowsIn(d) \cup RowsIn(x.rows)
        BY <1>6, Committed
      <4> QED BY <3>1, <4>1
    <3> QED BY <1>7, <2>1, <3>1, <3>2, NothingInNoTxn DEF TxnRows
  <2>2. CASE x.conn # c
    <3>1. e = d /\ y = x
      BY <1>2, <1>5, <2>2
    <3> QED BY <1>6, <1>7, <2>2, <3>1 DEF TxnRows
  <2> QED BY <2>1, <2>2
<1>9. Done(s, c, tk, rest, e, y)
  BY <1>2, <1>3, <1>5, <1>8 DEF Done
<1>10. PICK tm, wm : tm = tasks' /\ wm = worker'
  OBVIOUS
<1>11. Resumes(s, c, tk, rest, tm, wm)
  BY <1>4, <1>5, <1>10
<1>12. /\ tm \in [Tasks -> Seq(Planned)] /\ wm \in [Conns -> Seq(Statement)]
       /\ AllInv(tm, wm, n, e, y, cl)
  BY <1>3, <1>6, <1>8, <1>9, <1>11, Resumed
<1>13. JournalTypes'
  BY <1>2, <1>5, <1>8, <1>10, <1>12 DEF JournalInv, JournalTypes
<1>14. AllInv(tasks', worker', calls', disk', txn', closed')
  BY <1>2, <1>5, <1>10, <1>12
<1>15. returned' \subseteq RowsIn(disk')
  BY <1>4, <1>5, <1>8 DEF JournalInv
<1> QED BY <1>4, <1>13, <1>14, <1>15 DEF JournalInv

LEMMA CloseKeeps ==
  ASSUME JournalInv, NEW c \in Conns, CloseConn(c)
  PROVE  JournalInv'
<1>1. PICK s, rest : s = Head(worker[c]) /\ rest = [worker EXCEPT ![c] = Tail(worker[c])]
  OBVIOUS
<1>2. /\ worker[c] # <<>> /\ s.op = "close"
      /\ Resume(c, s, Tail(worker[c])) /\ UNCHANGED <<disk, calls, clock>>
      /\ closed' = closed \cup {c} /\ txn' = IF txn.conn = c THEN NoTxn ELSE txn
  BY <1>1 DEF CloseConn
<1>3. /\ rest \in [Conns -> Seq(Statement)]
      /\ AllInv(tasks, rest, calls, disk, txn, closed)
      /\ s \in Statement /\ Sound(s, c, tasks, calls, disk, txn, closed)
      /\ s.task # "none" => /\ Silent(s.task, rest) /\ tasks[s.task] # <<>>
                            /\ tasks[s.task][1].row = s.row /\ s.task \in Tasks
  BY <1>1, <1>2, HeadDropped
<1>4. s.row = NoRow
  BY <1>2, <1>3 DEF Sound
<1>5. /\ Resumes(s, c, tasks, rest, tasks', worker') /\ MainBusy' /\ returned' = returned
  BY <1>1, <1>2, <1>4, ResumeIs
<1>6. PICK tk, n, d, x, cl, y :
        /\ tk = tasks /\ n = calls /\ d = disk /\ x = txn /\ cl = closed /\ y = txn'
  OBVIOUS
<1>7. AllInv(tk, rest, n, d, y, cl \cup {c}) /\ y \in Transaction
  <2>1. AllInv(tk, rest, n, d, x, cl) /\ y = IF x.conn = c THEN NoTxn ELSE x
    BY <1>2, <1>3, <1>6
  <2>2. AllInv(tk, rest, n, d, y, cl \cup {c})
    BY <2>1, RolledBack
  <2>3. x \in Transaction
    BY <1>6 DEF JournalInv, JournalTypes
  <2> QED BY <2>1, <2>2, <2>3, NothingInNoTxn
<1>8. Done(s, c, tk, rest, d, y)
  BY <1>2, <1>3, <1>4, <1>6, NoRowIsNone DEF Done
<1>9. PICK tm, wm, cm : tm = tasks' /\ wm = worker' /\ cm = cl \cup {c}
  OBVIOUS
<1>10. /\ tk \in [Tasks -> Seq(Planned)] /\ Resumes(s, c, tk, rest, tm, wm)
       /\ AllInv(tk, rest, n, d, y, cm)
  BY <1>5, <1>6, <1>7, <1>9 DEF JournalInv, JournalTypes
<1>11. /\ tm \in [Tasks -> Seq(Planned)] /\ wm \in [Conns -> Seq(Statement)]
       /\ AllInv(tm, wm, n, d, y, cm)
  BY <1>3, <1>8, <1>10, Resumed
<1>12. JournalTypes'
  BY <1>2, <1>6, <1>7, <1>9, <1>11 DEF JournalInv, JournalTypes
<1>13. AllInv(tasks', worker', calls', disk', txn', closed')
  BY <1>2, <1>6, <1>9, <1>11
<1> QED BY <1>2, <1>5, <1>12, <1>13 DEF JournalInv

LEMMA RaiseKeeps ==
  ASSUME JournalInv, NEW c \in Conns, Raise(c)
  PROVE  JournalInv'
<1>1. PICK s, rest : s = Head(worker[c]) /\ rest = [worker EXCEPT ![c] = Tail(worker[c])]
  OBVIOUS
<1>2. worker[c] # <<>> /\ UNCHANGED <<txn, disk, closed, calls, clock, returned>>
  BY DEF Raise
<1>3. /\ rest \in [Conns -> Seq(Statement)]
      /\ AllInv(tasks, rest, calls, disk, txn, closed)
      /\ s \in Statement
      /\ s.task # "none" => /\ Silent(s.task, rest) /\ tasks[s.task] # <<>>
                            /\ tasks[s.task][1].row = s.row /\ s.task \in Tasks
  BY <1>1, <1>2, HeadDropped
<1>4. PICK tk, n, d, x, cl :
        tk = tasks /\ n = calls /\ d = disk /\ x = txn /\ cl = closed
  OBVIOUS
<1>5. PICK tm, wm : tm = tasks' /\ wm = worker'
  OBVIOUS
<1>6. tk \in [Tasks -> Seq(Planned)] /\ AllInv(tk, rest, n, d, x, cl) /\ MainBusy
  BY <1>3, <1>4 DEF JournalInv, JournalTypes
<1>7. ASSUME tm \in [Tasks -> Seq(Planned)], wm \in [Conns -> Seq(Statement)],
             AllInv(tm, wm, n, d, x, cl), MainBusy'
      PROVE  JournalInv'
  BY <1>2, <1>4, <1>5, <1>7 DEF JournalInv, JournalTypes
<1>8. CASE s.task = "none"
  <2>1. wm = rest /\ UNCHANGED <<tasks, phase>>
    BY <1>1, <1>5, <1>8 DEF Raise
  <2> QED BY <1>3, <1>4, <1>5, <1>6, <1>7, <2>1 DEF MainBusy
<1>9. CASE s.task # "none"
  <2>1. PICK t, left : t = s.task /\ left = IF s.row.table = "cancel" THEN Tail(tk[t]) ELSE <<>>
    OBVIOUS
  <2>2. /\ GoOn(t, left, rest)
        /\ IF t = "main" /\ left = <<>> THEN phase' = "aborted" ELSE UNCHANGED phase
    BY <1>1, <1>4, <1>9, <2>1 DEF Raise
  <2>3. Goes(tk, rest, t, left, tm, wm)
    BY <1>4, <1>5, <2>2 DEF GoOn, Goes
  <2>4. Silent(t, rest) /\ tk[t] # <<>> /\ tk[t][1].row = s.row /\ t \in Tasks
    BY <1>3, <1>4, <1>9, <2>1
  <2>5. MainBusy'
    <3>1. tm[t] = left /\ \A u \in Tasks : u # t => tm[u] = tk[u]
      BY <1>6, <2>3, <2>4 DEF Goes
    <3>2. CASE t # "main"
      BY <1>4, <1>5, <1>6, <2>2, <3>1, <3>2, TaskNames DEF MainBusy
    <3>3. CASE t = "main"
      BY <1>4, <1>5, <1>6, <2>2, <2>4, <3>1, <3>3 DEF MainBusy
    <3> QED BY <3>2, <3>3
  <2>6. CASE s.row.table = "cancel"
    <3>1. left = Tail(tk[t]) /\ tk[t][1].row.table # "fill"
      BY <2>1, <2>4, <2>6
    <3>2. /\ tm \in [Tasks -> Seq(Planned)] /\ wm \in [Conns -> Seq(Statement)]
          /\ AllInv(tm, wm, n, d, x, cl)
      BY <1>3, <1>6, <2>3, <2>4, <3>1, NextWrite
    <3> QED BY <1>7, <2>5, <3>2
  <2>7. CASE s.row.table # "cancel"
    <3>1. left = <<>> /\ wm = rest /\ tm = [tk EXCEPT ![t] = <<>>]
      BY <2>1, <2>3, <2>7 DEF Goes
    <3>2. tm \in [Tasks -> Seq(Planned)] /\ AllInv(tm, rest, n, d, x, cl)
      BY <1>3, <1>6, <2>4, <3>1, GivesUp
    <3> QED BY <1>3, <1>7, <2>5, <3>1, <3>2
  <2> QED BY <2>6, <2>7
<1> QED BY <1>8, <1>9

\* A call that writes and is counted.
LEMMA BeginKeeps ==
  ASSUME JournalInv, NEW t \in Tasks, NEW writes, Begin(t, writes),
         calls' = calls + 1, FreshWrites(writes, calls'), clock' \in Nat,
         UNCHANGED <<txn, disk, closed, returned>>,
         MainBusy'
  PROVE  JournalInv'
<1>1. PICK tk, wk, n, d, x, cl :
        tk = tasks /\ wk = worker /\ n = calls /\ d = disk /\ x = txn /\ cl = closed
  OBVIOUS
<1>2. PICK tm, wm : tm = tasks' /\ wm = worker'
  OBVIOUS
<1>3. /\ tk \in [Tasks -> Seq(Planned)] /\ wk \in [Conns -> Seq(Statement)] /\ n \in Nat
      /\ d \in Seq(Row) /\ x \in Transaction /\ AllInv(tk, wk, n, d, x, cl)
  BY <1>1 DEF JournalInv, JournalTypes
<1>4. tk[t] = <<>> /\ Goes(tk, wk, t, writes, tm, wm)
  BY <1>1, <1>2 DEF Begin, GoOn, Goes
<1>5. FreshWrites(writes, n + 1)
  BY <1>1
<1>6. /\ tm \in [Tasks -> Seq(Planned)] /\ wm \in [Conns -> Seq(Statement)]
      /\ AllInv(tm, wm, n + 1, d, x, cl)
  BY <1>3, <1>4, <1>5, NewCall
<1>7. JournalTypes'
  BY <1>1, <1>2, <1>3, <1>6 DEF JournalTypes
<1>8. AllInv(tasks', worker', calls', disk', txn', closed')
  BY <1>1, <1>2, <1>6
<1> QED BY <1>7, <1>8 DEF JournalInv

LEMMA FillKeeps ==
  ASSUME JournalInv, NEW t \in OrderTasks, HandleFill(t)
  PROVE  JournalInv'
<1>1. t \in Tasks /\ t # "main"
  BY JournalsAssumption DEF Tasks
<1>2. /\ calls' = calls + 1 /\ Begin(t, FillWrites(calls'))
      /\ UNCHANGED <<phase, txn, disk, closed, clock, returned>>
  BY DEF HandleFill, Counted, Continues
<1>3. calls \in Nat /\ clock \in Nat /\ MainBusy /\ tasks \in [Tasks -> Seq(Planned)]
  BY DEF JournalInv, JournalTypes
<1>4. PICK k \in Nat : k = calls'
  BY <1>2, <1>3
<1>5. FreshWrites(FillWrites(k), k)
  BY FillIsFresh
<1>6. MainBusy'
  BY <1>1, <1>2, <1>3, TaskNames DEF MainBusy, Begin, GoOn
<1>7. PICK writes : writes = FillWrites(calls')
  OBVIOUS
<1>8. Begin(t, writes) /\ FreshWrites(writes, calls')
  BY <1>2, <1>4, <1>5, <1>7
<1> QED BY <1>1, <1>2, <1>3, <1>6, <1>8, BeginKeeps

\* What a reconcile's call does, whoever makes it.
LEMMA RefreshedClock ==
  ASSUME JournalInv, NEW report, Refreshed(report)
  PROVE  clock' \in Nat /\ clock <= clock'
BY JournalsAssumption DEF JournalInv, JournalTypes, Refreshed

LEMMA TickKeeps ==
  ASSUME JournalInv, (\E report \in Reports : Reconcile(report)) \/ Quarantine
  PROVE  JournalInv'
<1>1. calls \in Nat /\ clock \in Nat /\ MainBusy /\ tasks \in [Tasks -> Seq(Planned)]
  BY DEF JournalInv, JournalTypes
<1>2. ASSUME NEW writes, Begin("tick", writes), UNCHANGED phase
      PROVE  MainBusy'
  BY <1>1, <1>2, TaskNames DEF MainBusy, Begin, GoOn
<1>3. ASSUME NEW report \in Reports, Reconcile(report)
      PROVE  JournalInv'
  <2>1. /\ calls' = calls + 1 /\ Begin("tick", ReconcileWrites(report))
        /\ UNCHANGED <<phase, txn, disk, closed, returned>>
    BY <1>3 DEF Reconcile, Counted, Continues
  <2>2. clock' \in Nat
    BY <1>3, RefreshedClock DEF Reconcile
  <2>3. calls' \in Nat
    BY <1>1, <2>1
  <2>4. FreshWrites(ReconcileWrites(report), calls')
    BY <1>1, <2>2, <2>3, ReconcileIsFresh
  <2>5. PICK writes : writes = ReconcileWrites(report)
    OBVIOUS
  <2>6. Begin("tick", writes) /\ FreshWrites(writes, calls') /\ MainBusy'
    BY <1>2, <2>1, <2>4, <2>5
  <2> QED BY <2>1, <2>2, <2>6, BeginKeeps, TaskNames
<1>4. ASSUME Quarantine
      PROVE  JournalInv'
  <2>1. PICK writes : writes = <<Write("orders", "cancel", calls'), Write("events", "QUARANTINE", calls')>>
    OBVIOUS
  <2>2. /\ calls' = calls + 1 /\ Begin("tick", writes)
        /\ UNCHANGED <<phase, txn, disk, closed, clock, returned>>
    BY <1>4, <2>1 DEF Quarantine, Counted, Continues
  <2>3. calls' \in Nat
    BY <1>1, <2>2
  <2>4. FreshWrites(writes, calls')
    BY <2>1, <2>3, QuarantineIsFresh
  <2>5. MainBusy'
    BY <1>2, <2>2
  <2> QED BY <1>1, <2>2, <2>4, <2>5, BeginKeeps, TaskNames
<1> QED BY <1>3, <1>4

LEMMA OperatorKeeps ==
  ASSUME JournalInv, Acknowledge \/ \E report \in Reports : AckReconcile(report)
  PROVE  JournalInv'
<1>1. calls \in Nat /\ clock \in Nat /\ MainBusy /\ tasks \in [Tasks -> Seq(Planned)]
  BY DEF JournalInv, JournalTypes
<1>2. ASSUME NEW writes, Begin("operator", writes), UNCHANGED phase
      PROVE  MainBusy'
  BY <1>1, <1>2, TaskNames DEF MainBusy, Begin, GoOn
<1>3. CASE Acknowledge
  <2>1. PICK writes : writes = <<Write("events", "RECONCILING", calls')>>
    OBVIOUS
  <2>2. /\ calls' = calls + 1 /\ Begin("operator", writes)
        /\ UNCHANGED <<phase, txn, disk, closed, clock, returned>>
    BY <1>3, <2>1 DEF Acknowledge, Continues
  <2>3. calls' \in Nat /\ "RECONCILING" \in States
    BY <1>1, <2>2 DEF States
  <2>4. FreshWrites(writes, calls')
    BY <2>1, <2>3, StateIsFresh
  <2>5. MainBusy'
    BY <1>2, <2>2
  <2> QED BY <1>1, <2>2, <2>4, <2>5, BeginKeeps, TaskNames
<1>4. ASSUME NEW report \in Reports, AckReconcile(report)
      PROVE  JournalInv'
  <2>1. PICK writes : writes = ReconcileWrites(report) \o <<Write("events", "RUNNING", calls')>>
    OBVIOUS
  <2>2. /\ calls' = calls + 1 /\ Begin("operator", writes)
        /\ UNCHANGED <<phase, txn, disk, closed, returned>>
    BY <1>4, <2>1 DEF AckReconcile, Continues
  <2>3. clock' \in Nat
    BY <1>4, RefreshedClock DEF AckReconcile
  <2>4. calls' \in Nat
    BY <1>1, <2>2
  <2>5. FreshWrites(writes, calls')
    BY <1>1, <2>1, <2>3, <2>4, TransitionIsFresh
  <2>6. MainBusy'
    BY <1>2, <2>2
  <2> QED BY <2>2, <2>3, <2>5, <2>6, BeginKeeps, TaskNames
<1> QED BY <1>3, <1>4

LEMMA StartKeeps ==
  ASSUME JournalInv, Boot \/ \E report \in Reports : BootReconcile(report)
  PROVE  JournalInv'
<1>1. calls \in Nat /\ clock \in Nat /\ tasks \in [Tasks -> Seq(Planned)]
  BY DEF JournalInv, JournalTypes
<1>2. CASE Boot
  <2>1. PICK writes : writes = <<Write("events", "RECONCILING", calls')>>
    OBVIOUS
  <2>2. /\ calls' = calls + 1 /\ phase' = "booting" /\ Begin("main", writes)
        /\ UNCHANGED <<txn, disk, closed, clock, returned>>
    BY <1>2, <2>1 DEF Boot, Continues
  <2>3. calls' \in Nat /\ MainBusy' /\ "RECONCILING" \in States
    BY <1>1, <2>2 DEF MainBusy, States
  <2>4. FreshWrites(writes, calls')
    BY <2>1, <2>3, StateIsFresh
  <2> QED BY <1>1, <2>2, <2>3, <2>4, BeginKeeps, TaskNames
<1>3. ASSUME NEW report \in Reports, BootReconcile(report)
      PROVE  JournalInv'
  <2>1. PICK writes : writes = ReconcileWrites(report) \o <<Write("events", "RUNNING", calls')>>
    OBVIOUS
  <2>2. /\ calls' = calls + 1 /\ phase' = "reconciling" /\ Begin("main", writes)
        /\ UNCHANGED <<txn, disk, closed, returned>>
    BY <1>3, <2>1 DEF BootReconcile, Continues
  <2>3. clock' \in Nat
    BY <1>3, RefreshedClock DEF BootReconcile
  <2>4. calls' \in Nat /\ MainBusy'
    BY <1>1, <2>2 DEF MainBusy
  <2>5. FreshWrites(writes, calls')
    BY <1>1, <2>1, <2>3, <2>4, TransitionIsFresh
  <2> QED BY <2>2, <2>3, <2>4, <2>5, BeginKeeps, TaskNames
<1> QED BY <1>2, <1>3

\* The tick's statement, if it has one, stays without the task.
WithoutTick(wk) ==
  [c \in Conns |-> [i \in DOMAIN wk[c] |->
     IF wk[c][i].task = "tick" THEN [wk[c][i] EXCEPT !.task = "none"] ELSE wk[c][i]]]

LEMMA Abandons ==
  ASSUME NEW tk \in [Tasks -> Seq(Planned)], NEW wk \in [Conns -> Seq(Statement)],
         NEW n, NEW d, NEW x, NEW cl, AllInv(tk, wk, n, d, x, cl),
         NEW wm, wm = WithoutTick(wk),
         NEW tm, tm = [tk EXCEPT !["tick"] = <<>>]
  PROVE  /\ tm \in [Tasks -> Seq(Planned)] /\ wm \in [Conns -> Seq(Statement)]
         /\ AllInv(tm, wm, n, d, x, cl)
<1>1. ASSUME NEW c \in Conns, NEW i \in DOMAIN wk[c]
      PROVE  /\ wk[c][i] \in Statement /\ wm[c][i] \in Statement
             /\ wm[c][i].op = wk[c][i].op /\ wm[c][i].row = wk[c][i].row
             /\ wm[c][i].task = IF wk[c][i].task = "tick" THEN "none" ELSE wk[c][i].task
  <2>1. wk[c] \in Seq(Statement)
    OBVIOUS
  <2>2. PICK s \in Statement : s = wk[c][i]
    BY <2>1
  <2>3. wm[c][i] = IF s.task = "tick" THEN [s EXCEPT !.task = "none"] ELSE s
    BY <2>2 DEF WithoutTick
  <2>4. [s EXCEPT !.task = "none"] \in Statement
    BY DEF Statement
  <2>5. /\ [s EXCEPT !.task = "none"].op = s.op /\ [s EXCEPT !.task = "none"].row = s.row
        /\ [s EXCEPT !.task = "none"].task = "none"
    BY DEF Statement
  <2> QED BY <2>2, <2>3, <2>4, <2>5
<1>2. wm \in [Conns -> Seq(Statement)] /\ \A c \in Conns : DOMAIN wm[c] = DOMAIN wk[c]
  <2>1. ASSUME NEW c \in Conns
        PROVE  wm[c] \in Seq(Statement) /\ DOMAIN wm[c] = DOMAIN wk[c]
    <3>1. wk[c] \in Seq(Statement)
      OBVIOUS
    <3>2. DOMAIN wk[c] = 1 .. Len(wk[c]) /\ Len(wk[c]) \in Nat
      BY <3>1
    <3>3. DOMAIN wm[c] = DOMAIN wk[c] /\ wm[c] = [i \in DOMAIN wm[c] |-> wm[c][i]]
      BY DEF WithoutTick
    <3>4. wm[c] \in [1 .. Len(wk[c]) -> Statement]
      BY <1>1, <3>2, <3>3
    <3>5. ASSUME NEW q, NEW l \in Nat, q \in [1 .. l -> Statement]
          PROVE  q \in Seq(Statement)
      BY <3>5
    <3> QED BY <3>2, <3>3, <3>4, <3>5, Zenon
  <2>2. wm = [c \in Conns |-> wm[c]]
    BY Zenon DEF WithoutTick
  <2>3. wm \in [Conns -> Seq(Statement)]
    <3>1. \A c \in Conns : wm[c] \in Seq(Statement)
      BY <2>1
    <3> QED BY <2>2, <3>1, Zenon
  <2> QED BY <2>1, <2>3
<1>3. WorkInv(tk, wm, n, d, x, cl)
  <2>1. ASSUME NEW c \in Conns, NEW i \in DOMAIN wm[c]
        PROVE  Sound(wm[c][i], c, tk, n, d, x, cl)
    <3>1. i \in DOMAIN wk[c]
      BY <1>2
    <3>2. Sound(wk[c][i], c, tk, n, d, x, cl)
      BY <3>1 DEF AllInv, WorkInv
    <3>3. PICK r, s : r = wk[c][i] /\ s = wm[c][i]
      OBVIOUS
    <3>4. s.op = r.op /\ s.row = r.row /\ (s.task # "none" => s.task = r.task)
      BY <1>1, <3>1, <3>3
    <3>5. Sound(r, c, tk, n, d, x, cl)
      BY <3>2, <3>3
    <3>6. Sound(s, c, tk, n, d, x, cl)
      BY <3>4, <3>5 DEF Sound
    <3> QED BY <3>3, <3>6
  <2>2. ASSUME NEW c \in Conns, NEW e \in Conns, NEW i \in DOMAIN wm[c], NEW j \in DOMAIN wm[e],
               c # e \/ i # j
        PROVE  Apart(wm[c][i], wm[e][j])
    <3>1. i \in DOMAIN wk[c] /\ j \in DOMAIN wk[e]
      BY <1>2
    <3>2. Apart(wk[c][i], wk[e][j])
      BY <2>2, <3>1 DEF AllInv, WorkInv
    <3>3. PICK p, q, r, s : p = wk[c][i] /\ q = wk[e][j] /\ r = wm[c][i] /\ s = wm[e][j]
      OBVIOUS
    <3>4. /\ r.op = p.op /\ r.row = p.row /\ r.task = IF p.task = "tick" THEN "none" ELSE p.task
          /\ s.op = q.op /\ s.row = q.row /\ s.task = IF q.task = "tick" THEN "none" ELSE q.task
      BY <1>1, <3>1, <3>3
    <3>5. Apart(p, q)
      BY <3>2, <3>3
    <3>6. Apart(r, s)
      BY <3>4, <3>5 DEF Apart
    <3> QED BY <3>3, <3>6
  <2> QED BY <2>1, <2>2 DEF WorkInv
<1>4. Silent("tick", wm)
  BY <1>1, <1>2, SMTT(30) DEF Silent
<1>5. AllInv(tk, wm, n, d, x, cl)
  BY <1>3 DEF AllInv
<1> QED BY <1>2, <1>4, <1>5, TaskNames, GivesUp

LEMMA StopKeeps ==
  ASSUME JournalInv, NEW orders \in BOOLEAN, Stop(orders)
  PROVE  JournalInv'
<1>1. PICK k, writes : k = calls' /\ writes = StopWrites(calls', orders)
  OBVIOUS
<1>2. PICK work : work = [c \in Conns |-> Abandoned(c)]
  OBVIOUS
<1>3. /\ phase = "up" /\ phase' = "stopping" /\ calls' = calls + 1
      /\ tasks' = [tasks EXCEPT !["tick"] = <<>>, !["main"] = writes]
      /\ worker' = [work EXCEPT !["events"] = Append(@, FirstStatement("main", writes[1]))]
      /\ UNCHANGED <<txn, disk, closed, clock, returned>>
  BY <1>1, <1>2 DEF Stop, Counted, Continues, StopWrites
<1>4. calls \in Nat /\ k \in Nat /\ tasks["main"] = <<>>
  BY <1>1, <1>3 DEF JournalInv, JournalTypes, MainBusy
<1>5. FreshWrites(writes, k) /\ writes # <<>> /\ writes[1].conn = "events"
  <2>1. writes = StopWrites(k, orders)
    BY <1>1
  <2>2. FreshWrites(writes, k) /\ writes # <<>> /\ writes[1] = Write("events", "DRAINING", k)
    BY <1>4, <2>1, StopIsFresh
  <2> QED BY <2>2 DEF Write
<1>6. PICK tk, wk, n, d, x, cl :
        tk = tasks /\ wk = worker /\ n = calls /\ d = disk /\ x = txn /\ cl = closed
  OBVIOUS
<1>7. /\ tk \in [Tasks -> Seq(Planned)] /\ wk \in [Conns -> Seq(Statement)] /\ n \in Nat
      /\ d \in Seq(Row) /\ x \in Transaction /\ AllInv(tk, wk, n, d, x, cl)
  BY <1>6 DEF JournalInv, JournalTypes
<1>8. PICK tt : tt = [tk EXCEPT !["tick"] = <<>>]
  OBVIOUS
<1>9. work = WithoutTick(wk)
  BY <1>2, <1>6 DEF Abandoned, WithoutTick
<1>10. /\ tt \in [Tasks -> Seq(Planned)] /\ work \in [Conns -> Seq(Statement)]
       /\ AllInv(tt, work, n, d, x, cl)
  BY <1>7, <1>8, <1>9, Abandons
<1>11. PICK tm, wm : tm = tasks' /\ wm = worker'
  OBVIOUS
<1>12. tt["main"] = <<>>
  BY <1>4, <1>6, <1>7, <1>8, TaskNames
<1>13. Goes(tt, work, "main", writes, tm, wm)
  <2>1. tm = [tt EXCEPT !["main"] = writes]
    BY <1>3, <1>6, <1>8, <1>11
  <2>2. wm = [work EXCEPT ![writes[1].conn] = Append(@, FirstStatement("main", writes[1]))]
    BY <1>3, <1>5, <1>11
  <2> QED BY <1>5, <2>1, <2>2 DEF Goes
<1>14. FreshWrites(writes, n + 1)
  BY <1>1, <1>3, <1>5, <1>6
<1>15. PICK main \in Tasks : main = "main"
  BY TaskNames
<1>16. /\ tm \in [Tasks -> Seq(Planned)] /\ wm \in [Conns -> Seq(Statement)]
       /\ AllInv(tm, wm, n + 1, d, x, cl)
  BY <1>7, <1>10, <1>12, <1>13, <1>14, <1>15, NewCall
<1>17. JournalTypes' /\ AllInv(tasks', worker', calls', disk', txn', closed') /\ MainBusy'
  <2>1. calls' = n + 1 /\ calls' \in Nat /\ clock' \in Nat
    BY <1>3, <1>4, <1>6 DEF JournalInv, JournalTypes
  <2>2. JournalTypes'
    BY <1>3, <1>6, <1>7, <1>11, <1>16, <2>1 DEF JournalTypes
  <2>3. AllInv(tasks', worker', calls', disk', txn', closed')
    BY <1>3, <1>6, <1>11, <1>16, <2>1
  <2>4. MainBusy'
    BY <1>3 DEF MainBusy
  <2> QED BY <2>2, <2>3, <2>4
<1> QED BY <1>3, <1>17 DEF JournalInv

\* A process that starts has nothing under way, whatever the last one had.
LEMMA NothingUnderWay ==
  ASSUME NEW n \in Nat, NEW d \in Seq(Row), NEW x, StoredInv(n, d, x)
  PROVE  LET tk == [t \in Tasks |-> <<>>]
             wk == [c \in Conns |-> <<>>]
         IN  /\ tk \in [Tasks -> Seq(Planned)] /\ wk \in [Conns -> Seq(Statement)]
             /\ AllInv(tk, wk, n, d, NoTxn, {})
<1>1. PICK tk, wk : tk = [t \in Tasks |-> <<>>] /\ wk = [c \in Conns |-> <<>>]
  OBVIOUS
<1>2. <<>> \in Seq(Planned) /\ <<>> \in Seq(Statement) /\ DOMAIN <<>> = {}
  OBVIOUS
<1>3. tk \in [Tasks -> Seq(Planned)] /\ wk \in [Conns -> Seq(Statement)]
  BY <1>1, <1>2
<1>4. TasksInv(tk, n, d, NoTxn) /\ WorkInv(tk, wk, n, d, NoTxn, {})
  BY <1>1, <1>2 DEF TasksInv, DistinctPlans, PlansInv, WorkInv
<1>5. StoredInv(n, d, NoTxn)
  <2>1. DOMAIN NoTxn.rows = {} /\ Stored(d, NoTxn) \subseteq Stored(d, x)
    BY <1>2, NothingInNoTxn DEF Stored
  <2> QED BY <2>1, NothingInNoTxn DEF StoredInv
<1> QED BY <1>1, <1>3, <1>4, <1>5 DEF AllInv

LEMMA RestartKeeps ==
  ASSUME JournalInv, Restart
  PROVE  JournalInv'
<1>1. /\ tasks' = [t \in Tasks |-> <<>>] /\ worker' = [c \in Conns |-> <<>>]
      /\ txn' = NoTxn /\ closed' = {} /\ phase' = "down"
      /\ UNCHANGED <<disk, calls, clock, returned>>
  BY DEF Restart
<1>2. PICK n, d, x : n = calls /\ d = disk /\ x = txn
  OBVIOUS
<1>3. n \in Nat /\ d \in Seq(Row) /\ StoredInv(n, d, x)
  BY <1>2 DEF JournalInv, JournalTypes, AllInv
<1>4. /\ tasks' \in [Tasks -> Seq(Planned)] /\ worker' \in [Conns -> Seq(Statement)]
      /\ AllInv(tasks', worker', calls', disk', txn', closed')
  BY <1>1, <1>2, <1>3, NothingUnderWay
<1>5. MainBusy'
  BY <1>1, TaskNames DEF MainBusy
<1> QED BY <1>1, <1>4, <1>5, NothingInNoTxn DEF JournalInv, JournalTypes

LEMMA JournalInvHolds == Spec => []JournalInv
<1>1. Init => JournalInv
  <2> SUFFICES ASSUME Init PROVE JournalInv
    OBVIOUS
  <2>1. <<>> \in Seq(Row) /\ DOMAIN <<>> = {}
    OBVIOUS
  <2>2. PICK n, d, x : n = calls /\ d = disk /\ x = txn
    OBVIOUS
  <2>3. n = 0 /\ d = <<>> /\ x = NoTxn /\ n \in Nat
    BY <2>2 DEF Init
  <2>4. StoredInv(n, d, x)
    BY <2>1, <2>3, NothingInNoTxn DEF StoredInv, Stored
  <2>5. /\ tasks \in [Tasks -> Seq(Planned)] /\ worker \in [Conns -> Seq(Statement)]
        /\ AllInv(tasks, worker, calls, disk, txn, closed)
    BY <2>1, <2>2, <2>3, <2>4, NothingUnderWay DEF Init
  <2> QED BY <2>1, <2>5, NothingInNoTxn, TaskNames DEF Init, JournalInv, JournalTypes, MainBusy
<1>2. JournalInv /\ [Next]_vars => JournalInv'
  <2> SUFFICES ASSUME JournalInv, [Next]_vars PROVE JournalInv'
    OBVIOUS
  <2>1. CASE UNCHANGED vars
    BY <2>1 DEF vars, JournalInv, JournalTypes, MainBusy
  <2> QED BY <2>1, FillKeeps, TickKeeps, OperatorKeeps, InsertKeeps, CommitKeeps, CloseKeeps,
             RaiseKeeps, StartKeeps, StopKeeps, RestartKeeps DEF Next, Work
<1> QED BY <1>1, <1>2, PTL DEF Spec

-----------------------------------------------------------------------------
(* What follows. *)

\* No order's row is in the file without its fill's, through rows of several
\* tasks in one transaction, cancelled writes, timeouts and restarts.
THEOREM FillsAreFirst == Spec => []FillRowsFirst
<1>1. JournalInv => FillRowsFirst
  BY DEF JournalInv, AllInv, StoredInv, Stored, Backed, FillRowsFirst, RowsIn, Range
<1> QED BY <1>1, JournalInvHolds, PTL

\* The rows of a sequence without repetition are as many as it is long.
LEMMA CountsRows ==
  ASSUME NEW r \in Seq(Row), \A i, j \in DOMAIN r : r[i] = r[j] => i = j
  PROVE  Cardinality(RowsIn(r)) = Len(r)
<1>1. PICK l \in Nat : l = Len(r)
  OBVIOUS
<1>2. DOMAIN r = 1 .. l
  BY <1>1
<1>3. PICK f : f = [i \in 1 .. l |-> r[i]]
  OBVIOUS
<1>4. f \in Bijection(1 .. l, RowsIn(r))
  BY <1>2, <1>3 DEF Bijection, Injection, Surjection, IsInjective, RowsIn
<1>5. ExistsBijection(1 .. l, RowsIn(r))
  BY <1>4 DEF ExistsBijection
<1>6. IsFiniteSet(1 .. l) /\ Cardinality(1 .. l) = l
  BY FS_Interval
<1> QED BY <1>1, <1>5, <1>6, FS_Bijection

\* What may still be written is rows, and not in the file.
LEMMA PendingIsNew ==
  ASSUME NEW tk, NEW wk \in [Conns -> Seq(Statement)], NEW n, NEW d, NEW x \in Transaction, NEW cl,
         AllInv(tk, wk, n, d, x, cl)
  PROVE  {w.row : w \in {s \in UNION {Range(wk[c]) : c \in Conns} : s.op = "insert"}}
           \cup Range(x.rows) \subseteq Row \ RowsIn(d)
<1>1. ASSUME NEW c \in Conns, NEW i \in DOMAIN wk[c], wk[c][i].op = "insert"
      PROVE  wk[c][i].row \in Row \ RowsIn(d)
  BY <1>1 DEF AllInv, WorkInv, Sound, IsKnown, Stored
<1>2. Range(x.rows) \subseteq Row \ RowsIn(d)
  BY DEF AllInv, StoredInv, Stored, IsKnown, RowsIn, Range
<1> QED BY <1>1, <1>2 DEF Range

\* One step of the file.
LEMMA FileSteps ==
  ASSUME NEW d \in Seq(Row), NEW x \in Transaction, StoredInv(calls, d, x), NEW e, e = d \o x.rows
  PROVE  /\ IsPrefix(d, e) /\ Range(e) \ Range(d) = Range(x.rows)
         /\ Len(e) = Len(d) + Cardinality(Range(e) \ Range(d))
<1>1. x.rows \in Seq(Row)
  BY DEF Transaction
<1>2. RowsIn(e) = RowsIn(d) \cup RowsIn(x.rows) /\ RowsIn(x.rows) \cap RowsIn(d) = {}
  BY <1>1, RowsOfConcat DEF StoredInv
<1>3. Range(e) \ Range(d) = RowsIn(x.rows) /\ RowsIn(x.rows) = Range(x.rows)
  BY <1>2 DEF RowsIn, Range
<1>4. Cardinality(RowsIn(x.rows)) = Len(x.rows)
  BY <1>1, CountsRows DEF StoredInv
<1>5. Len(e) = Len(d) + Len(x.rows) /\ IsPrefix(d, e)
  BY <1>1 DEF IsPrefix
<1> QED BY <1>3, <1>4, <1>5

\* Only a COMMIT changes the file, and what has returned stays returned.
LEMMA FileOnlyGrows ==
  ASSUME [Next]_vars
  PROVE  (disk' = disk \/ disk' = disk \o txn.rows) /\ returned \subseteq returned'
<1>1. ASSUME NEW c, NEW s, NEW rest, Resume(c, s, rest)
      PROVE  returned \subseteq returned'
  BY <1>1 DEF Resume
<1>2. ASSUME NEW c \in Conns, Work(c)
      PROVE  (disk' = disk \/ disk' = disk \o txn.rows) /\ returned \subseteq returned'
  <2>1. CASE Insert(c)
    BY <1>1, <2>1 DEF Insert
  <2>2. CASE Commit(c)
    BY <1>1, <2>2 DEF Commit
  <2>3. CASE CloseConn(c)
    BY <1>1, <2>3 DEF CloseConn
  <2>4. CASE Raise(c)
    BY <2>4 DEF Raise
  <2> QED BY <1>2, <2>1, <2>2, <2>3, <2>4 DEF Work
<1>3. CASE UNCHANGED <<disk, returned>>
  BY <1>3
<1>4. ASSUME ~\E c \in Conns : Work(c)
      PROVE  UNCHANGED <<disk, returned>>
  BY <1>4 DEF Next, vars, HandleFill, Reconcile, Quarantine, Acknowledge, AckReconcile, Boot,
                BootReconcile, Stop, Restart
<1> QED BY <1>2, <1>3, <1>4

\* The journals are a durable log: a row is written once or not at all, and one
\* whose write has returned is never lost, whatever tasks share a transaction,
\* are cancelled, time out or end with the process.
THEOREM JournalsAreDurable == Spec => RowsDurable
<1>1. Init => Log!Init
  BY DEF Init, Log!Init, Pending, NoTxn, Range
<1>2. JournalInv /\ JournalInv' /\ [Next]_vars => Log!Next
  <2> SUFFICES ASSUME JournalInv, JournalInv', [Next]_vars PROVE Log!Next
    OBVIOUS
  <2>1. PICK d, x, e : d = disk /\ x = txn /\ e = disk'
    OBVIOUS
  <2>2. d \in Seq(Row) /\ x \in Transaction /\ StoredInv(calls, d, x)
    BY <2>1 DEF JournalInv, JournalTypes, AllInv
  <2>3. e = d \/ e = d \o x.rows
    BY <2>1, FileOnlyGrows
  <2>4. /\ IsPrefix(d, e) /\ Len(e) = Len(d) + Cardinality(Range(e) \ Range(d))
        /\ Range(e) \ Range(d) \subseteq Range(x.rows)
    <3>1. CASE e = d
      <4>1. Range(e) \ Range(d) = {} /\ Cardinality({}) = 0
        BY <3>1, FS_EmptySet
      <4>2. IsPrefix(d, e) /\ Len(e) = Len(d) + 0
        BY <2>2, <3>1 DEF IsPrefix
      <4> QED BY <4>1, <4>2
    <3>2. CASE e = d \o x.rows
      BY <2>2, <3>2, FileSteps
    <3> QED BY <2>3, <3>1, <3>2
  <2>5. Range(x.rows) \subseteq Pending
    BY <2>1 DEF Pending
  <2>6. Pending' \subseteq Row \ Range(disk')
    <3>1. PICK tk, wk, n, y, cl :
            tk = tasks' /\ wk = worker' /\ n = calls' /\ y = txn' /\ cl = closed'
      OBVIOUS
    <3>2. wk \in [Conns -> Seq(Statement)] /\ y \in Transaction /\ AllInv(tk, wk, n, e, y, cl)
      BY <2>1, <3>1 DEF JournalInv, JournalTypes
    <3>3. {w.row : w \in {s \in UNION {Range(wk[c]) : c \in Conns} : s.op = "insert"}}
            \cup Range(y.rows) \subseteq Row \ RowsIn(e)
      BY <3>2, PendingIsNew
    <3> QED BY <2>1, <3>1, <3>3 DEF Pending, RowsIn, Range
  <2>7. returned \subseteq returned' /\ returned' \subseteq Range(disk')
    BY FileOnlyGrows DEF JournalInv, RowsIn, Range
  <2>8. /\ IsPrefix(disk, disk') /\ Range(disk') \ Range(disk) \subseteq Pending
        /\ Len(disk') = Len(disk) + Cardinality(Range(disk') \ Range(disk))
    BY <2>1, <2>4, <2>5
  <2>9. /\ Log!IsPrefix(disk, disk') = IsPrefix(disk, disk')
        /\ Log!Range(disk) = Range(disk) /\ Log!Range(disk') = Range(disk')
    BY DEF IsPrefix, Log!IsPrefix, Range, Log!Range
  <2>10. Log!Cardinality(Range(disk') \ Range(disk)) = Cardinality(Range(disk') \ Range(disk))
    BY Zenon DEF Cardinality, Log!Cardinality
  <2> QED BY <2>6, <2>7, <2>8, <2>9, <2>10 DEF Log!Next, Log!Written
<1> QED BY <1>1, <1>2, JournalInvHolds, PTL DEF Spec, RowsDurable, Log!Spec

=============================================================================
