--------------------------- MODULE StoreWriterProofs ---------------------------
(*************************************************************************)
(* Every execution of the writers of the research schema keeps           *)
(* WritesWhole, for any tasks, connections, gates, numbers of tries and  *)
(* of faults.                                                            *)
(*                                                                       *)
(* Order: the advisory lock is taken before a row gets its identity, so  *)
(* only the connection that holds it has uncommitted rows, and those are *)
(* newer than every committed one.                                       *)
(*                                                                       *)
(* Wholeness: the gate keeps one task on a connection, but a task that   *)
(* is cancelled twice leaves its last call in the queue of the           *)
(* connection's thread.  Such a call is always followed by the rollback  *)
(* of the same task, so it cannot mix with its successor's transaction;  *)
(* and if it is the commit, it commits the whole write of a task that    *)
(* writes nothing more.                                                  *)
(*************************************************************************)
EXTENDS StoreWriter, SequenceTheorems, FiniteSetTheorems, TLAPS

CallNames == {"begin", "first", "second", "commit"}
Jobs == [task : Tasks, try : 1..Attempts, call : CallNames \cup {"rollback"}]
RowSet == [id : Nat, task : Tasks, try : 1..Attempts]

\* The call a task with n calls left has issued last.
Issued(n) == CASE n = 3 -> "begin" [] n = 2 -> "first" [] n = 1 -> "second" [] n = 0 -> "commit"
\* The rows its transaction holds then, once the call succeeded.
RowsAfter(n) == CASE n = 3 -> 0 [] n = 2 -> 1 [] n = 1 -> 2 [] n = 0 -> 0
\* The rows it holds when the call begins.
RowsBefore(call) == IF call = "second" THEN 1 ELSE IF call = "commit" THEN 2 ELSE 0

TaskRecords ==
  [at : {"idle", "gate", "call", "undo", "done", "failed", "cancelled"},
   form : {"implicit", "begin"}, calls : Seq(CallNames), try : 1..Attempts,
   answer : {"none", "ok", "busy", "error"}, cancelled : BOOLEAN]

StateTypes ==
  /\ task \in [Tasks -> TaskRecords]
  /\ gate \in [Gates -> Tasks \cup {"free"}]
  /\ jobs \in [Connections -> Seq(Jobs)]
  /\ tx \in [Connections -> [open : BOOLEAN, rows : Seq(RowSet)]]
  /\ writer \in Connections \cup {"free"}
  /\ identity \in Nat /\ committed \in Seq(RowSet)
  /\ storeFaults \in 0..MaxStoreFaults

\* Uncommitted rows are under the lock and newer than the committed ones.
OrderInv ==
  /\ \A c \in Connections : tx[c].rows # <<>> => writer = c
  /\ \A i \in 1..Len(committed) : committed[i].id <= identity
  /\ \A i, j \in 1..Len(committed) : i < j => committed[i].id < committed[j].id
  /\ \A c \in Connections : \A i \in 1..Len(tx[c].rows) :
       /\ tx[c].rows[i].id <= identity
       /\ \A j \in 1..Len(committed) : committed[j].id < tx[c].rows[i].id
       /\ \A j \in 1..Len(tx[c].rows) : i < j => tx[c].rows[i].id < tx[c].rows[j].id

\* A task is at a call or a rollback exactly while it holds its gate.
GateInv == \A t \in Tasks : task[t].at \in {"call", "undo"} <=> gate[GateOf(t)] = t

\* What a task at a call has yet to issue.
CallsInv == \A t \in Tasks : task[t].at = "call" =>
  /\ Len(task[t].calls) \in 0..3
  /\ \A i \in 1..Len(task[t].calls) : task[t].calls[i] = Issued(Len(task[t].calls) - i)

\* A call in a thread's queue is its task's only one, and either what that
\* task waits for, last in the queue, or given up and followed by its rollback.
JobInv(c, i) ==
  LET job == jobs[c][i]
      t == job.task
  IN /\ Lane[t] = c /\ task[t].at \notin {"idle", "gate"}
     /\ job.call # "rollback" =>
          /\ \/ /\ i = Len(jobs[c]) /\ task[t].at = "call" /\ task[t].answer = "none"
                /\ job.call = Issued(Len(task[t].calls))
             \/ /\ i < Len(jobs[c]) /\ jobs[c][i + 1].call = "rollback" /\ jobs[c][i + 1].task = t
                /\ \/ task[t].at = "undo" /\ task[t].cancelled
                   \/ task[t].at = "cancelled"
          /\ i > 1 => jobs[c][i - 1].call = "rollback" /\ job.call \in {"begin", "first"}
          /\ \A j \in 1..Len(jobs[c]) :
               jobs[c][j].task = t /\ jobs[c][j].call # "rollback" => i = j
QueueInv == \A c \in Connections : \A i \in 1..Len(jobs[c]) : JobInv(c, i)

\* A task at a call waits for the last of its queue, or has its answer and an
\* empty queue.
WaitInv == \A t \in Tasks : task[t].at = "call" =>
  IF task[t].answer = "none"
  THEN /\ jobs[Lane[t]] # <<>>
       /\ jobs[Lane[t]][Len(jobs[Lane[t]])].task = t
       /\ jobs[Lane[t]][Len(jobs[Lane[t]])].call # "rollback"
  ELSE jobs[Lane[t]] = <<>>

\* An open transaction holds rows of one task: of the call to be run next, or
\* of the task that has the answer to the last one.
TxInv(c) ==
  /\ jobs[c] # <<>> =>
       /\ \A i \in 1..Len(tx[c].rows) : tx[c].rows[i].task = jobs[c][1].task
       /\ jobs[c][1].call # "rollback" => Len(tx[c].rows) = RowsBefore(jobs[c][1].call)
  /\ jobs[c] = <<>> /\ tx[c].rows # <<>> =>
       \E t \in Tasks : Lane[t] = c /\ task[t].at = "call"
  /\ \A t \in Tasks : jobs[c] = <<>> /\ Lane[t] = c /\ task[t].at = "call" =>
       /\ \A i \in 1..Len(tx[c].rows) : tx[c].rows[i].task = t
       /\ task[t].answer = "ok" => Len(tx[c].rows) = RowsAfter(Len(task[t].calls))
RowsInv == \A c \in Connections : TxInv(c)

\* The commit of this task's write may have been run.
PastCommit(t) ==
  \/ task[t].at = "call" /\ task[t].answer = "ok" /\ Len(task[t].calls) = 0
  \/ task[t].at = "undo" /\ task[t].cancelled
  \/ task[t].at \in {"done", "cancelled"}

\* A task has committed nothing, or two rows and no further call.
TaskInv(t) ==
  /\ Cardinality(RowsOf(t)) \in {0, 2}
  /\ RowsOf(t) # {} =>
       /\ PastCommit(t)
       /\ \A i \in 1..Len(jobs[Lane[t]]) :
            jobs[Lane[t]][i].task = t => jobs[Lane[t]][i].call = "rollback"
  /\ \/ task[t].at = "done"
     \/ task[t].at = "call" /\ task[t].answer = "ok" /\ Len(task[t].calls) = 0
     => Cardinality(RowsOf(t)) = 2
CommitInv == \A t \in Tasks : TaskInv(t)

WriterInv ==
  /\ StateTypes
  /\ OrderInv
  /\ GateInv
  /\ CallsInv
  /\ QueueInv
  /\ WaitInv
  /\ RowsInv
  /\ CommitInv

-----------------------------------------------------------------------------
(* Sequences, the calls of a task, and what the state looks like.           *)

LEMMA EmptyOrNot ==
  ASSUME NEW S, NEW q \in Seq(S)
  PROVE  /\ Len(q) \in Nat /\ (q = <<>> <=> Len(q) = 0)
         /\ \A i \in 1..Len(q) : q[i] \in S
OBVIOUS

LEMMA TailOf ==
  ASSUME NEW S, NEW q \in Seq(S), q # <<>>
  PROVE  /\ Len(q) \in Nat /\ Len(q) >= 1 /\ Head(q) = q[1] /\ q[1] \in S
         /\ Tail(q) \in Seq(S) /\ Len(Tail(q)) = Len(q) - 1
         /\ \A i \in 1..Len(Tail(q)) : Tail(q)[i] = q[i + 1]
<1>1. Len(q) \in Nat /\ Len(q) >= 1
  BY EmptyOrNot
<1>2. q[1] \in S /\ Head(q) = q[1]
  BY <1>1, EmptyOrNot
<1> QED
  BY <1>1, <1>2, HeadTailProperties

LEMMA AppendOf ==
  ASSUME NEW S, NEW q \in Seq(S), NEW e \in S
  PROVE  /\ Append(q, e) \in Seq(S) /\ Len(Append(q, e)) = Len(q) + 1
         /\ \A i \in 1..Len(q) : Append(q, e)[i] = q[i]
         /\ Append(q, e)[Len(q) + 1] = e /\ Append(q, e) # <<>>
<1>1. Len(q) \in Nat
  BY EmptyOrNot
<1>2. /\ Append(q, e) \in Seq(S) /\ Len(Append(q, e)) = Len(q) + 1
      /\ \A i \in 1..Len(q) : Append(q, e)[i] = q[i]
      /\ Append(q, e)[Len(q) + 1] = e
  OBVIOUS
<1> QED
  BY <1>1, <1>2

\* The calls of a task in order of what is left after each.
LEMMA IssuedFacts ==
  /\ Issued(3) = "begin" /\ Issued(2) = "first" /\ Issued(1) = "second"
  /\ Issued(0) = "commit"
BY DEF Issued

LEMMA RowsAfterFacts ==
  /\ RowsAfter(3) = 0 /\ RowsAfter(2) = 1 /\ RowsAfter(1) = 2 /\ RowsAfter(0) = 0
BY DEF RowsAfter

LEMMA IssuedIs ==
  ASSUME NEW n \in 0..3
  PROVE  /\ Issued(n) \in CallNames
         /\ Issued(n) = "begin" => n = 3
         /\ Issued(n) = "first" => n = 2
         /\ Issued(n) = "second" => n = 1
         /\ Issued(n) = "commit" => n = 0
<1>1. n = 0 \/ n = 1 \/ n = 2 \/ n = 3
  OBVIOUS
<1> QED
  BY <1>1, IssuedFacts DEF CallNames

\* The next call begins with the rows the last one left.
LEMMA RowsMeet ==
  ASSUME NEW n \in 1..3
  PROVE  RowsBefore(Issued(n - 1)) = RowsAfter(n)
<1>1. n = 1 \/ n = 2 \/ n = 3
  OBVIOUS
<1>2. 3 - 1 = 2 /\ 2 - 1 = 1 /\ 1 - 1 = 0
  OBVIOUS
<1> QED
  BY <1>1, <1>2, IssuedFacts, RowsAfterFacts DEF RowsBefore

\* What a form of write has to call.
LEMMA CallsOf ==
  ASSUME NEW form \in {"implicit", "begin"}
  PROVE  /\ Calls(form) \in Seq(CallNames) /\ Calls(form) # <<>>
         /\ Len(Calls(form)) \in {3, 4}
         /\ \A i \in 1..Len(Calls(form)) : Calls(form)[i] = Issued(Len(Calls(form)) - i)
         /\ Calls(form)[1] \in {"begin", "first"}
<1>1. CASE form = "begin"
  <2>1. Calls(form) = <<"begin", "first", "second", "commit">>
    BY <1>1 DEF Calls
  <2> DEFINE q == <<"begin", "first", "second", "commit">>
  <2>2. q \in Seq(CallNames) /\ Len(q) = 4 /\ q # <<>>
    BY DEF CallNames
  <2>3. q[1] = Issued(3) /\ q[2] = Issued(2) /\ q[3] = Issued(1) /\ q[4] = Issued(0)
    BY IssuedFacts
  <2>4. q[1] = "begin"
    OBVIOUS
  <2> HIDE DEF q
  <2>5. \A i \in 1..4 : q[i] = Issued(4 - i)
    <3> TAKE i \in 1..4
    <3>1. i = 1 \/ i = 2 \/ i = 3 \/ i = 4
      OBVIOUS
    <3>2. 4 - 1 = 3 /\ 4 - 2 = 2 /\ 4 - 3 = 1 /\ 4 - 4 = 0
      OBVIOUS
    <3> QED
      BY <2>3, <3>1, <3>2
  <2>6. Calls(form) = q
    BY <2>1 DEF q
  <2> QED
    BY <2>2, <2>4, <2>5, <2>6
<1>2. CASE form = "implicit"
  <2>1. Calls(form) = <<"first", "second", "commit">>
    BY <1>2 DEF Calls
  <2> DEFINE q == <<"first", "second", "commit">>
  <2>2. q \in Seq(CallNames) /\ Len(q) = 3 /\ q # <<>>
    BY DEF CallNames
  <2>3. q[1] = Issued(2) /\ q[2] = Issued(1) /\ q[3] = Issued(0)
    BY IssuedFacts
  <2>4. q[1] = "first"
    OBVIOUS
  <2> HIDE DEF q
  <2>5. \A i \in 1..3 : q[i] = Issued(3 - i)
    <3> TAKE i \in 1..3
    <3>1. i = 1 \/ i = 2 \/ i = 3
      OBVIOUS
    <3>2. 3 - 1 = 2 /\ 3 - 2 = 1 /\ 3 - 3 = 0
      OBVIOUS
    <3> QED
      BY <2>3, <3>1, <3>2
  <2>6. Calls(form) = q
    BY <2>1 DEF q
  <2> QED
    BY <2>2, <2>4, <2>5, <2>6
<1> QED
  BY <1>1, <1>2

\* After its first call has been issued, a task keeps to that order.
LEMMA NextCall ==
  ASSUME NEW q \in Seq(CallNames), q # <<>>, Len(q) <= 4,
         \A i \in 1..Len(q) : q[i] = Issued(Len(q) - i)
  PROVE  /\ Head(q) = Issued(Len(q) - 1) /\ Head(q) \in CallNames
         /\ Tail(q) \in Seq(CallNames) /\ Len(Tail(q)) = Len(q) - 1
         /\ Len(Tail(q)) \in 0..3
         /\ \A i \in 1..Len(Tail(q)) : Tail(q)[i] = Issued(Len(Tail(q)) - i)
<1>1. /\ Len(q) \in Nat /\ Len(q) >= 1 /\ Head(q) = q[1] /\ q[1] \in CallNames
      /\ Tail(q) \in Seq(CallNames) /\ Len(Tail(q)) = Len(q) - 1
      /\ \A i \in 1..Len(Tail(q)) : Tail(q)[i] = q[i + 1]
  BY TailOf
<1>2. Head(q) = Issued(Len(q) - 1)
  BY <1>1
<1>3. ASSUME NEW i \in 1..Len(Tail(q))
      PROVE  Tail(q)[i] = Issued(Len(Tail(q)) - i)
  <2>1. i + 1 \in 1..Len(q) /\ Len(q) - (i + 1) = Len(Tail(q)) - i
    BY <1>1
  <2> QED
    BY <1>1, <2>1
<1> QED
  BY <1>1, <1>2, <1>3

LEMMA PlacesAre ==
  ASSUME StoreAssumption, NEW t \in Tasks
  PROVE  Lane[t] \in Connections /\ GateOf(t) \in Gates
BY DEF Connections, Gates, GateOf

LEMMA TaskIs ==
  ASSUME WriterInv, NEW t \in Tasks
  PROVE  /\ task \in [Tasks -> TaskRecords]
         /\ task[t].at \in {"idle", "gate", "call", "undo", "done", "failed", "cancelled"}
         /\ task[t].form \in {"implicit", "begin"} /\ task[t].calls \in Seq(CallNames)
         /\ task[t].try \in 1..Attempts /\ task[t].cancelled \in BOOLEAN
         /\ task[t].answer \in {"none", "ok", "busy", "error"}
         /\ task[t] = [at |-> task[t].at, form |-> task[t].form, calls |-> task[t].calls,
                       try |-> task[t].try, answer |-> task[t].answer,
                       cancelled |-> task[t].cancelled]
<1>1. task \in [Tasks -> TaskRecords] /\ task[t] \in TaskRecords
  BY DEF WriterInv, StateTypes
<1> QED
  BY <1>1 DEF TaskRecords

\* One task at a time is at a call or a rollback of a gate.
LEMMA OneHolder ==
  ASSUME WriterInv, NEW t \in Tasks, NEW u \in Tasks, GateOf(t) = GateOf(u),
         task[t].at \in {"call", "undo"}, task[u].at \in {"call", "undo"}
  PROVE  t = u
BY DEF WriterInv, GateInv

-----------------------------------------------------------------------------
(* What a run of the thread of connection c does to the rows: it keeps      *)
(* them, drops them, adds one, or commits them.                             *)

RowState == <<tx, writer, identity, committed>>
RowTypes ==
  /\ tx \in [Connections -> [open : BOOLEAN, rows : Seq(RowSet)]]
  /\ writer \in Connections \cup {"free"}
  /\ identity \in Nat /\ committed \in Seq(RowSet)

Keeps(c) ==
  /\ writer \in {c, "free"} /\ writer' = c
  /\ \E open \in BOOLEAN : tx' = [tx EXCEPT ![c] = [open |-> open, rows |-> tx[c].rows]]
  /\ identity' = identity /\ committed' = committed
Drops(c) ==
  /\ RolledBack(c)
  /\ identity' = identity /\ committed' = committed
NewRow(job) == [id |-> identity + 1, task |-> job.task, try |-> job.try]
Adds(c, row) ==
  /\ writer \in {c, "free"} /\ writer' = c
  /\ tx' = [tx EXCEPT ![c] = [open |-> TRUE, rows |-> Append(tx[c].rows, row)]]
  /\ identity' = identity + 1 /\ committed' = committed
Commits(c) ==
  /\ RolledBack(c)
  /\ identity' = identity /\ committed' = committed \o tx[c].rows

LEMMA TxIs ==
  ASSUME RowTypes, NEW c \in Connections
  PROVE  /\ tx[c].open \in BOOLEAN /\ tx[c].rows \in Seq(RowSet) /\ Len(tx[c].rows) \in Nat
         /\ tx[c].rows = <<>> <=> Len(tx[c].rows) = 0
         /\ \A i \in 1..Len(tx[c].rows) : tx[c].rows[i] \in RowSet
         /\ tx \in [Connections -> [open : BOOLEAN, rows : Seq(RowSet)]]
<1>1. tx[c] \in [open : BOOLEAN, rows : Seq(RowSet)]
  BY DEF RowTypes
<1>2. tx[c].rows \in Seq(RowSet) /\ tx[c].open \in BOOLEAN
  BY <1>1
<1> QED
  BY <1>2, EmptyOrNot DEF RowTypes

\* The lock excludes the rows of other connections.
LEMMA OthersEmpty ==
  ASSUME OrderInv, NEW c \in Connections, writer \in {c, "free"}, StoreAssumption
  PROVE  \A d \in Connections : d # c => tx[d].rows = <<>>
<1>1. \A d \in Connections : d # "free"
  BY DEF StoreAssumption, Connections
<1> QED
  BY <1>1 DEF OrderInv

LEMMA KeepsOrder ==
  ASSUME StoreAssumption, RowTypes, OrderInv, NEW c \in Connections, Keeps(c)
  PROVE  /\ RowTypes' /\ OrderInv'
         /\ tx'[c].rows = tx[c].rows
         /\ \A d \in Connections : d # c => tx'[d] = tx[d]
<1>1. PICK open \in BOOLEAN : tx' = [tx EXCEPT ![c] = [open |-> open, rows |-> tx[c].rows]]
  BY DEF Keeps
<1>2. /\ tx \in [Connections -> [open : BOOLEAN, rows : Seq(RowSet)]]
      /\ tx[c].rows \in Seq(RowSet)
  BY TxIs
<1>3. tx' \in [Connections -> [open : BOOLEAN, rows : Seq(RowSet)]]
  BY <1>1, <1>2
<1>4. \A d \in Connections : tx'[d].rows = tx[d].rows
  BY <1>1, <1>2
<1>5. writer \in {c, "free"} /\ writer' = c /\ identity' = identity /\ committed' = committed
  BY DEF Keeps
<1>6. RowTypes'
  BY <1>3, <1>5 DEF RowTypes
<1>7. \A d \in Connections : tx'[d].rows # <<>> => writer' = d
  BY <1>4, <1>5, OthersEmpty
<1>8. OrderInv'
  BY <1>4, <1>5, <1>7 DEF OrderInv
<1> QED
  BY <1>1, <1>2, <1>6, <1>8

LEMMA DropsOrder ==
  ASSUME StoreAssumption, RowTypes, OrderInv, NEW c \in Connections, Drops(c)
  PROVE  /\ RowTypes' /\ OrderInv'
         /\ tx'[c].rows = <<>>
         /\ \A d \in Connections : d # c => tx'[d] = tx[d]
<1>1. /\ tx' = [tx EXCEPT ![c] = [open |-> FALSE, rows |-> <<>>]]
      /\ writer' = IF writer = c THEN "free" ELSE writer
      /\ identity' = identity /\ committed' = committed
  BY DEF Drops, RolledBack, Released, Closed
<1>2. /\ tx \in [Connections -> [open : BOOLEAN, rows : Seq(RowSet)]]
      /\ <<>> \in Seq(RowSet) /\ Len(<<>>) = 0
  BY TxIs, EmptySeq
<1>3. tx' \in [Connections -> [open : BOOLEAN, rows : Seq(RowSet)]]
  BY <1>1, <1>2
<1>4. /\ tx'[c].rows = <<>>
      /\ \A d \in Connections : d # c => tx'[d] = tx[d]
  BY <1>1, <1>2
<1>5. RowTypes'
  BY <1>1, <1>3 DEF RowTypes
<1>6. \A d \in Connections : tx'[d].rows # <<>> => writer' = d
  BY <1>1, <1>4 DEF OrderInv
<1>7. ASSUME NEW d \in Connections, NEW i \in 1..Len(tx'[d].rows)
      PROVE  /\ tx'[d].rows[i].id <= identity
             /\ \A j \in 1..Len(committed) : committed[j].id < tx'[d].rows[i].id
             /\ \A j \in 1..Len(tx'[d].rows) : i < j => tx'[d].rows[i].id < tx'[d].rows[j].id
  <2>1. CASE d = c
    BY <2>1, <1>2, <1>4, <1>7
  <2>2. CASE d # c
    <3>1. tx'[d].rows = tx[d].rows
      BY <2>2, <1>4
    <3> QED
      BY <3>1, <1>7 DEF OrderInv
  <2> QED
    BY <2>1, <2>2
<1>8. OrderInv'
  BY <1>1, <1>6, <1>7 DEF OrderInv
<1> QED
  BY <1>4, <1>5, <1>8

LEMMA AddsOrder ==
  ASSUME StoreAssumption, RowTypes, OrderInv, NEW c \in Connections,
         NEW row \in RowSet, row.id = identity + 1, Adds(c, row)
  PROVE  /\ RowTypes' /\ OrderInv'
         /\ tx'[c].rows = Append(tx[c].rows, row)
         /\ \A d \in Connections : d # c => tx'[d] = tx[d]
<1>1. /\ tx' = [tx EXCEPT ![c] = [open |-> TRUE, rows |-> Append(tx[c].rows, row)]]
      /\ writer \in {c, "free"} /\ writer' = c
      /\ identity' = identity + 1 /\ committed' = committed
  BY DEF Adds
<1>2. /\ tx \in [Connections -> [open : BOOLEAN, rows : Seq(RowSet)]]
      /\ tx[c].rows \in Seq(RowSet) /\ Len(tx[c].rows) \in Nat
      /\ identity \in Nat /\ committed \in Seq(RowSet)
  BY TxIs DEF RowTypes
<1> DEFINE old == tx[c].rows
           new == Append(old, row)
<1>3. /\ new \in Seq(RowSet) /\ Len(new) = Len(old) + 1
      /\ \A i \in 1..Len(old) : new[i] = old[i]
      /\ new[Len(old) + 1] = row
  <2> HIDE DEF old
  <2>1. old \in Seq(RowSet)
    BY <1>2 DEF old
  <2> QED
    BY <2>1, AppendOf
<1>4. tx'[c].rows = new /\ \A d \in Connections : d # c => tx'[d] = tx[d]
  BY <1>1, <1>2
<1>5. tx' \in [Connections -> [open : BOOLEAN, rows : Seq(RowSet)]]
  <2> HIDE DEF new
  <2>1. tx' = [tx EXCEPT ![c] = [open |-> TRUE, rows |-> new]]
    BY <1>1 DEF new
  <2> QED
    BY <1>2, <1>3, <2>1
<1>6. RowTypes'
  BY <1>1, <1>2, <1>5 DEF RowTypes
<1>7. \A d \in Connections : d # c => tx'[d].rows = <<>>
  BY <1>1, <1>4, OthersEmpty
<1>8. \A i \in 1..Len(committed) : committed[i] \in RowSet /\ committed[i].id <= identity
  BY <1>2, EmptyOrNot DEF OrderInv
<1>9. \A i \in 1..Len(old) :
        /\ old[i] \in RowSet /\ old[i].id <= identity
        /\ \A j \in 1..Len(committed) : committed[j].id < old[i].id
        /\ \A j \in 1..Len(old) : i < j => old[i].id < old[j].id
  BY <1>2, EmptyOrNot DEF OrderInv
<1>10. \A e \in RowSet : e.id \in Nat
  BY DEF RowSet
<1> HIDE DEF new, old
<1>11. ASSUME NEW i \in 1..Len(new)
       PROVE  /\ new[i].id <= identity + 1
              /\ \A j \in 1..Len(committed) : committed[j].id < new[i].id
              /\ \A j \in 1..Len(new) : i < j => new[i].id < new[j].id
  <2>0. Len(old) \in Nat
    BY <1>2 DEF old
  <2>1. CASE i = Len(old) + 1
    <3>1. new[i].id = identity + 1
      BY <2>1, <1>3
    <3>2. \A j \in 1..Len(new) : ~(i < j)
      BY <2>0, <2>1, <1>3
    <3>3. \A j \in 1..Len(committed) : committed[j].id < identity + 1
      BY <1>2, <1>8, <1>10
    <3> QED
      BY <3>1, <3>2, <3>3, <1>2
  <2>2. CASE i \in 1..Len(old)
    <3>1. new[i] = old[i] /\ old[i].id \in Nat /\ old[i].id <= identity
      BY <2>2, <1>3, <1>9, <1>10
    <3>2. \A j \in 1..Len(committed) : committed[j].id < new[i].id
      BY <2>2, <3>1, <1>9
    <3>3. \A j \in 1..Len(new) : i < j => new[i].id < new[j].id
      <4> SUFFICES ASSUME NEW j \in 1..Len(new), i < j
                   PROVE  new[i].id < new[j].id
        OBVIOUS
      <4>1. CASE j = Len(old) + 1
        BY <4>1, <3>1, <1>2, <1>3
      <4>2. CASE j \in 1..Len(old)
        BY <4>2, <2>2, <3>1, <1>3, <1>9
      <4> QED
        BY <4>1, <4>2, <2>0, <1>3
    <3>4. new[i].id <= identity + 1
      BY <3>1, <1>2
    <3> QED
      BY <3>2, <3>3, <3>4
  <2> QED
    BY <2>0, <2>1, <2>2, <1>3
<1>12. \A i \in 1..Len(committed) : committed[i].id <= identity + 1
  BY <1>2, <1>8, <1>10
<1>13. OrderInv'
  <2>1. \A d \in Connections : tx'[d].rows # <<>> => writer' = d
    BY <1>1, <1>7
  <2>2. \A i, j \in 1..Len(committed) : i < j => committed[i].id < committed[j].id
    BY DEF OrderInv
  <2>3. ASSUME NEW d \in Connections, NEW i \in 1..Len(tx'[d].rows)
        PROVE  /\ tx'[d].rows[i].id <= identity'
               /\ \A j \in 1..Len(committed) : committed[j].id < tx'[d].rows[i].id
               /\ \A j \in 1..Len(tx'[d].rows) : i < j => tx'[d].rows[i].id < tx'[d].rows[j].id
    <3>1. CASE d = c
      BY <3>1, <2>3, <1>1, <1>4, <1>11
    <3>2. CASE d # c
      <4>1. Len(tx'[d].rows) = 0
        BY <3>2, <1>7, EmptySeq
      <4> QED
        BY <4>1, <2>3
    <3> QED
      BY <3>1, <3>2
  <2> QED
    BY <2>1, <2>2, <2>3, <1>1, <1>12 DEF OrderInv
<1> QED
  BY <1>4, <1>6, <1>13 DEF new, old

LEMMA CommitsOrder ==
  ASSUME StoreAssumption, RowTypes, OrderInv, NEW c \in Connections, Commits(c)
  PROVE  /\ RowTypes' /\ OrderInv'
         /\ tx'[c].rows = <<>>
         /\ \A d \in Connections : d # c => tx'[d] = tx[d]
         /\ Range(committed') = Range(committed) \cup {tx[c].rows[i] : i \in 1..Len(tx[c].rows)}
<1>1. /\ tx' = [tx EXCEPT ![c] = [open |-> FALSE, rows |-> <<>>]]
      /\ writer' = IF writer = c THEN "free" ELSE writer
      /\ identity' = identity /\ committed' = committed \o tx[c].rows
  BY DEF Commits, RolledBack, Released, Closed
<1>2. /\ tx \in [Connections -> [open : BOOLEAN, rows : Seq(RowSet)]]
      /\ <<>> \in Seq(RowSet) /\ Len(<<>>) = 0
      /\ tx[c].rows \in Seq(RowSet) /\ Len(tx[c].rows) \in Nat
      /\ committed \in Seq(RowSet) /\ Len(committed) \in Nat /\ identity \in Nat
  BY TxIs, EmptySeq, EmptyOrNot DEF RowTypes
<1>3. tx' \in [Connections -> [open : BOOLEAN, rows : Seq(RowSet)]]
  BY <1>1, <1>2
<1>4. /\ tx'[c].rows = <<>>
      /\ \A d \in Connections : d # c => tx'[d] = tx[d]
  BY <1>1, <1>2
<1> DEFINE new == tx[c].rows
<1>5. /\ committed' \in Seq(RowSet) /\ Len(committed') = Len(committed) + Len(new)
      /\ \A i \in 1..(Len(committed) + Len(new)) : committed'[i] =
           IF i <= Len(committed) THEN committed[i] ELSE new[i - Len(committed)]
  BY <1>1, <1>2, ConcatProperties
<1>6. RowTypes'
  BY <1>1, <1>2, <1>3, <1>5 DEF RowTypes
<1>7. /\ \A i \in 1..Len(new) :
           /\ new[i].id <= identity
           /\ \A j \in 1..Len(committed) : committed[j].id < new[i].id
           /\ \A j \in 1..Len(new) : i < j => new[i].id < new[j].id
      /\ Len(new) \in Nat
  BY <1>2 DEF OrderInv
<1>8. \A i \in 1..Len(committed) :
        /\ committed[i].id <= identity
        /\ \A j \in 1..Len(committed) : i < j => committed[i].id < committed[j].id
  BY DEF OrderInv
<1>9. \A d \in Connections : tx'[d].rows # <<>> => d # c /\ writer = d /\ tx'[d] = tx[d]
  BY <1>4 DEF OrderInv
<1>10. \A d \in Connections : tx'[d].rows # <<>> => new = <<>>
  BY <1>9 DEF OrderInv
<1> HIDE DEF new
<1>11. \A i \in 1..Len(committed') : committed'[i].id <= identity
  <2> SUFFICES ASSUME NEW i \in 1..Len(committed')
               PROVE  committed'[i].id <= identity
    OBVIOUS
  <2>1. CASE i <= Len(committed)
    BY <2>1, <1>2, <1>5, <1>8
  <2>2. CASE i > Len(committed)
    <3>1. i - Len(committed) \in 1..Len(new) /\ committed'[i] = new[i - Len(committed)]
      BY <2>2, <1>2, <1>5, <1>7
    <3> QED
      BY <3>1, <1>7
  <2> QED
    BY <2>1, <2>2, <1>2, <1>5
<1>12. \A i, j \in 1..Len(committed') : i < j => committed'[i].id < committed'[j].id
  <2> SUFFICES ASSUME NEW i \in 1..Len(committed'), NEW j \in 1..Len(committed'), i < j
               PROVE  committed'[i].id < committed'[j].id
    OBVIOUS
  <2>0. i \in Nat /\ j \in Nat /\ i <= Len(committed) + Len(new) /\ j <= Len(committed) + Len(new)
    BY <1>2, <1>5, <1>7
  <2>1. CASE j <= Len(committed)
    <3>1. i \in 1..Len(committed) /\ j \in 1..Len(committed)
      BY <2>0, <2>1, <1>2
    <3>2. committed'[i] = committed[i] /\ committed'[j] = committed[j]
      BY <3>1, <2>0, <1>5
    <3> QED
      BY <3>1, <3>2, <1>8
  <2>2. CASE i <= Len(committed) /\ j > Len(committed)
    <3>1. i \in 1..Len(committed) /\ j - Len(committed) \in 1..Len(new)
      BY <2>0, <2>2, <1>2, <1>7
    <3>2. committed'[i] = committed[i] /\ committed'[j] = new[j - Len(committed)]
      BY <2>0, <2>2, <1>2, <1>5
    <3> QED
      BY <3>1, <3>2, <1>7
  <2>3. CASE i > Len(committed)
    <3>1. /\ i - Len(committed) \in 1..Len(new) /\ j - Len(committed) \in 1..Len(new)
          /\ i - Len(committed) < j - Len(committed)
      BY <2>0, <2>3, <1>2, <1>7
    <3>2. committed'[i] = new[i - Len(committed)] /\ committed'[j] = new[j - Len(committed)]
      BY <2>0, <2>3, <1>2, <1>5
    <3> QED
      BY <3>1, <3>2, <1>7
  <2> QED
    BY <2>0, <2>1, <2>2, <2>3, <1>2
<1>13. ASSUME NEW d \in Connections, NEW i \in 1..Len(tx'[d].rows)
       PROVE  /\ tx'[d].rows[i].id <= identity
              /\ \A j \in 1..Len(committed') : committed'[j].id < tx'[d].rows[i].id
              /\ \A j \in 1..Len(tx'[d].rows) : i < j => tx'[d].rows[i].id < tx'[d].rows[j].id
  <2>1. tx'[d].rows # <<>>
    BY <1>2, <1>13
  <2>2. tx'[d].rows = tx[d].rows /\ new = <<>>
    BY <2>1, <1>9, <1>10
  <2>3. Len(committed') = Len(committed)
    BY <2>2, <1>2, <1>5
  <2>4. \A j \in 1..Len(committed) : committed'[j] = committed[j]
    BY <2>3, <1>2, <1>5
  <2>5. /\ tx[d].rows[i].id <= identity
        /\ \A j \in 1..Len(committed) : committed[j].id < tx[d].rows[i].id
        /\ \A j \in 1..Len(tx[d].rows) : i < j => tx[d].rows[i].id < tx[d].rows[j].id
    BY <2>2, <1>13 DEF OrderInv
  <2> QED
    BY <2>2, <2>3, <2>4, <2>5
<1>14. OrderInv'
  <2>1. \A d \in Connections : tx'[d].rows # <<>> => writer' = d
    BY <1>1, <1>9
  <2> QED
    BY <2>1, <1>1, <1>11, <1>12, <1>13 DEF OrderInv
<1>15. Range(committed') = Range(committed) \cup {new[i] : i \in 1..Len(new)}
  <2>1. DOMAIN committed' = 1..(Len(committed) + Len(new)) /\ DOMAIN committed = 1..Len(committed)
    BY <1>2, <1>5
  <2>2. ASSUME NEW i \in DOMAIN committed'
        PROVE  committed'[i] \in Range(committed) \cup {new[k] : k \in 1..Len(new)}
    <3>1. CASE i <= Len(committed)
      BY <3>1, <2>1, <2>2, <1>2, <1>5 DEF Range
    <3>2. CASE i > Len(committed)
      <4>1. i - Len(committed) \in 1..Len(new) /\ committed'[i] = new[i - Len(committed)]
        BY <3>2, <2>1, <2>2, <1>2, <1>5, <1>7
      <4> QED
        BY <4>1
    <3> QED
      BY <3>1, <3>2, <2>1, <2>2, <1>2
  <2>3. ASSUME NEW i \in DOMAIN committed
        PROVE  committed[i] \in Range(committed')
    <3>1. i \in DOMAIN committed' /\ committed'[i] = committed[i]
      BY <2>1, <2>3, <1>2, <1>5, <1>7
    <3> QED
      BY <3>1 DEF Range
  <2>4. ASSUME NEW k \in 1..Len(new)
        PROVE  new[k] \in Range(committed')
    <3>1. k + Len(committed) \in DOMAIN committed' /\ ~(k + Len(committed) <= Len(committed))
          /\ (k + Len(committed)) - Len(committed) = k
      BY <2>1, <2>4, <1>2, <1>7
    <3>2. committed'[k + Len(committed)] = new[k]
      BY <3>1, <2>1, <1>5
    <3> QED
      BY <3>1, <3>2 DEF Range
  <2>5. Range(committed') \subseteq Range(committed) \cup {new[i] : i \in 1..Len(new)}
    BY <2>2 DEF Range
  <2>6. Range(committed) \subseteq Range(committed')
    BY <2>3 DEF Range
  <2>7. {new[i] : i \in 1..Len(new)} \subseteq Range(committed')
    BY <2>4
  <2> QED
    BY <2>5, <2>6, <2>7
<1> QED
  BY <1>4, <1>6, <1>14, <1>15 DEF new

-----------------------------------------------------------------------------
(* What a run of the thread does to the tasks and the queues: the call at   *)
(* the head is done, and its task has the answer if it still waits.         *)

Ran(c, answer) ==
  jobs[c] # <<>> /\ Answered(Head(jobs[c]), answer) /\ Done(c) /\ gate' = gate

LEMMA QueueIs ==
  ASSUME WriterInv, NEW c \in Connections
  PROVE  /\ jobs \in [Connections -> Seq(Jobs)] /\ jobs[c] \in Seq(Jobs) /\ Len(jobs[c]) \in Nat
         /\ jobs[c] = <<>> <=> Len(jobs[c]) = 0
         /\ \A i \in 1..Len(jobs[c]) :
              /\ jobs[c][i] \in Jobs /\ jobs[c][i].task \in Tasks
              /\ jobs[c][i].call \in CallNames \cup {"rollback"}
<1>1. jobs \in [Connections -> Seq(Jobs)]
  BY DEF WriterInv, StateTypes
<1>2. jobs[c] \in Seq(Jobs)
  BY <1>1
<1>3. \A i \in 1..Len(jobs[c]) : jobs[c][i] \in Jobs
  BY <1>2, EmptyOrNot
<1>4. \A job \in Jobs : job.task \in Tasks /\ job.call \in CallNames \cup {"rollback"}
  BY DEF Jobs
<1> QED
  BY <1>1, <1>2, <1>3, <1>4, EmptyOrNot

\* The three kinds of job at the head of a queue.
LEMMA HeadIs ==
  ASSUME WriterInv, NEW c \in Connections, jobs[c] # <<>>
  PROVE  /\ Head(jobs[c]) = jobs[c][1] /\ jobs[c][1] \in Jobs /\ jobs[c][1].task \in Tasks
         /\ Len(jobs[c]) >= 1 /\ Len(jobs[c]) \in Nat
         /\ Lane[jobs[c][1].task] = c
         /\ jobs[c][1].call # "rollback" =>
              \/ /\ Len(jobs[c]) = 1 /\ task[jobs[c][1].task].at = "call"
                 /\ task[jobs[c][1].task].answer = "none"
                 /\ jobs[c][1].call = Issued(Len(task[jobs[c][1].task].calls))
              \/ /\ Len(jobs[c]) > 1
                 /\ jobs[c][2].call = "rollback" /\ jobs[c][2].task = jobs[c][1].task
                 /\ \/ task[jobs[c][1].task].at = "undo" /\ task[jobs[c][1].task].cancelled
                    \/ task[jobs[c][1].task].at = "cancelled"
         /\ jobs[c][1].call # "rollback" => \A j \in 1..Len(jobs[c]) :
              jobs[c][j].task = jobs[c][1].task /\ jobs[c][j].call # "rollback" => j = 1
<1>1. /\ Len(jobs[c]) \in Nat /\ Len(jobs[c]) >= 1 /\ Head(jobs[c]) = jobs[c][1]
      /\ jobs[c][1] \in Jobs /\ jobs[c][1].task \in Tasks /\ 1 \in 1..Len(jobs[c])
  <2>1. jobs[c] \in Seq(Jobs)
    BY QueueIs
  <2>2. Len(jobs[c]) \in Nat /\ Len(jobs[c]) >= 1 /\ Head(jobs[c]) = jobs[c][1]
    BY <2>1, TailOf
  <2>3. 1 \in 1..Len(jobs[c])
    BY <2>2
  <2> QED
    BY <2>2, <2>3, QueueIs
<1>2. /\ Lane[jobs[c][1].task] = c
      /\ jobs[c][1].call # "rollback" =>
           /\ \/ /\ 1 = Len(jobs[c]) /\ task[jobs[c][1].task].at = "call"
                 /\ task[jobs[c][1].task].answer = "none"
                 /\ jobs[c][1].call = Issued(Len(task[jobs[c][1].task].calls))
              \/ /\ 1 < Len(jobs[c]) /\ jobs[c][1 + 1].call = "rollback"
                 /\ jobs[c][1 + 1].task = jobs[c][1].task
                 /\ \/ task[jobs[c][1].task].at = "undo" /\ task[jobs[c][1].task].cancelled
                    \/ task[jobs[c][1].task].at = "cancelled"
           /\ \A j \in 1..Len(jobs[c]) :
                jobs[c][j].task = jobs[c][1].task /\ jobs[c][j].call # "rollback" => 1 = j
  <2>1. JobInv(c, 1)
    BY <1>1 DEF WriterInv, QueueInv
  <2> QED
    BY <2>1 DEF JobInv
<1>3. 1 + 1 = 2
  OBVIOUS
<1> QED
  BY <1>1, <1>2, <1>3

LEMMA RanIs ==
  ASSUME StoreAssumption, WriterInv, NEW c \in Connections,
         NEW answer \in {"ok", "busy", "error"}, Ran(c, answer)
  PROVE  /\ jobs' \in [Connections -> Seq(Jobs)]
         /\ Len(jobs'[c]) = Len(jobs[c]) - 1
         /\ \A i \in 1..Len(jobs'[c]) : jobs'[c][i] = jobs[c][i + 1]
         /\ \A d \in Connections : d # c => jobs'[d] = jobs[d]
         /\ jobs'[c] = <<>> <=> Len(jobs[c]) = 1
         /\ task' \in [Tasks -> TaskRecords]
         /\ \A u \in Tasks :
              /\ task'[u].at = task[u].at /\ task'[u].calls = task[u].calls
              /\ task'[u].cancelled = task[u].cancelled
              /\ u # jobs[c][1].task => task'[u] = task[u]
         /\ jobs[c][1].call = "rollback" => task' = task
         /\ task[jobs[c][1].task].at # "call" => task' = task
         /\ task[jobs[c][1].task].at = "call" /\ jobs[c][1].call # "rollback" =>
              task'[jobs[c][1].task].answer = answer
<1> DEFINE job == jobs[c][1]
<1>1. jobs[c] # <<>> /\ Answered(job, answer) /\ jobs' = [jobs EXCEPT ![c] = Tail(jobs[c])]
  BY HeadIs DEF Ran, Done
<1>2. jobs \in [Connections -> Seq(Jobs)] /\ jobs[c] \in Seq(Jobs)
  BY QueueIs
<1>3. /\ Tail(jobs[c]) \in Seq(Jobs) /\ Len(Tail(jobs[c])) = Len(jobs[c]) - 1
      /\ \A i \in 1..Len(Tail(jobs[c])) : Tail(jobs[c])[i] = jobs[c][i + 1]
      /\ Len(jobs[c]) \in Nat /\ Len(jobs[c]) >= 1
  BY <1>1, <1>2, TailOf
<1>4. /\ jobs'[c] = Tail(jobs[c]) /\ \A d \in Connections : d # c => jobs'[d] = jobs[d]
      /\ jobs' \in [Connections -> Seq(Jobs)]
  BY <1>1, <1>2, <1>3
<1>5. jobs'[c] = <<>> <=> Len(jobs[c]) = 1
  <2>1. jobs'[c] = <<>> <=> Len(jobs'[c]) = 0
    BY <1>3, <1>4, EmptyOrNot
  <2> QED
    BY <2>1, <1>3, <1>4
<1>6. job.task \in Tasks /\ task \in [Tasks -> TaskRecords] /\ answer \in {"none", "ok", "busy", "error"}
  BY <1>1, HeadIs DEF WriterInv, StateTypes
<1>7. CASE task[job.task].at = "call" /\ job.call # "rollback"
  <2>1. task' = [task EXCEPT ![job.task] = [@ EXCEPT !.answer = answer]]
    BY <1>1, <1>7 DEF Answered
  <2>2. task[job.task] \in TaskRecords
    BY <1>6
  <2>3. [task[job.task] EXCEPT !.answer = answer] \in TaskRecords
    BY <1>6, <2>2 DEF TaskRecords
  <2>4. /\ [task[job.task] EXCEPT !.answer = answer].at = task[job.task].at
        /\ [task[job.task] EXCEPT !.answer = answer].calls = task[job.task].calls
        /\ [task[job.task] EXCEPT !.answer = answer].cancelled = task[job.task].cancelled
        /\ [task[job.task] EXCEPT !.answer = answer].answer = answer
    BY <2>2 DEF TaskRecords
  <2>5. /\ task' \in [Tasks -> TaskRecords]
        /\ task'[job.task] = [task[job.task] EXCEPT !.answer = answer]
        /\ \A u \in Tasks : u # job.task => task'[u] = task[u]
    BY <1>6, <2>1, <2>3
  <2> QED
    BY <1>3, <1>4, <1>5, <1>7, <2>4, <2>5
<1>8. CASE ~(task[job.task].at = "call" /\ job.call # "rollback")
  <2>1. task' = task
    BY <1>1, <1>8 DEF Answered
  <2> QED
    BY <1>3, <1>4, <1>5, <1>6, <1>8, <2>1
<1> QED
  BY <1>7, <1>8

LEMMA RanControl ==
  ASSUME StoreAssumption, WriterInv, NEW c \in Connections,
         NEW answer \in {"ok", "busy", "error"}, Ran(c, answer)
  PROVE  GateInv' /\ CallsInv' /\ QueueInv' /\ WaitInv'
<1> DEFINE job == jobs[c][1]
           t == job.task
           n == Len(jobs[c])
<1>1. jobs[c] # <<>> /\ gate' = gate
  BY DEF Ran
<1>2. /\ t \in Tasks /\ Lane[t] = c /\ n \in Nat /\ n >= 1
      /\ job.call # "rollback" =>
           \/ n = 1 /\ task[t].at = "call" /\ task[t].answer = "none"
           \/ n > 1 /\ task[t].at # "call"
      /\ job.call # "rollback" => \A j \in 1..n :
           jobs[c][j].task = t /\ jobs[c][j].call # "rollback" => j = 1
  BY <1>1, HeadIs
<1>3. /\ Len(jobs'[c]) = n - 1
      /\ \A i \in 1..Len(jobs'[c]) : jobs'[c][i] = jobs[c][i + 1]
      /\ \A d \in Connections : d # c => jobs'[d] = jobs[d]
      /\ jobs'[c] = <<>> <=> n = 1
      /\ \A u \in Tasks :
           /\ task'[u].at = task[u].at /\ task'[u].calls = task[u].calls
           /\ task'[u].cancelled = task[u].cancelled
           /\ u # t => task'[u] = task[u]
      /\ job.call = "rollback" => task' = task
      /\ task[t].at # "call" => task' = task
      /\ task[t].at = "call" /\ job.call # "rollback" => task'[t].answer = answer
  BY RanIs
<1>4. \A d \in Connections : \A i \in 1..Len(jobs[d]) :
        /\ jobs[d][i].task \in Tasks
        /\ Lane[jobs[d][i].task] = d /\ task[jobs[d][i].task].at \notin {"idle", "gate"}
        /\ jobs[d][i].call # "rollback" =>
             /\ \/ /\ i = Len(jobs[d]) /\ task[jobs[d][i].task].at = "call"
                   /\ task[jobs[d][i].task].answer = "none"
                   /\ jobs[d][i].call = Issued(Len(task[jobs[d][i].task].calls))
                \/ /\ i < Len(jobs[d]) /\ jobs[d][i + 1].call = "rollback"
                   /\ jobs[d][i + 1].task = jobs[d][i].task
                   /\ \/ task[jobs[d][i].task].at = "undo" /\ task[jobs[d][i].task].cancelled
                      \/ task[jobs[d][i].task].at = "cancelled"
             /\ i > 1 => jobs[d][i - 1].call = "rollback" /\ jobs[d][i].call \in {"begin", "first"}
             /\ \A j \in 1..Len(jobs[d]) :
                  jobs[d][j].task = jobs[d][i].task /\ jobs[d][j].call # "rollback" => i = j
  <2> SUFFICES ASSUME NEW d \in Connections, NEW i \in 1..Len(jobs[d])
               PROVE  JobInv(d, i) /\ jobs[d][i].task \in Tasks
    BY DEF JobInv
  <2> QED
    BY QueueIs DEF WriterInv, QueueInv
<1>5. \A u \in Tasks : task[u].at = "call" =>
        IF task[u].answer = "none"
        THEN /\ jobs[Lane[u]] # <<>>
             /\ jobs[Lane[u]][Len(jobs[Lane[u]])].task = u
             /\ jobs[Lane[u]][Len(jobs[Lane[u]])].call # "rollback"
        ELSE jobs[Lane[u]] = <<>>
  BY DEF WriterInv, WaitInv
<1> HIDE DEF job, t, n
<1>6. GateInv'
  BY <1>1, <1>3 DEF WriterInv, GateInv
<1>7. CallsInv'
  BY <1>3 DEF WriterInv, CallsInv
<1>8. QueueInv'
  <2> SUFFICES ASSUME NEW d \in Connections, NEW i \in 1..Len(jobs'[d])
               PROVE  JobInv(d, i)'
    BY DEF QueueInv
  <2>1. CASE d # c
    <3>1. jobs'[d] = jobs[d]
      BY <2>1, <1>3
    <3>2. jobs[d][i].task # t /\ jobs[d][i].task \in Tasks
      BY <2>1, <3>1, <1>2, <1>4
    <3>3. task'[jobs[d][i].task] = task[jobs[d][i].task]
      BY <3>2, <1>3
    <3>4. JobInv(d, i)
      BY <3>1 DEF WriterInv, QueueInv
    <3> QED
      BY <3>1, <3>3, <3>4 DEF JobInv
  <2>2. CASE d = c
    <3>1. /\ i + 1 \in 1..n /\ i \in Nat /\ i >= 1 /\ i <= n - 1 /\ (i + 1) - 1 = i
          /\ jobs'[c][i] = jobs[c][i + 1] /\ Len(jobs'[c]) = n - 1
      BY <2>2, <1>2, <1>3
    <3> DEFINE k == jobs[c][i + 1]
               u == k.task
    <3>2. /\ u \in Tasks /\ Lane[u] = c /\ task[u].at \notin {"idle", "gate"}
          /\ k.call # "rollback" =>
               /\ \/ /\ i + 1 = n /\ task[u].at = "call" /\ task[u].answer = "none"
                     /\ k.call = Issued(Len(task[u].calls))
                  \/ /\ i + 1 < n /\ jobs[c][(i + 1) + 1].call = "rollback"
                     /\ jobs[c][(i + 1) + 1].task = u
                     /\ \/ task[u].at = "undo" /\ task[u].cancelled
                        \/ task[u].at = "cancelled"
               /\ jobs[c][i].call = "rollback" /\ k.call \in {"begin", "first"}
               /\ \A j \in 1..n :
                    jobs[c][j].task = u /\ jobs[c][j].call # "rollback" => i + 1 = j
      <4>1. i + 1 \in 1..Len(jobs[c]) /\ i + 1 > 1
        BY <3>1 DEF n
      <4> QED
        BY <4>1, <3>1, <1>4 DEF n
    <3> HIDE DEF k, u
    <3>3. k.call # "rollback" => task'[u] = task[u]
      <4>1. SUFFICES ASSUME k.call # "rollback", u = t, task' # task
                     PROVE  FALSE
        BY <3>2, <1>3
      <4>2. job.call # "rollback"
        BY <4>1, <1>3
      <4>3. i + 1 = 1
        BY <4>1, <4>2, <3>1, <1>2 DEF k, u
      <4> QED
        BY <4>3, <3>1
    <3>4. /\ task'[u].at = task[u].at /\ task'[u].cancelled = task[u].cancelled
          /\ task'[u].calls = task[u].calls
      BY <3>2, <1>3
    <3>5. k.call # "rollback" /\ i + 1 < n =>
            i + 1 \in 1..Len(jobs'[c]) /\ jobs'[c][i + 1] = jobs[c][(i + 1) + 1]
      BY <3>1, <1>2, <1>3
    <3>6. k.call # "rollback" /\ i > 1 => jobs'[c][i - 1] = jobs[c][i]
      <4>1. i > 1 => i - 1 \in 1..Len(jobs'[c]) /\ (i - 1) + 1 = i
        BY <3>1, <1>2
      <4> QED
        BY <4>1, <1>3
    <3>7. k.call # "rollback" => \A j \in 1..Len(jobs'[c]) :
            jobs'[c][j].task = u /\ jobs'[c][j].call # "rollback" => i = j
      <4> SUFFICES ASSUME k.call # "rollback", NEW j \in 1..Len(jobs'[c]),
                          jobs'[c][j].task = u, jobs'[c][j].call # "rollback"
                   PROVE  i = j
        OBVIOUS
      <4>1. j + 1 \in 1..n /\ jobs'[c][j] = jobs[c][j + 1] /\ j \in Nat
        BY <3>1, <1>2, <1>3
      <4>2. i + 1 = j + 1
        BY <4>1, <3>2
      <4> QED
        BY <4>1, <4>2, <3>1
    <3>8. i = Len(jobs'[c]) <=> i + 1 = n
      BY <3>1, <1>2
    <3>9. i < Len(jobs'[c]) <=> i + 1 < n
      BY <3>1, <1>2
    <3>10. jobs'[c][i] = k
      BY <3>1 DEF k
    <3>11. k.task = u
      BY DEF u
    <3>12. ASSUME k.call # "rollback"
           PROVE  /\ \/ /\ i = Len(jobs'[c]) /\ task'[u].at = "call" /\ task'[u].answer = "none"
                        /\ k.call = Issued(Len(task'[u].calls))
                     \/ /\ i < Len(jobs'[c]) /\ jobs'[c][i + 1].call = "rollback"
                        /\ jobs'[c][i + 1].task = u
                        /\ \/ task'[u].at = "undo" /\ task'[u].cancelled
                           \/ task'[u].at = "cancelled"
                  /\ i > 1 => jobs'[c][i - 1].call = "rollback" /\ k.call \in {"begin", "first"}
      <4>1. CASE i + 1 = n
        BY <4>1, <3>2, <3>3, <3>6, <3>8, <3>12
      <4>2. CASE i + 1 < n
        BY <4>2, <3>2, <3>3, <3>5, <3>6, <3>9, <3>12
      <4> QED
        BY <4>1, <4>2, <3>1, <1>2
    <3> QED
      BY <2>2, <3>2, <3>4, <3>7, <3>10, <3>11, <3>12 DEF JobInv
  <2> QED
    BY <2>1, <2>2
<1>9. WaitInv'
  <2> SUFFICES ASSUME NEW u \in Tasks, task'[u].at = "call"
               PROVE  IF task'[u].answer = "none"
                      THEN /\ jobs'[Lane[u]] # <<>>
                           /\ jobs'[Lane[u]][Len(jobs'[Lane[u]])].task = u
                           /\ jobs'[Lane[u]][Len(jobs'[Lane[u]])].call # "rollback"
                      ELSE jobs'[Lane[u]] = <<>>
    BY DEF WaitInv
  <2>1. task[u].at = "call" /\ Lane[u] \in Connections
    BY <1>3, PlacesAre
  <2>2. CASE Lane[u] # c
    <3>1. u # t /\ jobs'[Lane[u]] = jobs[Lane[u]]
      BY <2>1, <2>2, <1>2, <1>3
    <3>2. task'[u] = task[u]
      BY <3>1, <1>3
    <3> QED
      BY <2>1, <3>1, <3>2, <1>5
  <2>3. CASE Lane[u] = c
    <3>1. /\ task[u].answer = "none" /\ jobs[c][n].task = u /\ jobs[c][n].call # "rollback"
      BY <2>1, <2>3, <1>1, <1>5 DEF n
    <3>2. CASE n = 1
      <4>1. u = t /\ job.call # "rollback"
        BY <3>1, <3>2 DEF t, job
      <4>2. task'[u].answer = answer /\ answer # "none" /\ jobs'[c] = <<>>
        BY <2>1, <3>2, <4>1, <1>3
      <4> QED
        BY <2>3, <4>2
    <3>3. CASE n > 1
      <4>1. task'[u] = task[u]
        <5>1. SUFFICES ASSUME u = t, task' # task
                       PROVE  FALSE
          BY <1>3
        <5>2. job.call # "rollback" /\ task[t].at = "call"
          BY <5>1, <1>3
        <5> QED
          BY <5>2, <3>3, <1>2
      <4>2. /\ n - 1 \in 1..Len(jobs'[c]) /\ (n - 1) + 1 = n /\ Len(jobs'[c]) = n - 1
        BY <3>3, <1>2, <1>3
      <4>3. jobs'[c][n - 1] = jobs[c][n] /\ jobs'[c] # <<>>
        BY <3>3, <4>2, <1>3
      <4> QED
        BY <2>3, <3>1, <4>1, <4>2, <4>3
    <3> QED
      BY <3>2, <3>3, <1>2
  <2> QED
    BY <2>2, <2>3
<1> QED
  BY <1>6, <1>7, <1>8, <1>9

-----------------------------------------------------------------------------
(* What a run of the thread leaves in the transaction, and what it commits. *)

RowsLeft(call) == IF call = "first" THEN 1 ELSE IF call = "second" THEN 2 ELSE 0

LEMMA RanRows ==
  ASSUME StoreAssumption, WriterInv, NEW c \in Connections,
         NEW answer \in {"ok", "busy", "error"}, Ran(c, answer),
         \A d \in Connections : d # c => tx'[d] = tx[d],
         tx'[c].rows \in Seq(RowSet),
         \A i \in 1..Len(tx'[c].rows) : tx'[c].rows[i].task = jobs[c][1].task,
         jobs[c][1].call = "rollback" => tx'[c].rows = <<>>,
         jobs[c][1].call # "rollback" /\ answer = "ok" =>
           Len(tx'[c].rows) = RowsLeft(jobs[c][1].call)
  PROVE  RowsInv'
<1> DEFINE job == jobs[c][1]
           t == job.task
           n == Len(jobs[c])
<1>0. Len(<<>>) = 0
  BY EmptySeq
<1>1. jobs[c] # <<>>
  BY DEF Ran
<1>2. /\ t \in Tasks /\ Lane[t] = c /\ n \in Nat /\ n >= 1 /\ 1 \in 1..n
      /\ job.call # "rollback" =>
           \/ n = 1 /\ task[t].at = "call" /\ job.call = Issued(Len(task[t].calls))
           \/ n > 1 /\ task[t].at # "call" /\ jobs[c][2].call = "rollback" /\ jobs[c][2].task = t
  BY <1>1, HeadIs
<1>3. /\ Len(jobs'[c]) = n - 1
      /\ \A i \in 1..Len(jobs'[c]) : jobs'[c][i] = jobs[c][i + 1]
      /\ \A d \in Connections : d # c => jobs'[d] = jobs[d]
      /\ jobs'[c] = <<>> <=> n = 1
      /\ \A u \in Tasks :
           /\ task'[u].at = task[u].at /\ task'[u].calls = task[u].calls
           /\ u # t => task'[u] = task[u]
      /\ job.call = "rollback" => task' = task
      /\ task[t].at # "call" => task' = task
      /\ task[t].at = "call" /\ job.call # "rollback" => task'[t].answer = answer
  BY RanIs
<1>4. n > 1 => 2 \in 1..n /\ JobInv(c, 2)
  BY <1>2 DEF WriterInv, QueueInv
<1>5. n > 1 /\ jobs[c][2].call # "rollback" =>
        job.call = "rollback" /\ jobs[c][2].call \in {"begin", "first"}
  <2>1. 2 > 1 /\ 2 - 1 = 1
    OBVIOUS
  <2> QED
    BY <2>1, <1>4 DEF JobInv
<1>6. \A u \in Tasks : Lane[u] = c /\ task[u].at = "call" =>
        task[u].answer = "none" /\ jobs[c][n].task = u /\ jobs[c][n].call # "rollback"
  BY <1>1 DEF WriterInv, WaitInv
<1>7. n = 1 => jobs[c][n] = job
  OBVIOUS
<1>8. Len(task[t].calls) \in 0..3 \/ task[t].at # "call"
  BY <1>2 DEF WriterInv, CallsInv
<1> HIDE DEF job, t, n
<1>9. ASSUME NEW d \in Connections
      PROVE  TxInv(d)'
  <2>1. CASE d # c
    <3>1. TxInv(d) /\ jobs'[d] = jobs[d] /\ tx'[d] = tx[d]
      BY <2>1, <1>3 DEF WriterInv, RowsInv
    <3>2. \A u \in Tasks : Lane[u] = d => task'[u] = task[u]
      BY <2>1, <1>2, <1>3
    <3> QED
      BY <3>1, <3>2 DEF TxInv
  <2>2. CASE d = c /\ n > 1
    <3>1. /\ jobs'[c] # <<>> /\ 1 \in 1..Len(jobs'[c]) /\ 1 + 1 = 2
      BY <2>2, <1>2, <1>3
    <3>2. jobs'[c][1] = jobs[c][2]
      BY <3>1, <1>3
    <3>3. CASE job.call = "rollback"
      <4>1. tx'[c].rows = <<>> /\ Len(tx'[c].rows) = 0
        BY <3>3, <1>0 DEF job
      <4>2. jobs'[c][1].call # "rollback" => RowsBefore(jobs'[c][1].call) = 0
        BY <2>2, <3>2, <1>5 DEF RowsBefore
      <4>3. \A i \in 1..Len(tx'[c].rows) : tx'[c].rows[i].task = jobs'[c][1].task
        BY <4>1
      <4> QED
        BY <2>2, <3>1, <4>1, <4>2, <4>3 DEF TxInv
    <3>4. CASE job.call # "rollback"
      <4>1. jobs'[c][1].call = "rollback" /\ jobs'[c][1].task = t
        BY <2>2, <3>2, <3>4, <1>2
      <4>2. \A i \in 1..Len(tx'[c].rows) : tx'[c].rows[i].task = t
        BY DEF t, job
      <4> QED
        BY <2>2, <3>1, <4>1, <4>2 DEF TxInv
    <3> QED
      BY <3>3, <3>4
  <2>3. CASE d = c /\ n = 1
    <3>1. jobs'[c] = <<>>
      BY <2>3, <1>3
    <3>2. CASE job.call = "rollback"
      <4>1. tx'[c].rows = <<>>
        BY <3>2 DEF job
      <4>2. \A u \in Tasks : ~(Lane[u] = c /\ task'[u].at = "call")
        BY <2>3, <3>2, <1>3, <1>6, <1>7
      <4> QED
        BY <2>3, <3>1, <4>1, <4>2 DEF TxInv
    <3>3. CASE job.call # "rollback"
      <4>1. task'[t].at = "call" /\ job.call = Issued(Len(task[t].calls)) /\ task'[t].answer = answer
        BY <2>3, <3>3, <1>2, <1>3
      <4>2. \A u \in Tasks : Lane[u] = c /\ task'[u].at = "call" => u = t
        BY <2>3, <1>3, <1>6, <1>7 DEF t
      <4>3. \A i \in 1..Len(tx'[c].rows) : tx'[c].rows[i].task = t
        BY DEF t, job
      <4>4. answer = "ok" => Len(tx'[c].rows) = RowsAfter(Len(task'[t].calls))
        <5>1. Len(task[t].calls) \in 0..3 /\ task'[t].calls = task[t].calls
          BY <2>3, <3>3, <1>2, <1>3, <1>8
        <5>2. RowsLeft(Issued(Len(task[t].calls))) = RowsAfter(Len(task[t].calls))
          <6> DEFINE m == Len(task[t].calls)
          <6>1. m = 0 \/ m = 1 \/ m = 2 \/ m = 3
            BY <5>1
          <6> HIDE DEF m
          <6>2. RowsLeft(Issued(m)) = RowsAfter(m)
            BY <6>1, IssuedFacts, RowsAfterFacts DEF RowsLeft
          <6> QED
            BY <6>2 DEF m
        <5>3. answer = "ok" => Len(tx'[c].rows) = RowsLeft(job.call)
          BY <3>3 DEF job
        <5> QED
          BY <4>1, <5>1, <5>2, <5>3
      <4>5. ASSUME NEW u \in Tasks, Lane[u] = c, task'[u].at = "call"
            PROVE  /\ \A i \in 1..Len(tx'[c].rows) : tx'[c].rows[i].task = u
                   /\ task'[u].answer = "ok" => Len(tx'[c].rows) = RowsAfter(Len(task'[u].calls))
        BY <4>1, <4>2, <4>3, <4>4, <4>5
      <4> QED
        BY <2>3, <3>1, <4>1, <4>5, <1>2 DEF TxInv
    <3> QED
      BY <3>2, <3>3
  <2> QED
    BY <2>1, <2>2, <2>3, <1>2
<1> QED
  BY <1>9 DEF RowsInv

\* The rest of a queue holds nothing it did not hold before.
LEMMA RanJobs ==
  ASSUME StoreAssumption, WriterInv, NEW c \in Connections,
         NEW answer \in {"ok", "busy", "error"}, Ran(c, answer), NEW u \in Tasks
  PROVE  \A i \in 1..Len(jobs'[Lane[u]]) : \E k \in 1..Len(jobs[Lane[u]]) :
           jobs'[Lane[u]][i] = jobs[Lane[u]][k] /\ (Lane[u] = c => k = i + 1)
<1>1. Lane[u] \in Connections
  BY PlacesAre
<1>2. /\ Len(jobs'[c]) = Len(jobs[c]) - 1 /\ Len(jobs[c]) \in Nat
      /\ \A i \in 1..Len(jobs'[c]) : jobs'[c][i] = jobs[c][i + 1]
      /\ \A d \in Connections : d # c => jobs'[d] = jobs[d]
  BY RanIs, QueueIs
<1>3. CASE Lane[u] # c
  BY <1>1, <1>2, <1>3
<1>4. CASE Lane[u] = c
  <2> SUFFICES ASSUME NEW i \in 1..Len(jobs'[c])
               PROVE  \E k \in 1..Len(jobs[c]) : jobs'[c][i] = jobs[c][k] /\ k = i + 1
    BY <1>4
  <2>1. i + 1 \in 1..Len(jobs[c])
    BY <1>2
  <2> QED
    BY <2>1, <1>2
<1> QED
  BY <1>3, <1>4

\* Nothing was committed.
LEMMA RanQuiet ==
  ASSUME StoreAssumption, WriterInv, NEW c \in Connections,
         NEW answer \in {"ok", "busy", "error"}, Ran(c, answer),
         committed' = committed, jobs[c][1].call = "commit" => answer # "ok"
  PROVE  CommitInv'
<1> DEFINE job == jobs[c][1]
           t == job.task
<1>1. jobs[c] # <<>>
  BY DEF Ran
<1>2. /\ t \in Tasks
      /\ job.call # "rollback" /\ task[t].at = "call" =>
           task[t].answer = "none" /\ job.call = Issued(Len(task[t].calls))
  BY <1>1, HeadIs
<1>3. /\ \A u \in Tasks :
           /\ task'[u].at = task[u].at /\ task'[u].calls = task[u].calls
           /\ task'[u].cancelled = task[u].cancelled
           /\ u # t => task'[u] = task[u]
      /\ job.call = "rollback" => task' = task
      /\ task[t].at # "call" => task' = task
      /\ task[t].at = "call" /\ job.call # "rollback" => task'[t].answer = answer
  BY RanIs
<1>4. Issued(0) = "commit" /\ (job.call = "commit" => answer # "ok")
  BY IssuedFacts
<1> HIDE DEF job, t
<1>5. ASSUME NEW u \in Tasks
      PROVE  TaskInv(u)'
  <2>1. TaskInv(u) /\ RowsOf(u)' = RowsOf(u)
    BY DEF WriterInv, CommitInv, RowsOf
  <2>2. \A i \in 1..Len(jobs'[Lane[u]]) : \E k \in 1..Len(jobs[Lane[u]]) :
          jobs'[Lane[u]][i] = jobs[Lane[u]][k]
    BY RanJobs
  <2>3. CASE task'[u] = task[u]
    <3>1. PastCommit(u)' <=> PastCommit(u)
      BY <2>3 DEF PastCommit
    <3> QED
      BY <2>1, <2>2, <2>3, <3>1 DEF TaskInv
  <2>4. CASE task'[u] # task[u]
    <3>1. u = t /\ job.call # "rollback" /\ task[t].at = "call"
      BY <2>4, <1>3
    <3>2. task[u].answer = "none" /\ task'[u].at = "call" /\ task'[u].answer = answer
      BY <3>1, <1>2, <1>3
    <3>3. RowsOf(u) = {}
      BY <2>1, <3>1, <3>2 DEF TaskInv, PastCommit
    <3>4. ~(task'[u].answer = "ok" /\ Len(task'[u].calls) = 0)
      BY <3>1, <3>2, <1>2, <1>3, <1>4
    <3> QED
      BY <2>1, <3>2, <3>3, <3>4 DEF TaskInv
  <2> QED
    BY <2>3, <2>4
<1> QED
  BY <1>5 DEF CommitInv

LEMMA TwoRows ==
  ASSUME NEW a, NEW b, a # b
  PROVE  Cardinality({a, b}) = 2
<1>1. IsFiniteSet({a}) /\ Cardinality({a}) = 1
  BY FS_Singleton
<1>2. {a, b} = {a} \cup {b} /\ b \notin {a}
  OBVIOUS
<1>3. Cardinality({a} \cup {b}) = Cardinality({a}) + 1
  BY <1>1, <1>2, FS_AddElement
<1> QED
  BY <1>1, <1>2, <1>3

\* The head's commit: two rows of its task, which had none.
LEMMA RanCommit ==
  ASSUME StoreAssumption, WriterInv, NEW c \in Connections, Ran(c, "ok"),
         jobs[c][1].call = "commit", NEW t \in Tasks, t = jobs[c][1].task,
         Range(committed') = Range(committed) \cup {tx[c].rows[i] : i \in 1..Len(tx[c].rows)}
  PROVE  CommitInv'
<1> DEFINE job == jobs[c][1]
           rows == tx[c].rows
<1>1. jobs[c] # <<>> /\ job.call = "commit" /\ job.call # "rollback"
  BY DEF Ran
<1>2. /\ t \in Tasks /\ Lane[t] = c /\ Len(jobs[c]) \in Nat /\ Len(jobs[c]) >= 1
      /\ \/ /\ task[t].at = "call" /\ task[t].answer = "none"
            /\ job.call = Issued(Len(task[t].calls))
         \/ task[t].at = "undo" /\ task[t].cancelled
         \/ task[t].at = "cancelled"
      /\ \A j \in 1..Len(jobs[c]) : jobs[c][j].task = t /\ jobs[c][j].call # "rollback" => j = 1
  BY <1>1, HeadIs
<1>3. /\ \A u \in Tasks :
           /\ task'[u].at = task[u].at /\ task'[u].calls = task[u].calls
           /\ task'[u].cancelled = task[u].cancelled
           /\ u # t => task'[u] = task[u]
      /\ task[t].at # "call" => task' = task
      /\ task[t].at = "call" => task'[t].answer = "ok"
  BY <1>1, RanIs
<1>4. TxInv(c)
  BY DEF WriterInv, RowsInv
<1>5. RowsBefore("commit") = 2
  BY DEF RowsBefore
<1>6. /\ Len(rows) = 2
      /\ \A i \in 1..Len(rows) : rows[i].task = t
  BY <1>1, <1>4, <1>5 DEF TxInv
<1>7. \A i, j \in 1..Len(rows) : i < j => rows[i].id < rows[j].id
  BY DEF WriterInv, OrderInv
<1>8. rows[1] # rows[2]
  <2>1. rows[1].id < rows[2].id
    BY <1>6, <1>7
  <2>2. rows \in Seq(RowSet)
    BY TxIs DEF WriterInv, StateTypes, RowTypes
  <2>3. rows[1] \in RowSet /\ rows[2] \in RowSet
    BY <1>6, <2>2, EmptyOrNot
  <2> QED
    BY <2>1, <2>3 DEF RowSet
<1>9. {rows[i] : i \in 1..Len(rows)} = {rows[1], rows[2]}
  <2>1. \A i : i \in 1..Len(rows) <=> i = 1 \/ i = 2
    BY <1>6
  <2> HIDE DEF rows
  <2> QED
    BY <2>1
<1>10. RowsOf(t) = {}
  <2>1. 1 \in 1..Len(jobs[c]) /\ TaskInv(t)
    BY <1>2 DEF WriterInv, CommitInv
  <2> QED
    BY <1>1, <1>2, <2>1 DEF TaskInv
<1>11. PICK a, b : a = rows[1] /\ b = rows[2]
  OBVIOUS
<1>12. /\ Range(committed') = Range(committed) \cup {a, b}
       /\ a.task = t /\ b.task = t /\ a # b
  BY <1>6, <1>8, <1>9, <1>11
<1> HIDE DEF job, rows
<1>13. RowsOf(t)' = {a, b}
  BY <1>10, <1>12 DEF RowsOf
<1>14. \A u \in Tasks : u # t => RowsOf(u)' = RowsOf(u)
  BY <1>12 DEF RowsOf
<1>15. Cardinality(RowsOf(t)') = 2 /\ Cardinality(RowsOf(t))' = 2
  BY <1>12, <1>13, TwoRows
<1>16. PastCommit(t)'
  <2>1. CASE task[t].at = "call"
    <3>1. Issued(Len(task[t].calls)) = "commit" /\ Len(task[t].calls) \in 0..3
      BY <2>1, <1>1, <1>2 DEF WriterInv, CallsInv
    <3>2. Len(task[t].calls) = 0
      BY <3>1, IssuedIs
    <3> QED
      BY <2>1, <3>2, <1>2, <1>3 DEF PastCommit
  <2>2. CASE task[t].at # "call"
    BY <2>2, <1>2, <1>3 DEF PastCommit
  <2> QED
    BY <2>1, <2>2
<1>17. TaskInv(t)'
  <2>1. ASSUME NEW i \in 1..Len(jobs'[Lane[t]]), jobs'[Lane[t]][i].task = t
        PROVE  jobs'[Lane[t]][i].call = "rollback"
    <3>1. PICK k \in 1..Len(jobs[c]) : jobs'[c][i] = jobs[c][k] /\ k = i + 1
      BY <2>1, <1>2, RanJobs
    <3>2. i >= 1 /\ i \in Nat /\ k # 1
      BY <3>1
    <3> QED
      BY <2>1, <3>1, <3>2, <1>2
  <2> QED
    BY <2>1, <1>15, <1>16 DEF TaskInv
<1>18. ASSUME NEW u \in Tasks, u # t
       PROVE  TaskInv(u)'
  <2>1. TaskInv(u) /\ RowsOf(u)' = RowsOf(u) /\ task'[u] = task[u]
    BY <1>3, <1>14, <1>18 DEF WriterInv, CommitInv
  <2>2. \A i \in 1..Len(jobs'[Lane[u]]) : \E k \in 1..Len(jobs[Lane[u]]) :
          jobs'[Lane[u]][i] = jobs[Lane[u]][k]
    BY RanJobs
  <2>3. PastCommit(u)' <=> PastCommit(u)
    BY <2>1 DEF PastCommit
  <2> QED
    BY <2>1, <2>2, <2>3 DEF TaskInv
<1> QED
  BY <1>17, <1>18 DEF CommitInv

-----------------------------------------------------------------------------
(* The actions of a thread.                                                 *)

FaultsOk == storeFaults' \in 0..MaxStoreFaults

LEMMA FaultIs ==
  ASSUME StoreAssumption, WriterInv
  PROVE  /\ StoreFault => FaultsOk
         /\ storeFaults' = storeFaults => FaultsOk
<1>1. storeFaults \in 0..MaxStoreFaults /\ MaxStoreFaults \in Nat
  BY DEF WriterInv, StateTypes, StoreAssumption
<1>2. ASSUME StoreFault
      PROVE  FaultsOk
  BY <1>1, <1>2 DEF StoreFault, FaultsOk
<1> QED
  BY <1>1, <1>2 DEF FaultsOk

LEMMA RanTypes ==
  ASSUME StoreAssumption, WriterInv, NEW c \in Connections,
         NEW answer \in {"ok", "busy", "error"}, Ran(c, answer), RowTypes', FaultsOk
  PROVE  StateTypes'
<1>1. jobs' \in [Connections -> Seq(Jobs)] /\ task' \in [Tasks -> TaskRecords]
  BY RanIs
<1>2. gate' \in [Gates -> Tasks \cup {"free"}]
  BY DEF WriterInv, StateTypes, Ran
<1> QED
  BY <1>1, <1>2 DEF StateTypes, RowTypes, FaultsOk

\* The rows of the transaction are those of the call at the head.
LEMMA HeadRows ==
  ASSUME WriterInv, NEW c \in Connections, jobs[c] # <<>>
  PROVE  /\ RowTypes /\ OrderInv
         /\ tx[c].rows \in Seq(RowSet) /\ Len(tx[c].rows) \in Nat
         /\ \A i \in 1..Len(tx[c].rows) : tx[c].rows[i].task = jobs[c][1].task
         /\ jobs[c][1].call # "rollback" => Len(tx[c].rows) = RowsBefore(jobs[c][1].call)
<1>1. RowTypes /\ OrderInv
  BY DEF WriterInv, StateTypes, RowTypes
<1>2. TxInv(c)
  BY DEF WriterInv, RowsInv
<1> QED
  BY <1>1, <1>2, TxIs DEF TxInv

LEMMA ThreadKeeps ==
  ASSUME StoreAssumption, WriterInv, NEW c \in Connections,
         NEW answer \in {"ok", "busy", "error"}, Ran(c, answer), Keeps(c), FaultsOk,
         jobs[c][1].call \in {"begin", "first", "second"},
         answer = "ok" => jobs[c][1].call = "begin"
  PROVE  WriterInv'
<1>1. jobs[c] # <<>> /\ committed' = committed
  BY DEF Ran, Keeps
<1>2. /\ RowTypes /\ OrderInv
      /\ tx[c].rows \in Seq(RowSet)
      /\ \A i \in 1..Len(tx[c].rows) : tx[c].rows[i].task = jobs[c][1].task
      /\ Len(tx[c].rows) = RowsBefore(jobs[c][1].call)
  BY <1>1, HeadRows
<1>3. /\ RowTypes' /\ OrderInv'
      /\ tx'[c].rows = tx[c].rows
      /\ \A d \in Connections : d # c => tx'[d] = tx[d]
  BY <1>2, KeepsOrder
<1>4. GateInv' /\ CallsInv' /\ QueueInv' /\ WaitInv'
  BY RanControl
<1>5. answer = "ok" => Len(tx'[c].rows) = RowsLeft(jobs[c][1].call)
  BY <1>2, <1>3 DEF RowsBefore, RowsLeft
<1>6. /\ tx'[c].rows \in Seq(RowSet)
      /\ \A i \in 1..Len(tx'[c].rows) : tx'[c].rows[i].task = jobs[c][1].task
      /\ jobs[c][1].call # "rollback"
  BY <1>2, <1>3
<1>7. RowsInv'
  BY <1>3, <1>5, <1>6, RanRows
<1>8. CommitInv'
  BY <1>1, RanQuiet
<1>9. StateTypes'
  BY <1>3, RanTypes
<1> QED
  BY <1>3, <1>4, <1>7, <1>8, <1>9 DEF WriterInv

LEMMA ThreadDrops ==
  ASSUME StoreAssumption, WriterInv, NEW c \in Connections,
         NEW answer \in {"ok", "busy", "error"}, Ran(c, answer), Drops(c), FaultsOk,
         answer = "ok" => jobs[c][1].call = "rollback"
  PROVE  WriterInv'
<1>1. jobs[c] # <<>> /\ committed' = committed
  BY DEF Ran, Drops
<1>2. RowTypes /\ OrderInv
  BY <1>1, HeadRows
<1>3. /\ RowTypes' /\ OrderInv'
      /\ tx'[c].rows = <<>>
      /\ \A d \in Connections : d # c => tx'[d] = tx[d]
  BY <1>2, DropsOrder
<1>4. GateInv' /\ CallsInv' /\ QueueInv' /\ WaitInv'
  BY RanControl
<1>5. Len(<<>>) = 0 /\ <<>> \in Seq(RowSet)
  BY EmptySeq
<1>6. /\ tx'[c].rows \in Seq(RowSet)
      /\ \A i \in 1..Len(tx'[c].rows) : tx'[c].rows[i].task = jobs[c][1].task
  BY <1>3, <1>5
<1>7. RowsInv'
  BY <1>3, <1>6, RanRows
<1>8. CommitInv'
  BY <1>1, RanQuiet
<1>9. StateTypes'
  BY <1>3, RanTypes
<1> QED
  BY <1>3, <1>4, <1>7, <1>8, <1>9 DEF WriterInv

LEMMA ThreadAdds ==
  ASSUME StoreAssumption, WriterInv, NEW c \in Connections, Ran(c, "ok"),
         Adds(c, NewRow(jobs[c][1])), FaultsOk, jobs[c][1].call \in {"first", "second"}
  PROVE  WriterInv'
<1> DEFINE row == NewRow(jobs[c][1])
<1>1. jobs[c] # <<>> /\ committed' = committed
  BY DEF Ran, Adds
<1>2. /\ RowTypes /\ OrderInv
      /\ tx[c].rows \in Seq(RowSet) /\ Len(tx[c].rows) \in Nat
      /\ \A i \in 1..Len(tx[c].rows) : tx[c].rows[i].task = jobs[c][1].task
      /\ Len(tx[c].rows) = RowsBefore(jobs[c][1].call)
  BY <1>1, HeadRows
<1>3. row \in RowSet /\ row.id = identity + 1 /\ row.task = jobs[c][1].task
  <2>1. jobs[c][1] \in Jobs
    BY <1>1, HeadIs
  <2>2. jobs[c][1].task \in Tasks /\ jobs[c][1].try \in 1..Attempts
    BY <2>1 DEF Jobs
  <2>3. identity + 1 \in Nat
    BY <1>2 DEF RowTypes
  <2> QED
    BY <2>2, <2>3 DEF NewRow, RowSet
<1> HIDE DEF row
<1>4. Adds(c, row)
  BY DEF row
<1>5. PICK r \in RowSet : r = row
  BY <1>3
<1>6. r.id = identity + 1 /\ Adds(c, r)
  BY <1>3, <1>4, <1>5
<1>7. /\ RowTypes' /\ OrderInv'
      /\ tx'[c].rows = Append(tx[c].rows, r)
      /\ \A d \in Connections : d # c => tx'[d] = tx[d]
  BY <1>2, <1>6, AddsOrder
<1>8. GateInv' /\ CallsInv' /\ QueueInv' /\ WaitInv'
  BY RanControl
<1>9. /\ tx'[c].rows \in Seq(RowSet) /\ Len(tx'[c].rows) = Len(tx[c].rows) + 1
      /\ \A i \in 1..Len(tx[c].rows) : tx'[c].rows[i] = tx[c].rows[i]
      /\ tx'[c].rows[Len(tx[c].rows) + 1] = r
  BY <1>2, <1>7, AppendOf
<1>10. ASSUME NEW i \in 1..Len(tx'[c].rows)
       PROVE  tx'[c].rows[i].task = jobs[c][1].task
  <2>1. i \in 1..Len(tx[c].rows) \/ i = Len(tx[c].rows) + 1
    BY <1>2, <1>9
  <2> QED
    BY <2>1, <1>2, <1>3, <1>5, <1>9
<1>11. Len(tx'[c].rows) = RowsLeft(jobs[c][1].call) /\ jobs[c][1].call # "rollback"
  BY <1>2, <1>9 DEF RowsBefore, RowsLeft
<1>12. RowsInv'
  BY <1>7, <1>9, <1>10, <1>11, RanRows
<1>13. CommitInv'
  BY <1>1, RanQuiet
<1>14. StateTypes'
  BY <1>7, RanTypes
<1> QED
  BY <1>7, <1>8, <1>12, <1>13, <1>14 DEF WriterInv

LEMMA ThreadCommits ==
  ASSUME StoreAssumption, WriterInv, NEW c \in Connections, Ran(c, "ok"),
         Commits(c), FaultsOk, jobs[c][1].call = "commit"
  PROVE  WriterInv'
<1>1. jobs[c] # <<>>
  BY DEF Ran
<1>2. RowTypes /\ OrderInv /\ jobs[c][1].task \in Tasks
  BY <1>1, HeadRows, HeadIs
<1>3. /\ RowTypes' /\ OrderInv'
      /\ tx'[c].rows = <<>>
      /\ \A d \in Connections : d # c => tx'[d] = tx[d]
      /\ Range(committed') = Range(committed) \cup {tx[c].rows[i] : i \in 1..Len(tx[c].rows)}
  BY <1>2, CommitsOrder
<1>4. GateInv' /\ CallsInv' /\ QueueInv' /\ WaitInv'
  BY RanControl
<1>5. Len(<<>>) = 0 /\ <<>> \in Seq(RowSet) /\ RowsLeft("commit") = 0
  BY EmptySeq DEF RowsLeft
<1>6. /\ tx'[c].rows \in Seq(RowSet)
      /\ \A i \in 1..Len(tx'[c].rows) : tx'[c].rows[i].task = jobs[c][1].task
      /\ Len(tx'[c].rows) = RowsLeft(jobs[c][1].call) /\ jobs[c][1].call # "rollback"
  BY <1>3, <1>5
<1>7. RowsInv'
  BY <1>3, <1>6, RanRows
<1>8. CommitInv'
  <2>1. PICK t \in Tasks : t = jobs[c][1].task
    BY <1>2
  <2> QED
    BY <1>3, <2>1, RanCommit
<1>9. StateTypes'
  BY <1>3, RanTypes
<1> QED
  BY <1>3, <1>4, <1>7, <1>8, <1>9 DEF WriterInv

\* Taking the lock, when an action does.
LEMMA LockedIs ==
  ASSUME NEW c \in Connections, NEW call \in {"begin", "first", "second"}, Locked(c, call)
  PROVE  writer \in {c, "free"} /\ writer' = c
BY DEF Locked, Locking

LEMMA OpenedIs ==
  ASSUME NEW S, NEW r \in [open : BOOLEAN, rows : S]
  PROVE  [r EXCEPT !.open = TRUE] = [open |-> TRUE, rows |-> r.rows]
<1>1. [r EXCEPT !.open = TRUE] \in [open : BOOLEAN, rows : S]
  OBVIOUS
<1>2. [r EXCEPT !.open = TRUE].open = TRUE /\ [r EXCEPT !.open = TRUE].rows = r.rows
  OBVIOUS
<1>3. \A q \in [open : BOOLEAN, rows : S] : q = [open |-> q.open, rows |-> q.rows]
  OBVIOUS
<1>4. [r EXCEPT !.open = TRUE] = [open |-> [r EXCEPT !.open = TRUE].open,
                                 rows |-> [r EXCEPT !.open = TRUE].rows]
  BY <1>1, <1>3, Zenon
<1> QED
  BY <1>2, <1>4, Zenon

LEMMA RunBeginKeeps ==
  ASSUME StoreAssumption, WriterInv, NEW c \in Connections, RunBegin(c)
  PROVE  WriterInv'
<1>1. jobs[c] # <<>> /\ jobs[c][1].call = "begin" /\ Head(jobs[c]) = jobs[c][1]
  BY HeadIs DEF RunBegin
<1>2. PICK answer \in {"ok", "busy", "error"} : Ran(c, answer)
  BY <1>1 DEF RunBegin, Ran
<1>3. Keeps(c)
  <2>1. writer \in {c, "free"} /\ writer' = c
    BY LockedIs DEF RunBegin
  <2>2. tx[c] \in [open : BOOLEAN, rows : Seq(RowSet)]
    BY DEF WriterInv, StateTypes
  <2>3. [tx[c] EXCEPT !.open = TRUE] = [open |-> TRUE, rows |-> tx[c].rows]
    BY <2>2, OpenedIs
  <2>4. tx' = [tx EXCEPT ![c] = [tx[c] EXCEPT !.open = TRUE]]
    BY DEF RunBegin
  <2>5. tx' = [tx EXCEPT ![c] = [open |-> TRUE, rows |-> tx[c].rows]]
    BY <2>3, <2>4
  <2> QED
    BY <2>1, <2>5 DEF RunBegin, Keeps
<1>4. FaultsOk
  BY FaultIs DEF RunBegin
<1> QED
  BY <1>1, <1>2, <1>3, <1>4, ThreadKeeps

LEMMA RunStatementKeeps ==
  ASSUME StoreAssumption, WriterInv, NEW c \in Connections, RunStatement(c)
  PROVE  WriterInv'
<1>1. jobs[c] # <<>> /\ jobs[c][1].call \in {"first", "second"} /\ Head(jobs[c]) = jobs[c][1]
  BY HeadIs DEF RunStatement
<1>2. Ran(c, "ok")
  BY <1>1 DEF RunStatement, Ran
<1>3. Adds(c, NewRow(jobs[c][1]))
  <2>1. writer \in {c, "free"} /\ writer' = c
    <3>1. Locked(c, jobs[c][1].call)
      BY <1>1 DEF RunStatement
    <3> QED
      BY <1>1, <3>1, LockedIs
  <2>2. identity' = identity + 1 /\ committed' = committed
    BY DEF RunStatement
  <2>3. tx' = [tx EXCEPT ![c] = [open |-> TRUE, rows |-> Append(tx[c].rows,
                [id |-> identity', task |-> jobs[c][1].task, try |-> jobs[c][1].try])]]
    BY <1>1 DEF RunStatement
  <2>4. tx' = [tx EXCEPT ![c] = [open |-> TRUE, rows |-> Append(tx[c].rows, NewRow(jobs[c][1]))]]
    BY <2>2, <2>3 DEF NewRow
  <2> QED
    BY <2>1, <2>2, <2>4 DEF Adds
<1>4. FaultsOk
  BY FaultIs DEF RunStatement
<1> QED
  BY <1>1, <1>2, <1>3, <1>4, ThreadAdds

LEMMA LockTimeoutKeeps ==
  ASSUME StoreAssumption, WriterInv, NEW c \in Connections, LockTimeout(c)
  PROVE  WriterInv'
<1>1. jobs[c] # <<>> /\ Ran(c, "busy")
  BY DEF LockTimeout, Ran
<1>2. Drops(c)
  BY DEF LockTimeout, Locking, Drops, RolledBack, Released
<1>3. FaultsOk
  BY FaultIs DEF LockTimeout
<1> QED
  BY <1>1, <1>2, <1>3, ThreadDrops

LEMMA StatementFailsKeeps ==
  ASSUME StoreAssumption, WriterInv, NEW c \in Connections, StatementFails(c)
  PROVE  WriterInv'
<1>1. jobs[c] # <<>> /\ jobs[c][1].call \in {"first", "second"} /\ Head(jobs[c]) = jobs[c][1]
  BY HeadIs DEF StatementFails
<1>2. FaultsOk
  BY FaultIs DEF StatementFails
<1>3. CASE Answered(Head(jobs[c]), "error") /\ tx' = [tx EXCEPT ![c].open = TRUE] /\ writer' = c
  <2>1. Ran(c, "error")
    BY <1>1, <1>3 DEF StatementFails, Ran
  <2>2. tx[c] \in [open : BOOLEAN, rows : Seq(RowSet)]
    BY DEF WriterInv, StateTypes
  <2>3. [tx[c] EXCEPT !.open = TRUE] = [open |-> TRUE, rows |-> tx[c].rows]
    BY <2>2, OpenedIs
  <2>4. tx' = [tx EXCEPT ![c] = [tx[c] EXCEPT !.open = TRUE]]
    BY <1>3
  <2>5. tx' = [tx EXCEPT ![c] = [open |-> TRUE, rows |-> tx[c].rows]]
    BY <2>3, <2>4
  <2>6. Keeps(c)
    BY <1>3, <2>5 DEF StatementFails, Keeps
  <2> QED
    BY <1>1, <1>2, <2>1, <2>6, ThreadKeeps
<1>4. CASE Answered(Head(jobs[c]), "busy") /\ tx' = [tx EXCEPT ![c] = Closed] /\ writer' = "free"
  <2>1. Ran(c, "busy")
    BY <1>1, <1>4 DEF StatementFails, Ran
  <2>2. Drops(c)
    BY <1>4 DEF StatementFails, Drops, RolledBack, Released
  <2> QED
    BY <1>2, <2>1, <2>2, ThreadDrops
<1> QED
  BY <1>3, <1>4 DEF StatementFails

LEMMA RunCommitKeeps ==
  ASSUME StoreAssumption, WriterInv, NEW c \in Connections, RunCommit(c)
  PROVE  WriterInv'
<1>1. jobs[c][1].call = "commit"
  BY HeadIs DEF RunCommit
<1>2. Ran(c, "ok") /\ Commits(c)
  BY DEF RunCommit, Ran, Commits
<1>3. FaultsOk
  BY FaultIs DEF RunCommit
<1> QED
  BY <1>1, <1>2, <1>3, ThreadCommits

LEMMA CommitFailsKeeps ==
  ASSUME StoreAssumption, WriterInv, NEW c \in Connections, CommitFails(c)
  PROVE  WriterInv'
<1>1. PICK answer \in {"busy", "error"} : Ran(c, answer)
  BY DEF CommitFails, Ran
<1>2. Drops(c)
  BY DEF CommitFails, Drops
<1>3. FaultsOk
  BY FaultIs DEF CommitFails
<1> QED
  BY <1>1, <1>2, <1>3, ThreadDrops

LEMMA RunRollbackKeeps ==
  ASSUME StoreAssumption, WriterInv, NEW c \in Connections, RunRollback(c)
  PROVE  WriterInv'
<1>1. jobs[c] # <<>> /\ jobs[c][1].call = "rollback" /\ Head(jobs[c]) = jobs[c][1]
  BY HeadIs DEF RunRollback
<1>2. Ran(c, "ok")
  BY <1>1 DEF RunRollback, Ran, Answered
<1>3. Drops(c)
  BY DEF RunRollback, Drops
<1>4. FaultsOk
  BY FaultIs DEF RunRollback
<1> QED
  BY <1>1, <1>2, <1>3, <1>4, ThreadDrops
-----------------------------------------------------------------------------
(* A step of a task: what it leaves alone, and what it has to establish.    *)

TaskStep(t) ==
  /\ tx' = tx /\ writer' = writer /\ identity' = identity /\ committed' = committed
  /\ task' \in [Tasks -> TaskRecords] /\ \A u \in Tasks : u # t => task'[u] = task[u]
  /\ gate' \in [Gates -> Tasks \cup {"free"}]
  /\ jobs' \in [Connections -> Seq(Jobs)]
  /\ \A d \in Connections : d # Lane[t] => jobs'[d] = jobs[d]
  /\ FaultsOk

\* What a task at a call has yet to issue, in order.
InOrder(t) ==
  /\ Len(task[t].calls) \in 0..3
  /\ \A i \in 1..Len(task[t].calls) : task[t].calls[i] = Issued(Len(task[t].calls) - i)
\* What a task at a call waits for.
Waits(t) ==
  IF task[t].answer = "none"
  THEN /\ jobs[Lane[t]] # <<>>
       /\ jobs[Lane[t]][Len(jobs[Lane[t]])].task = t
       /\ jobs[Lane[t]][Len(jobs[Lane[t]])].call # "rollback"
  ELSE jobs[Lane[t]] = <<>>

LEMMA TaskStepKeeps ==
  ASSUME StoreAssumption, WriterInv, NEW t \in Tasks, TaskStep(t), GateInv',
         task'[t].at = "call" => InOrder(t)',
         \A i \in 1..Len(jobs'[Lane[t]]) : JobInv(Lane[t], i)',
         \A u \in Tasks : Lane[u] = Lane[t] /\ task'[u].at = "call" => Waits(u)',
         TxInv(Lane[t])', TaskInv(t)',
         \A i \in 1..Len(jobs'[Lane[t]]) : jobs'[Lane[t]][i].task = t
            \/ \E k \in 1..Len(jobs[Lane[t]]) : jobs'[Lane[t]][i] = jobs[Lane[t]][k]
  PROVE  WriterInv'
<1>1. /\ \A u \in Tasks : u # t => task'[u] = task[u]
      /\ \A d \in Connections : d # Lane[t] => jobs'[d] = jobs[d]
      /\ tx' = tx /\ committed' = committed
  BY DEF TaskStep
<1>2. StateTypes'
  BY DEF WriterInv, StateTypes, TaskStep, FaultsOk
<1>3. OrderInv'
  BY DEF WriterInv, OrderInv, TaskStep
<1>4. CallsInv'
  <2>1. ASSUME NEW u \in Tasks, task'[u].at = "call"
        PROVE  InOrder(u)'
    <3>1. CASE u # t
      BY <2>1, <3>1, <1>1 DEF WriterInv, CallsInv, InOrder
    <3> QED
      BY <2>1, <3>1
  <2> QED
    BY <2>1 DEF CallsInv, InOrder
<1>5. ASSUME NEW d \in Connections, d # Lane[t]
      PROVE  /\ \A i \in 1..Len(jobs'[d]) : JobInv(d, i)'
             /\ TxInv(d)'
  <2>1. jobs'[d] = jobs[d] /\ tx'[d] = tx[d] /\ \A u \in Tasks : Lane[u] = d => task'[u] = task[u]
    BY <1>1, <1>5
  <2>2. TxInv(d)
    BY DEF WriterInv, RowsInv
  <2>3. TxInv(d)'
    BY <2>1, <2>2 DEF TxInv
  <2>4. ASSUME NEW i \in 1..Len(jobs[d])
        PROVE  JobInv(d, i)'
    <3>1. JobInv(d, i) /\ jobs[d][i].task \in Tasks
      BY QueueIs DEF WriterInv, QueueInv
    <3>2. task'[jobs[d][i].task] = task[jobs[d][i].task]
      BY <2>1, <3>1 DEF JobInv
    <3> QED
      BY <2>1, <3>1, <3>2 DEF JobInv
  <2> QED
    BY <2>1, <2>3, <2>4
<1>6. QueueInv' /\ RowsInv'
  BY <1>5 DEF QueueInv, RowsInv
<1>7. WaitInv'
  <2>1. ASSUME NEW u \in Tasks, task'[u].at = "call"
        PROVE  Waits(u)'
    <3>1. CASE Lane[u] # Lane[t]
      <4>1. task'[u] = task[u] /\ jobs'[Lane[u]] = jobs[Lane[u]]
        BY <3>1, <1>1, PlacesAre
      <4> QED
        BY <2>1, <4>1 DEF WriterInv, WaitInv, Waits
    <3> QED
      BY <2>1, <3>1
  <2> QED
    BY <2>1 DEF WaitInv, Waits
<1>8. ASSUME NEW u \in Tasks, u # t
      PROVE  TaskInv(u)'
  <2>1. TaskInv(u) /\ RowsOf(u)' = RowsOf(u) /\ task'[u] = task[u]
    BY <1>1, <1>8 DEF WriterInv, CommitInv, RowsOf
  <2>2. PastCommit(u)' <=> PastCommit(u)
    BY <2>1 DEF PastCommit
  <2>3. \A i \in 1..Len(jobs'[Lane[u]]) : jobs'[Lane[u]][i].task = u =>
          \E k \in 1..Len(jobs[Lane[u]]) : jobs'[Lane[u]][i] = jobs[Lane[u]][k]
    <3>1. CASE Lane[u] = Lane[t]
      BY <3>1, <1>8
    <3>2. CASE Lane[u] # Lane[t]
      BY <3>2, <1>1, PlacesAre
    <3> QED
      BY <3>1, <3>2
  <2> QED
    BY <2>1, <2>2, <2>3 DEF TaskInv
<1>9. CommitInv'
  BY <1>8 DEF CommitInv
<1> QED
  BY <1>2, <1>3, <1>4, <1>6, <1>7, <1>9 DEF WriterInv

\* A task on the same lane holds the same gate.
LEMMA OneOnLane ==
  ASSUME WriterInv, NEW t \in Tasks, NEW u \in Tasks, Lane[t] = Lane[u],
         task[t].at \in {"call", "undo"}, task[u].at \in {"call", "undo"}
  PROVE  t = u
BY OneHolder DEF GateOf

\* The queue stays as it is.
LEMMA SameQueue ==
  ASSUME StoreAssumption, WriterInv, NEW t \in Tasks, TaskStep(t), GateInv', jobs' = jobs,
         \/ \A i \in 1..Len(jobs[Lane[t]]) : jobs[Lane[t]][i].task # t
         \/ /\ task'[t].at = task[t].at /\ task'[t].answer = task[t].answer
            /\ task'[t].calls = task[t].calls /\ (task[t].cancelled => task'[t].cancelled)
         \/ task[t].at = "undo" /\ task'[t].at = "cancelled",
         task'[t].at = "call" => task[t].at = "call" /\ task'[t].answer = task[t].answer
                                 /\ task'[t].calls = task[t].calls,
         task[t].at = "call" /\ task'[t].at # "call" =>
           jobs[Lane[t]] = <<>> /\ tx[Lane[t]].rows = <<>>,
         TaskInv(t)'
  PROVE  WriterInv'
<1>1. PICK c \in Connections : c = Lane[t]
  BY PlacesAre
<1>2. tx' = tx /\ \A u \in Tasks : u # t => task'[u] = task[u]
  BY DEF TaskStep
<1>3. task'[t].at = "call" => InOrder(t)'
  BY DEF WriterInv, CallsInv, InOrder
<1>4. ASSUME NEW i \in 1..Len(jobs[c])
      PROVE  JobInv(c, i)'
  <2>1. JobInv(c, i) /\ jobs[c][i].task \in Tasks
    BY QueueIs DEF WriterInv, QueueInv
  <2>2. CASE jobs[c][i].task # t
    <3>1. task'[jobs[c][i].task] = task[jobs[c][i].task]
      BY <2>1, <2>2, <1>2
    <3> QED
      BY <2>1, <3>1 DEF JobInv
  <2>3. CASE jobs[c][i].task = t
    <3>1. \/ /\ task'[t].at = task[t].at /\ task'[t].answer = task[t].answer
             /\ task'[t].calls = task[t].calls /\ (task[t].cancelled => task'[t].cancelled)
          \/ task[t].at = "undo" /\ task'[t].at = "cancelled"
      BY <2>3, <1>1
    <3>2. CASE /\ task'[t].at = task[t].at /\ task'[t].answer = task[t].answer
               /\ task'[t].calls = task[t].calls /\ (task[t].cancelled => task'[t].cancelled)
      BY <2>1, <2>3, <3>2 DEF JobInv
    <3>3. CASE task[t].at = "undo" /\ task'[t].at = "cancelled"
      BY <2>1, <2>3, <3>3 DEF JobInv
    <3> QED
      BY <3>1, <3>2, <3>3
  <2> QED
    BY <2>2, <2>3
<1>5. ASSUME NEW u \in Tasks, Lane[u] = Lane[t], task'[u].at = "call"
      PROVE  Waits(u)'
  <2>1. task[u].at = "call" /\ task'[u].answer = task[u].answer
    BY <1>2, <1>5
  <2> QED
    BY <2>1 DEF WriterInv, WaitInv, Waits
<1>6. TxInv(c)'
  <2>1. TxInv(c)
    BY DEF WriterInv, RowsInv
  <2>2. ASSUME jobs[c] = <<>>, tx[c].rows # <<>>
        PROVE  \E u \in Tasks : Lane[u] = c /\ task'[u].at = "call"
    <3>1. PICK u \in Tasks : Lane[u] = c /\ task[u].at = "call"
      BY <2>1, <2>2 DEF TxInv
    <3>2. task'[u].at = "call"
      BY <3>1, <2>2, <1>1, <1>2
    <3> QED
      BY <3>1, <3>2
  <2>3. ASSUME NEW u \in Tasks, task'[u].at = "call"
        PROVE  task[u].at = "call" /\ task'[u].answer = task[u].answer
               /\ task'[u].calls = task[u].calls
    BY <2>3, <1>2
  <2> QED
    BY <2>1, <2>2, <2>3, <1>2 DEF TxInv
<1> QED
  BY <1>1, <1>3, <1>4, <1>5, <1>6, TaskStepKeeps

\* A call put into the queue of the thread.
LEMMA QueuedIs ==
  ASSUME StoreAssumption, WriterInv, NEW t \in Tasks, NEW c \in Connections, c = Lane[t],
         NEW call \in CallNames \cup {"rollback"}, Queued(t, call)
  PROVE  /\ jobs' \in [Connections -> Seq(Jobs)]
         /\ \A d \in Connections : d # c => jobs'[d] = jobs[d]
         /\ Len(jobs[c]) \in Nat /\ Len(jobs'[c]) = Len(jobs[c]) + 1 /\ jobs'[c] # <<>>
         /\ \A i \in 1..Len(jobs[c]) : jobs'[c][i] = jobs[c][i]
         /\ jobs'[c][Len(jobs[c]) + 1].task = t /\ jobs'[c][Len(jobs[c]) + 1].call = call
         /\ jobs[c] = <<>> <=> Len(jobs[c]) = 0
<1>1. PICK job \in Jobs : job.task = t /\ job.call = call
                          /\ job = [task |-> t, try |-> task[t].try, call |-> call]
  BY TaskIs DEF Jobs
<1>2. jobs' = [jobs EXCEPT ![c] = Append(jobs[c], job)]
  BY <1>1 DEF Queued
<1>3. /\ jobs \in [Connections -> Seq(Jobs)] /\ jobs[c] \in Seq(Jobs) /\ Len(jobs[c]) \in Nat
      /\ jobs[c] = <<>> <=> Len(jobs[c]) = 0
  BY QueueIs
<1>4. /\ Append(jobs[c], job) \in Seq(Jobs) /\ Len(Append(jobs[c], job)) = Len(jobs[c]) + 1
      /\ \A i \in 1..Len(jobs[c]) : Append(jobs[c], job)[i] = jobs[c][i]
      /\ Append(jobs[c], job)[Len(jobs[c]) + 1] = job /\ Append(jobs[c], job) # <<>>
  BY <1>3, AppendOf
<1>5. /\ jobs'[c] = Append(jobs[c], job) /\ \A d \in Connections : d # c => jobs'[d] = jobs[d]
      /\ jobs' \in [Connections -> Seq(Jobs)]
  BY <1>2, <1>3, <1>4
<1> QED
  BY <1>1, <1>3, <1>4, <1>5

\* A task issues its next call.
LEMMA IssueKeeps ==
  ASSUME StoreAssumption, WriterInv, NEW t \in Tasks, NEW call \in CallNames, TaskStep(t),
         Queued(t, call), GateInv', InOrder(t)',
         task'[t].at = "call", task'[t].answer = "none", call = Issued(Len(task'[t].calls)),
         \A u \in Tasks : Lane[u] = Lane[t] /\ task[u].at = "call" => u = t,
         \A i \in 1..Len(jobs[Lane[t]]) : jobs[Lane[t]][i].task # t
            /\ (i = Len(jobs[Lane[t]]) =>
                  jobs[Lane[t]][i].call = "rollback" /\ call \in {"begin", "first"}),
         jobs[Lane[t]] = <<>> =>
           /\ \A i \in 1..Len(tx[Lane[t]].rows) : tx[Lane[t]].rows[i].task = t
           /\ Len(tx[Lane[t]].rows) = RowsBefore(call),
         RowsOf(t) = {}
  PROVE  WriterInv'
<1>1. PICK c \in Connections : c = Lane[t]
  BY PlacesAre
<1> DEFINE n == Len(jobs[c])
<1>2. tx' = tx /\ committed' = committed /\ \A u \in Tasks : u # t => task'[u] = task[u]
  BY DEF TaskStep
<1>0. call \in CallNames \cup {"rollback"} /\ Queued(t, call)
  OBVIOUS
<1>3. /\ n \in Nat /\ Len(jobs'[c]) = n + 1 /\ jobs'[c] # <<>>
      /\ \A i \in 1..n : jobs'[c][i] = jobs[c][i]
      /\ jobs'[c][n + 1].task = t /\ jobs'[c][n + 1].call = call
      /\ jobs[c] = <<>> <=> n = 0
  BY <1>0, <1>1, QueuedIs
<1>4. \A i \in 1..n : jobs[c][i].task # t
        /\ (i = n => jobs[c][i].call = "rollback" /\ call \in {"begin", "first"})
  BY <1>1
<1>5. call # "rollback" /\ Lane[t] = c
  BY <1>1 DEF CallNames
<1> HIDE DEF n
<1>6. \A i \in 1..n + 1 : i \in 1..n \/ i = n + 1
  BY <1>3
<1>7. ASSUME NEW i \in 1..Len(jobs'[c])
      PROVE  JobInv(c, i)'
  <2>1. CASE i \in 1..n
    <3>1. JobInv(c, i) /\ jobs[c][i].task \in Tasks /\ jobs[c][i].task # t
      BY <2>1, <1>4, QueueIs DEF WriterInv, QueueInv, n
    <3>2. task'[jobs[c][i].task] = task[jobs[c][i].task] /\ jobs'[c][i] = jobs[c][i]
      BY <2>1, <3>1, <1>2, <1>3
    <3>3. CASE jobs[c][i].call = "rollback"
      BY <3>1, <3>2, <3>3 DEF JobInv
    <3>4. CASE jobs[c][i].call # "rollback"
      <4>1. i < n
        BY <2>1, <3>4, <1>3, <1>4
      <4>2. i + 1 \in 1..n /\ i + 1 <= n + 1 /\ i < n + 1 /\ (i > 1 => i - 1 \in 1..n)
        BY <2>1, <4>1, <1>3
      <4>3. jobs'[c][i + 1] = jobs[c][i + 1] /\ (i > 1 => jobs'[c][i - 1] = jobs[c][i - 1])
        BY <4>2, <1>3
      <4>4. /\ jobs[c][i + 1].call = "rollback" /\ jobs[c][i + 1].task = jobs[c][i].task
            /\ \/ task[jobs[c][i].task].at = "undo" /\ task[jobs[c][i].task].cancelled
               \/ task[jobs[c][i].task].at = "cancelled"
            /\ i > 1 => jobs[c][i - 1].call = "rollback" /\ jobs[c][i].call \in {"begin", "first"}
            /\ \A j \in 1..n :
                 jobs[c][j].task = jobs[c][i].task /\ jobs[c][j].call # "rollback" => i = j
            /\ Lane[jobs[c][i].task] = c /\ task[jobs[c][i].task].at \notin {"idle", "gate"}
        BY <3>1, <3>4, <4>1 DEF JobInv, n
      <4>5. \A j \in 1..n + 1 :
              jobs'[c][j].task = jobs[c][i].task /\ jobs'[c][j].call # "rollback" => i = j
        BY <4>4, <3>1, <1>3, <1>6
      <4> QED
        BY <3>2, <4>2, <4>3, <4>4, <4>5, <1>3 DEF JobInv
    <3> QED
      BY <3>3, <3>4
  <2>2. CASE i = n + 1
    <3>1. jobs'[c][i].task = t /\ jobs'[c][i].call = call /\ i = Len(jobs'[c])
      BY <2>2, <1>3
    <3>2. i > 1 => jobs'[c][i - 1].call = "rollback" /\ call \in {"begin", "first"}
      <4>1. i > 1 => n \in 1..n /\ i - 1 = n
        BY <2>2, <1>3
      <4> QED
        BY <4>1, <1>3, <1>4
    <3>3. \A j \in 1..n + 1 : jobs'[c][j].task = t => i = j
      BY <2>2, <1>3, <1>4, <1>6
    <3> QED
      BY <3>1, <3>2, <3>3, <1>3, <1>5 DEF JobInv
  <2> QED
    BY <2>1, <2>2, <1>3, <1>6
<1>8. ASSUME NEW u \in Tasks, Lane[u] = Lane[t], task'[u].at = "call"
      PROVE  Waits(u)'
  <2>1. u = t
    BY <1>2, <1>8
  <2> QED
    BY <2>1, <1>1, <1>3, <1>5 DEF Waits
<1>9. TxInv(c)'
  <2>1. CASE n = 0
    <3>1. jobs'[c][1].task = t /\ jobs'[c][1].call = call
      BY <2>1, <1>3
    <3>2. /\ \A i \in 1..Len(tx[c].rows) : tx[c].rows[i].task = t
          /\ Len(tx[c].rows) = RowsBefore(call)
      BY <2>1, <1>1, <1>3
    <3> QED
      BY <3>1, <3>2, <1>2, <1>3 DEF TxInv
  <2>2. CASE n # 0
    <3>1. 1 \in 1..n /\ jobs[c] # <<>>
      BY <2>2, <1>3
    <3>2. jobs'[c][1] = jobs[c][1] /\ TxInv(c)
      BY <3>1, <1>3 DEF WriterInv, RowsInv
    <3> QED
      BY <3>1, <3>2, <1>2, <1>3 DEF TxInv
  <2> QED
    BY <2>1, <2>2
<1>10. TaskInv(t)'
  <2>1. RowsOf(t)' = {}
    BY <1>2 DEF RowsOf
  <2>2. Cardinality(RowsOf(t))' = 0
    BY <2>1, FS_EmptySet
  <2> QED
    BY <2>1, <2>2 DEF TaskInv
<1>11. \A i \in 1..Len(jobs'[c]) : jobs'[c][i].task = t
         \/ \E k \in 1..Len(jobs[c]) : jobs'[c][i] = jobs[c][k]
  BY <1>3, <1>6 DEF n
<1> QED
  BY <1>1, <1>7, <1>8, <1>9, <1>10, <1>11, TaskStepKeeps

\* A task goes out through the guard, which puts its rollback into the queue.
LEMMA UndoKeeps ==
  ASSUME StoreAssumption, WriterInv, NEW t \in Tasks, TaskStep(t), Queued(t, "rollback"),
         gate' = gate, task[t].at = "call", task'[t].at = "undo",
         task'[t].cancelled = task[t].cancelled,
         task[t].answer = "none" => task[t].cancelled,
         task[t].answer = "ok" => task[t].cancelled
  PROVE  WriterInv'
<1>1. PICK c \in Connections : c = Lane[t]
  BY PlacesAre
<1> DEFINE n == Len(jobs[c])
<1>2. tx' = tx /\ committed' = committed /\ \A u \in Tasks : u # t => task'[u] = task[u]
  BY DEF TaskStep
<1>3. /\ n \in Nat /\ Len(jobs'[c]) = n + 1 /\ jobs'[c] # <<>>
      /\ \A i \in 1..n : jobs'[c][i] = jobs[c][i]
      /\ jobs'[c][n + 1].task = t /\ jobs'[c][n + 1].call = "rollback"
      /\ jobs[c] = <<>> <=> n = 0
  BY <1>1, QueuedIs
<1>4. \A u \in Tasks : Lane[u] = c /\ task[u].at = "call" => u = t
  BY <1>1, OneOnLane
<1>5. IF task[t].answer = "none" THEN n # 0 /\ jobs[c][n].task = t /\ jobs[c][n].call # "rollback"
      ELSE n = 0
  BY <1>1, <1>3 DEF WriterInv, WaitInv, n
<1> HIDE DEF n
<1>6. \A i \in 1..n + 1 : i \in 1..n \/ i = n + 1
  BY <1>3
<1>7. GateInv'
  <2>1. \A u \in Tasks : task'[u].at \in {"call", "undo"} <=> task[u].at \in {"call", "undo"}
    BY <1>2
  <2> QED
    BY <2>1 DEF WriterInv, GateInv, GateOf
<1>8. ASSUME NEW i \in 1..Len(jobs'[c])
      PROVE  JobInv(c, i)'
  <2>1. CASE i \in 1..n
    <3>1. JobInv(c, i) /\ jobs[c][i].task \in Tasks /\ jobs'[c][i] = jobs[c][i]
      BY <2>1, <1>3, QueueIs DEF WriterInv, QueueInv, n
    <3>2. /\ task'[jobs[c][i].task].at \notin {"idle", "gate"} /\ Lane[jobs[c][i].task] = c
          /\ jobs[c][i].task # t => task'[jobs[c][i].task] = task[jobs[c][i].task]
      BY <3>1, <1>2 DEF JobInv
    <3>3. CASE jobs[c][i].call = "rollback"
      BY <3>1, <3>2, <3>3 DEF JobInv
    <3>4. CASE jobs[c][i].call # "rollback"
      <4>1. \/ /\ i = n /\ task[jobs[c][i].task].at = "call"
            \/ /\ i < n /\ jobs[c][i + 1].call = "rollback"
               /\ jobs[c][i + 1].task = jobs[c][i].task
               /\ \/ task[jobs[c][i].task].at = "undo" /\ task[jobs[c][i].task].cancelled
                  \/ task[jobs[c][i].task].at = "cancelled"
        BY <3>1, <3>4 DEF JobInv, n
      <4>2. /\ i > 1 => jobs[c][i - 1].call = "rollback" /\ jobs[c][i].call \in {"begin", "first"}
            /\ \A j \in 1..n :
                 jobs[c][j].task = jobs[c][i].task /\ jobs[c][j].call # "rollback" => i = j
        BY <3>1, <3>4 DEF JobInv, n
      <4>3. i > 1 => i - 1 \in 1..n /\ jobs'[c][i - 1] = jobs[c][i - 1]
        BY <2>1, <1>3
      <4>4. \A j \in 1..n + 1 :
              jobs'[c][j].task = jobs[c][i].task /\ jobs'[c][j].call # "rollback" => i = j
        BY <4>2, <1>3, <1>6
      <4>5. /\ i < n + 1 /\ jobs'[c][i + 1].call = "rollback"
            /\ jobs'[c][i + 1].task = jobs[c][i].task
            /\ \/ task'[jobs[c][i].task].at = "undo" /\ task'[jobs[c][i].task].cancelled
               \/ task'[jobs[c][i].task].at = "cancelled"
        <5>1. CASE i = n /\ task[jobs[c][i].task].at = "call"
          <6>1. jobs[c][i].task = t
            BY <5>1, <3>1, <3>2, <1>4
          <6>2. task[t].cancelled /\ i < n + 1
            BY <2>1, <1>3, <1>5, <6>1
          <6> QED
            BY <5>1, <6>1, <6>2, <1>3
        <5>2. CASE ~(i = n /\ task[jobs[c][i].task].at = "call")
          <6>1. /\ i < n /\ i + 1 \in 1..n /\ i < n + 1
                /\ jobs[c][i + 1].call = "rollback" /\ jobs[c][i + 1].task = jobs[c][i].task
            BY <5>2, <4>1, <2>1, <1>3
          <6>2. jobs[c][i].task # t
            BY <5>2, <4>1
          <6> QED
            BY <5>2, <6>1, <6>2, <4>1, <3>2, <1>3
        <5> QED
          BY <5>1, <5>2
      <4> QED
        BY <3>1, <3>2, <4>2, <4>3, <4>4, <4>5, <1>3 DEF JobInv
    <3> QED
      BY <3>3, <3>4
  <2>2. CASE i = n + 1
    <3>1. jobs'[c][i].task = t /\ jobs'[c][i].call = "rollback"
      BY <2>2, <1>3
    <3> QED
      BY <3>1, <1>1 DEF JobInv
  <2> QED
    BY <2>1, <2>2, <1>3, <1>6
<1>9. \A u \in Tasks : ~(Lane[u] = c /\ task'[u].at = "call")
  BY <1>2, <1>4
<1>10. TxInv(c)'
  <2>1. TxInv(c)
    BY DEF WriterInv, RowsInv
  <2>2. CASE n = 0
    <3>1. jobs'[c][1].task = t /\ jobs'[c][1].call = "rollback" /\ jobs[c] = <<>>
      BY <2>2, <1>3
    <3>2. \A i \in 1..Len(tx[c].rows) : tx[c].rows[i].task = t
      BY <2>1, <3>1, <1>1 DEF TxInv
    <3> QED
      BY <3>1, <3>2, <1>2, <1>3 DEF TxInv
  <2>3. CASE n # 0
    <3>1. 1 \in 1..n /\ jobs[c] # <<>>
      BY <2>3, <1>3
    <3>2. jobs'[c][1] = jobs[c][1]
      BY <3>1, <1>3
    <3> QED
      BY <2>1, <3>1, <3>2, <1>2, <1>3 DEF TxInv
  <2> QED
    BY <2>2, <2>3
<1>11. TaskInv(t)'
  <2>1. TaskInv(t) /\ RowsOf(t)' = RowsOf(t)
    BY <1>2 DEF WriterInv, CommitInv, RowsOf
  <2>2. RowsOf(t) # {} => task[t].answer = "ok" /\ task[t].cancelled
    BY <2>1 DEF TaskInv, PastCommit
  <2>3. RowsOf(t) # {} => PastCommit(t)'
    BY <2>2 DEF PastCommit
  <2>4. \A i \in 1..n + 1 : RowsOf(t) # {} /\ jobs'[c][i].task = t => jobs'[c][i].call = "rollback"
    BY <2>1, <1>1, <1>3, <1>6 DEF TaskInv, n
  <2> QED
    BY <2>1, <2>3, <2>4, <1>1, <1>3 DEF TaskInv
<1>12. \A i \in 1..Len(jobs'[c]) : jobs'[c][i].task = t
         \/ \E k \in 1..Len(jobs[c]) : jobs'[c][i] = jobs[c][k]
  BY <1>3, <1>6 DEF n
<1> QED
  BY <1>1, <1>7, <1>8, <1>9, <1>10, <1>11, <1>12, TaskStepKeeps
-----------------------------------------------------------------------------
(* The actions of a task.                                                   *)

\* The record of a task after an action has set some of its fields.
LEMMA FreshIs ==
  ASSUME StoreAssumption, NEW how \in {"idle", "done", "failed", "cancelled"}
  PROVE  /\ [Fresh EXCEPT !.at = how] \in TaskRecords
         /\ [Fresh EXCEPT !.at = how].at = how
<1>1. <<>> \in Seq(CallNames) /\ 1 \in 1..Attempts
  BY EmptySeq DEF StoreAssumption
<1>2. Fresh \in TaskRecords
  BY <1>1 DEF Fresh, TaskRecords
<1>3. \A r \in TaskRecords : [r EXCEPT !.at = how] \in TaskRecords /\ [r EXCEPT !.at = how].at = how
  BY DEF TaskRecords
<1> QED
  BY <1>2, <1>3

LEMMA EndedIs ==
  ASSUME StoreAssumption, WriterInv, NEW t \in Tasks,
         NEW how \in {"idle", "done", "failed", "cancelled"}, task' = Ended(t, how)
  PROVE  /\ task' \in [Tasks -> TaskRecords] /\ task'[t].at = how
         /\ \A u \in Tasks : u # t => task'[u] = task[u]
<1>1. /\ [Fresh EXCEPT !.at = how] \in TaskRecords /\ [Fresh EXCEPT !.at = how].at = how
      /\ task \in [Tasks -> TaskRecords]
  BY FreshIs, TaskIs
<1> QED
  BY <1>1 DEF Ended

\* The lane's gate and who is at a call or a rollback.
LEMMA GateSame ==
  ASSUME WriterInv, NEW t \in Tasks, gate' = gate,
         \A u \in Tasks : u # t => task'[u] = task[u],
         task'[t].at \in {"call", "undo"} <=> task[t].at \in {"call", "undo"}
  PROVE  GateInv' /\ gate' \in [Gates -> Tasks \cup {"free"}]
<1>1. \A u \in Tasks : task'[u].at \in {"call", "undo"} <=> task[u].at \in {"call", "undo"}
  OBVIOUS
<1> QED
  BY <1>1 DEF WriterInv, GateInv, GateOf, StateTypes

LEMMA GateFreed ==
  ASSUME StoreAssumption, WriterInv, NEW t \in Tasks,
         gate' = [gate EXCEPT ![GateOf(t)] = "free"],
         \A u \in Tasks : u # t => task'[u] = task[u],
         task[t].at \in {"call", "undo"}, task'[t].at \notin {"call", "undo"}
  PROVE  GateInv' /\ gate' \in [Gates -> Tasks \cup {"free"}]
<1>1. gate \in [Gates -> Tasks \cup {"free"}] /\ GateOf(t) \in Gates
  BY PlacesAre DEF WriterInv, StateTypes
<1>2. gate' \in [Gates -> Tasks \cup {"free"}]
  BY <1>1
<1>3. ASSUME NEW u \in Tasks
      PROVE  task'[u].at \in {"call", "undo"} <=> gate'[GateOf(u)] = u
  <2>1. (task[u].at \in {"call", "undo"} <=> gate[GateOf(u)] = u) /\ gate[GateOf(t)] = t
    BY DEF WriterInv, GateInv
  <2>2. u # "free" /\ GateOf(u) \in Gates
    BY PlacesAre DEF StoreAssumption
  <2>3. CASE GateOf(u) = GateOf(t)
    BY <1>1, <2>1, <2>2, <2>3
  <2>4. CASE GateOf(u) # GateOf(t)
    BY <1>1, <2>1, <2>2, <2>4
  <2> QED
    BY <2>3, <2>4
<1>4. GateInv'
  BY <1>3 DEF GateInv, GateOf
<1> QED
  BY <1>2, <1>4

LEMMA GateTaken ==
  ASSUME StoreAssumption, WriterInv, NEW t \in Tasks,
         gate[GateOf(t)] = "free", gate' = [gate EXCEPT ![GateOf(t)] = t],
         \A u \in Tasks : u # t => task'[u] = task[u], task'[t].at = "call"
  PROVE  GateInv' /\ gate' \in [Gates -> Tasks \cup {"free"}]
<1>1. gate \in [Gates -> Tasks \cup {"free"}] /\ GateOf(t) \in Gates
  BY PlacesAre DEF WriterInv, StateTypes
<1>2. gate' \in [Gates -> Tasks \cup {"free"}]
  BY <1>1
<1>3. ASSUME NEW u \in Tasks
      PROVE  task'[u].at \in {"call", "undo"} <=> gate'[GateOf(u)] = u
  <2>1. task[u].at \in {"call", "undo"} <=> gate[GateOf(u)] = u
    BY DEF WriterInv, GateInv
  <2>2. u # "free" /\ GateOf(u) \in Gates
    BY PlacesAre DEF StoreAssumption
  <2>3. CASE GateOf(u) = GateOf(t)
    BY <1>1, <2>1, <2>2, <2>3
  <2>4. CASE GateOf(u) # GateOf(t)
    BY <1>1, <2>1, <2>2, <2>4
  <2> QED
    BY <2>3, <2>4
<1>4. GateInv'
  BY <1>3 DEF GateInv, GateOf
<1> QED
  BY <1>2, <1>4

\* A task that has not begun its calls has none in the queue.
LEMMA NoJobsBefore ==
  ASSUME StoreAssumption, WriterInv, NEW t \in Tasks, task[t].at \in {"idle", "gate"}
  PROVE  \A i \in 1..Len(jobs[Lane[t]]) : jobs[Lane[t]][i].task # t
<1>1. PICK c \in Connections : c = Lane[t]
  BY PlacesAre
<1>2. ASSUME NEW i \in 1..Len(jobs[c]), jobs[c][i].task = t
      PROVE  FALSE
  BY <1>2 DEF WriterInv, QueueInv, JobInv
<1> QED
  BY <1>1, <1>2

\* A task that has not reached the end of its calls has committed nothing.
LEMMA NothingCommitted ==
  ASSUME WriterInv, NEW t \in Tasks, ~PastCommit(t)
  PROVE  RowsOf(t) = {}
BY DEF WriterInv, CommitInv, TaskInv

LEMMA NothingYet ==
  ASSUME NEW t \in Tasks, RowsOf(t) = {}, committed' = committed,
         ~(task'[t].at = "done"),
         ~(task'[t].at = "call" /\ task'[t].answer = "ok" /\ Len(task'[t].calls) = 0)
  PROVE  TaskInv(t)'
<1>1. RowsOf(t)' = {}
  BY DEF RowsOf
<1>2. Cardinality(RowsOf(t))' = 0
  BY <1>1, FS_EmptySet
<1> QED
  BY <1>1, <1>2 DEF TaskInv

LEMMA BeginKeeps ==
  ASSUME StoreAssumption, WriterInv, NEW t \in Tasks, Begin(t)
  PROVE  WriterInv'
<1>1. PICK form \in {"implicit", "begin"} :
        task' = [task EXCEPT ![t] = [[task[t] EXCEPT !.at = "gate"] EXCEPT !.form = form]]
  BY TaskIs DEF Begin
<1>2. /\ task' \in [Tasks -> TaskRecords] /\ task'[t].at = "gate"
      /\ \A u \in Tasks : u # t => task'[u] = task[u]
  <2>1. \A r \in TaskRecords : [[r EXCEPT !.at = "gate"] EXCEPT !.form = form] \in TaskRecords
          /\ [[r EXCEPT !.at = "gate"] EXCEPT !.form = form].at = "gate"
    BY DEF TaskRecords
  <2> QED
    BY <1>1, <2>1, TaskIs DEF WriterInv, StateTypes
<1>3. /\ task[t].at = "idle" /\ gate' = gate /\ jobs' = jobs /\ committed' = committed
  BY DEF Begin
<1>4. GateInv' /\ gate' \in [Gates -> Tasks \cup {"free"}]
  BY <1>2, <1>3, GateSame
<1>5. TaskStep(t)
  BY <1>2, <1>3, <1>4, QueueIs, FaultIs DEF TaskStep, Begin, WriterInv, StateTypes
<1>6. \A i \in 1..Len(jobs[Lane[t]]) : jobs[Lane[t]][i].task # t
  BY <1>3, NoJobsBefore
<1>7. TaskInv(t)'
  BY <1>2, <1>3, NothingCommitted, NothingYet DEF PastCommit
<1> QED
  BY <1>2, <1>3, <1>4, <1>5, <1>6, <1>7, SameQueue

LEMMA EnterKeeps ==
  ASSUME StoreAssumption, WriterInv, NEW t \in Tasks, Enter(t)
  PROVE  WriterInv'
<1>1. PICK c \in Connections : c = Lane[t]
  BY PlacesAre
<1>2. PICK q \in Seq(CallNames) :
        /\ q = Calls(task[t].form) /\ q # <<>> /\ Len(q) \in {3, 4}
        /\ \A i \in 1..Len(q) : q[i] = Issued(Len(q) - i)
        /\ q[1] \in {"begin", "first"}
  BY TaskIs, CallsOf
<1>3. /\ task[t].at = "gate" /\ gate[GateOf(t)] = "free"
      /\ gate' = [gate EXCEPT ![GateOf(t)] = t]
      /\ Queued(t, Head(q))
      /\ task' = [task EXCEPT ![t] =
                   [[[task[t] EXCEPT !.at = "call"] EXCEPT !.calls = Tail(q)] EXCEPT !.answer = "none"]]
      /\ tx' = tx /\ writer' = writer /\ identity' = identity /\ committed' = committed
      /\ storeFaults' = storeFaults
  BY <1>2, TaskIs DEF Enter
<1>4. /\ Head(q) = Issued(Len(q) - 1) /\ Head(q) \in CallNames
      /\ Tail(q) \in Seq(CallNames) /\ Len(Tail(q)) = Len(q) - 1 /\ Len(Tail(q)) \in 0..3
      /\ \A i \in 1..Len(Tail(q)) : Tail(q)[i] = Issued(Len(Tail(q)) - i)
      /\ Head(q) = q[1]
  BY <1>2, NextCall, TailOf
<1>5. PICK call \in CallNames, rest \in Seq(CallNames) :
        /\ call = Head(q) /\ rest = Tail(q) /\ call = Issued(Len(rest))
        /\ Len(rest) \in 0..3 /\ \A i \in 1..Len(rest) : rest[i] = Issued(Len(rest) - i)
        /\ call \in {"begin", "first"}
  BY <1>2, <1>4
<1>6. /\ task' \in [Tasks -> TaskRecords] /\ \A u \in Tasks : u # t => task'[u] = task[u]
      /\ task'[t].at = "call" /\ task'[t].calls = rest /\ task'[t].answer = "none"
  <2>1. \A r \in TaskRecords :
          /\ [[[r EXCEPT !.at = "call"] EXCEPT !.calls = rest] EXCEPT !.answer = "none"] \in TaskRecords
          /\ [[[r EXCEPT !.at = "call"] EXCEPT !.calls = rest] EXCEPT !.answer = "none"].at = "call"
          /\ [[[r EXCEPT !.at = "call"] EXCEPT !.calls = rest] EXCEPT !.answer = "none"].calls = rest
          /\ [[[r EXCEPT !.at = "call"] EXCEPT !.calls = rest] EXCEPT !.answer = "none"].answer = "none"
    BY DEF TaskRecords
  <2>2. task' = [task EXCEPT ![t] =
                  [[[task[t] EXCEPT !.at = "call"] EXCEPT !.calls = rest] EXCEPT !.answer = "none"]]
    BY <1>3, <1>5, Zenon
  <2>3. task[t] \in TaskRecords /\ task \in [Tasks -> TaskRecords]
    BY TaskIs DEF WriterInv, StateTypes
  <2>4. PICK r \in TaskRecords : task' = [task EXCEPT ![t] = r]
                                 /\ r.at = "call" /\ r.calls = rest /\ r.answer = "none"
    BY <2>1, <2>2, <2>3, Zenon
  <2> QED
    BY <2>3, <2>4
<1>7. Queued(t, call)
  BY <1>3, <1>5
<1>8. GateInv' /\ gate' \in [Gates -> Tasks \cup {"free"}]
  BY <1>3, <1>6, GateTaken
<1>9. TaskStep(t)
  <2>1. /\ jobs' \in [Connections -> Seq(Jobs)]
        /\ \A d \in Connections : d # Lane[t] => jobs'[d] = jobs[d]
    BY <1>1, <1>7, QueuedIs
  <2>2. FaultsOk
    BY <1>3, FaultIs
  <2> QED
    BY <1>3, <1>6, <1>8, <2>1, <2>2 DEF TaskStep
<1>10. InOrder(t)'
  BY <1>5, <1>6 DEF InOrder
<1>11. \A u \in Tasks : Lane[u] = c => task[u].at # "call"
  <2>1. ASSUME NEW u \in Tasks, Lane[u] = c, task[u].at = "call"
        PROVE  FALSE
    <3>1. gate[GateOf(u)] = u /\ GateOf(u) = GateOf(t)
      BY <1>1, <2>1 DEF WriterInv, GateInv, GateOf
    <3> QED
      BY <1>3, <3>1 DEF StoreAssumption
  <2> QED
    BY <2>1
<1>12. \A i \in 1..Len(jobs[c]) : jobs[c][i].task # t
         /\ (i = Len(jobs[c]) => jobs[c][i].call = "rollback" /\ call \in {"begin", "first"})
  <2>1. ASSUME NEW i \in 1..Len(jobs[c]), i = Len(jobs[c]), jobs[c][i].call # "rollback"
        PROVE  FALSE
    <3>1. JobInv(c, i) /\ jobs[c][i].task \in Tasks
      BY QueueIs DEF WriterInv, QueueInv
    <3>2. Lane[jobs[c][i].task] = c /\ task[jobs[c][i].task].at = "call"
      BY <2>1, <3>1 DEF JobInv
    <3> QED
      BY <3>1, <3>2, <1>11
  <2> QED
    BY <2>1, <1>1, <1>3, <1>5, NoJobsBefore
<1>13. jobs[c] = <<>> =>
         /\ \A i \in 1..Len(tx[c].rows) : tx[c].rows[i].task = t
         /\ Len(tx[c].rows) = RowsBefore(call)
  <2> SUFFICES ASSUME jobs[c] = <<>>
               PROVE  /\ \A i \in 1..Len(tx[c].rows) : tx[c].rows[i].task = t
                      /\ Len(tx[c].rows) = RowsBefore(call)
    OBVIOUS
  <2>1. tx[c].rows = <<>>
    BY <1>11 DEF WriterInv, RowsInv, TxInv
  <2>2. Len(tx[c].rows) = 0 /\ RowsBefore(call) = 0
    BY <2>1, <1>5, EmptySeq DEF RowsBefore
  <2> QED
    BY <2>2
<1>14. RowsOf(t) = {}
  BY <1>3, NothingCommitted DEF PastCommit
<1>15. call = Issued(Len(task'[t].calls)) /\ task'[t].at = "call" /\ task'[t].answer = "none"
  BY <1>5, <1>6
<1> QED
  BY <1>1, <1>7, <1>8, <1>9, <1>10, <1>11, <1>12, <1>13, <1>14, <1>15, IssueKeeps

LEMMA ContinueKeeps ==
  ASSUME StoreAssumption, WriterInv, NEW t \in Tasks, Continue(t)
  PROVE  WriterInv'
<1>1. PICK c \in Connections : c = Lane[t]
  BY PlacesAre
<1>2. /\ task[t].at = "call" /\ task[t].answer = "ok"
      /\ tx' = tx /\ writer' = writer /\ identity' = identity /\ committed' = committed
      /\ storeFaults' = storeFaults
  BY DEF Continue
<1>3. jobs[c] = <<>> /\ InOrder(t)
  BY <1>1, <1>2 DEF WriterInv, WaitInv, CallsInv, InOrder
<1>4. /\ \A i \in 1..Len(tx[c].rows) : tx[c].rows[i].task = t
      /\ Len(tx[c].rows) = RowsAfter(Len(task[t].calls))
  BY <1>1, <1>2, <1>3 DEF WriterInv, RowsInv, TxInv
<1>5. FaultsOk
  BY <1>2, FaultIs
<1>6. PICK q \in Seq(CallNames) : q = task[t].calls
  BY TaskIs
<1>7. /\ Len(q) \in 0..3 /\ \A i \in 1..Len(q) : q[i] = Issued(Len(q) - i)
      /\ q = <<>> <=> Len(q) = 0
  BY <1>3, <1>6, EmptyOrNot DEF InOrder
<1>8. Len(jobs[c]) = 0
  BY <1>3, EmptySeq
<1>9. CASE q = <<>>
  <2>1. task' = Ended(t, "done") /\ gate' = [gate EXCEPT ![GateOf(t)] = "free"] /\ jobs' = jobs
    BY <1>6, <1>9 DEF Continue
  <2>2. /\ task' \in [Tasks -> TaskRecords] /\ task'[t].at = "done"
        /\ \A u \in Tasks : u # t => task'[u] = task[u]
    BY <2>1, EndedIs
  <2>3. GateInv' /\ gate' \in [Gates -> Tasks \cup {"free"}]
    BY <1>2, <2>1, <2>2, GateFreed
  <2>4. TaskStep(t)
    BY <1>2, <1>5, <2>1, <2>2, <2>3, QueueIs DEF TaskStep, WriterInv, StateTypes
  <2>5. tx[c].rows = <<>>
    <3>1. Len(tx[c].rows) = 0
      BY <1>4, <1>6, <1>7, <1>9, RowsAfterFacts
    <3>2. tx[c].rows \in Seq(RowSet)
      BY DEF WriterInv, StateTypes
    <3> QED
      BY <3>1, <3>2, EmptyOrNot
  <2>6. TaskInv(t)'
    <3>1. TaskInv(t) /\ RowsOf(t)' = RowsOf(t)
      BY <1>2 DEF WriterInv, CommitInv, RowsOf
    <3>2. Cardinality(RowsOf(t)) = 2
      BY <1>2, <1>6, <1>7, <1>9, <3>1 DEF TaskInv
    <3>3. \A i \in 1..Len(jobs'[Lane[t]]) : FALSE
      BY <1>1, <1>8, <2>1
    <3>4. PastCommit(t)'
      BY <2>2 DEF PastCommit
    <3> QED
      BY <3>1, <3>2, <3>3, <3>4 DEF TaskInv
  <2>7. \A i \in 1..Len(jobs[c]) : jobs[c][i].task # t
    BY <1>8
  <2> QED
    BY <1>1, <1>3, <2>1, <2>2, <2>3, <2>4, <2>5, <2>6, <2>7, SameQueue
<1>10. CASE q # <<>>
  <2>1. /\ Queued(t, Head(q)) /\ gate' = gate
        /\ task' = [task EXCEPT ![t] = [[task[t] EXCEPT !.calls = Tail(q)] EXCEPT !.answer = "none"]]
    BY <1>6, <1>10, TaskIs DEF Continue
  <2>2. /\ Head(q) = Issued(Len(q) - 1) /\ Head(q) \in CallNames
        /\ Tail(q) \in Seq(CallNames) /\ Len(Tail(q)) = Len(q) - 1 /\ Len(Tail(q)) \in 0..3
        /\ \A i \in 1..Len(Tail(q)) : Tail(q)[i] = Issued(Len(Tail(q)) - i)
    BY <1>7, <1>10, NextCall
  <2>3. PICK call \in CallNames, rest \in Seq(CallNames) :
          /\ call = Head(q) /\ rest = Tail(q) /\ call = Issued(Len(rest))
          /\ Len(rest) \in 0..3 /\ \A i \in 1..Len(rest) : rest[i] = Issued(Len(rest) - i)
          /\ Len(rest) = Len(q) - 1
    BY <2>2
  <2>4. /\ task' \in [Tasks -> TaskRecords] /\ \A u \in Tasks : u # t => task'[u] = task[u]
        /\ task'[t].at = "call" /\ task'[t].calls = rest /\ task'[t].answer = "none"
    <3>1. \A r \in TaskRecords :
            /\ [[r EXCEPT !.calls = rest] EXCEPT !.answer = "none"] \in TaskRecords
            /\ [[r EXCEPT !.calls = rest] EXCEPT !.answer = "none"].at = r.at
            /\ [[r EXCEPT !.calls = rest] EXCEPT !.answer = "none"].calls = rest
            /\ [[r EXCEPT !.calls = rest] EXCEPT !.answer = "none"].answer = "none"
      BY DEF TaskRecords
    <3>2. task' = [task EXCEPT ![t] = [[task[t] EXCEPT !.calls = rest] EXCEPT !.answer = "none"]]
      BY <2>1, <2>3, Zenon
    <3>3. task[t] \in TaskRecords /\ task \in [Tasks -> TaskRecords]
      BY TaskIs DEF WriterInv, StateTypes
    <3>4. PICK r \in TaskRecords : task' = [task EXCEPT ![t] = r]
                                   /\ r.at = task[t].at /\ r.calls = rest /\ r.answer = "none"
      BY <3>1, <3>2, <3>3, Zenon
    <3> QED
      BY <1>2, <3>3, <3>4
  <2>5. Queued(t, call)
    BY <2>1, <2>3
  <2>6. GateInv' /\ gate' \in [Gates -> Tasks \cup {"free"}]
    BY <1>2, <2>1, <2>4, GateSame
  <2>7. TaskStep(t)
    <3>1. /\ jobs' \in [Connections -> Seq(Jobs)]
          /\ \A d \in Connections : d # Lane[t] => jobs'[d] = jobs[d]
      BY <1>1, <2>5, QueuedIs
    <3> QED
      BY <1>2, <1>5, <2>4, <2>6, <3>1 DEF TaskStep
  <2>8. InOrder(t)'
    BY <2>3, <2>4 DEF InOrder
  <2>9. \A u \in Tasks : Lane[u] = Lane[t] /\ task[u].at = "call" => u = t
    BY <1>2, OneOnLane
  <2>10. Len(tx[c].rows) = RowsBefore(call)
    <3>1. Len(q) \in 1..3
      BY <1>7, <1>10
    <3>2. RowsBefore(Issued(Len(q) - 1)) = RowsAfter(Len(q))
      BY <3>1, RowsMeet
    <3> QED
      BY <1>4, <1>6, <2>3, <3>2
  <2>11. RowsOf(t) = {}
    BY <1>2, <1>6, <1>7, <1>10, NothingCommitted DEF PastCommit
  <2>12. \A i \in 1..Len(jobs[c]) : jobs[c][i].task # t
           /\ (i = Len(jobs[c]) => jobs[c][i].call = "rollback" /\ call \in {"begin", "first"})
    BY <1>8
  <2>13. call = Issued(Len(task'[t].calls)) /\ task'[t].at = "call" /\ task'[t].answer = "none"
    BY <2>3, <2>4
  <2> QED
    BY <1>1, <1>4, <2>5, <2>6, <2>7, <2>8, <2>9, <2>10, <2>11, <2>12, <2>13, IssueKeeps
<1> QED
  BY <1>9, <1>10

LEMMA LeaveKeeps ==
  ASSUME StoreAssumption, WriterInv, NEW t \in Tasks, Leave(t)
  PROVE  WriterInv'
<1>1. PICK c \in Connections : c = Lane[t]
  BY PlacesAre
<1>2. /\ task[t].at = "call" /\ task[t].answer # "none"
      /\ task[t].answer # "ok" \/ task[t].cancelled
      /\ Queued(t, "rollback") /\ gate' = gate /\ storeFaults' = storeFaults
      /\ tx' = tx /\ writer' = writer /\ identity' = identity /\ committed' = committed
      /\ task' = [task EXCEPT ![t] = [task[t] EXCEPT !.at = "undo"]]
  BY DEF Leave, Undo
<1>3. /\ task' \in [Tasks -> TaskRecords] /\ \A u \in Tasks : u # t => task'[u] = task[u]
      /\ task'[t].at = "undo" /\ task'[t].cancelled = task[t].cancelled
  <2>1. \A r \in TaskRecords : /\ [r EXCEPT !.at = "undo"] \in TaskRecords
                               /\ [r EXCEPT !.at = "undo"].at = "undo"
                               /\ [r EXCEPT !.at = "undo"].cancelled = r.cancelled
    BY DEF TaskRecords
  <2> QED
    BY <1>2, <2>1 DEF WriterInv, StateTypes
<1>4. TaskStep(t)
  <2>1. gate' \in [Gates -> Tasks \cup {"free"}]
    BY <1>2, <1>3, GateSame
  <2>2. /\ jobs' \in [Connections -> Seq(Jobs)]
        /\ \A d \in Connections : d # Lane[t] => jobs'[d] = jobs[d]
    BY <1>1, <1>2, QueuedIs
  <2>3. FaultsOk
    BY <1>2, FaultIs
  <2> QED
    BY <1>2, <1>3, <2>1, <2>2, <2>3 DEF TaskStep
<1> QED
  BY <1>2, <1>3, <1>4, UndoKeeps

\* The end of a rollback, or of the wait for it: what is left of the task.
LEMMA UndoneKeeps ==
  ASSUME StoreAssumption, WriterInv, NEW t \in Tasks, Undone(t)
  PROVE  WriterInv'
<1>1. PICK c \in Connections : c = Lane[t]
  BY PlacesAre
<1>2. /\ task[t].at = "undo" /\ Freed(t)
      /\ tx' = tx /\ writer' = writer /\ identity' = identity /\ committed' = committed
      /\ storeFaults' = storeFaults /\ jobs' = jobs
  BY DEF Undone
<1>3. \A i \in 1..Len(jobs[c]) : jobs[c][i].task # t
  <2>1. jobs[c] \in Seq(Jobs)
    BY QueueIs
  <2>2. DOMAIN jobs[c] = 1..Len(jobs[c])
    BY <2>1
  <2> QED
    BY <1>1, <2>2 DEF Undone
<1>4. gate' = [gate EXCEPT ![GateOf(t)] = "free"]
  BY <1>2 DEF Freed
<1>5. /\ task' \in [Tasks -> TaskRecords] /\ \A u \in Tasks : u # t => task'[u] = task[u]
      /\ task'[t].at \in {"gate", "cancelled", "failed"}
      /\ task[t].cancelled => task'[t].at = "cancelled"
  <2> DEFINE again == ~task[t].cancelled /\ Retried(task[t].answer) /\ task[t].try < Attempts
  <2>1. CASE again
    <3>1. task' = [task EXCEPT ![t] =
            [[[task[t] EXCEPT !.at = "gate"] EXCEPT !.try = task[t].try + 1] EXCEPT !.answer = "none"]]
      BY <1>2, <2>1, TaskIs DEF Freed
    <3>2. task[t].try \in 1..Attempts /\ task[t].try < Attempts /\ Attempts \in Nat
      BY <2>1, TaskIs DEF StoreAssumption
    <3>3. task[t].try + 1 \in 1..Attempts
      BY <3>2
    <3>4. PICK k \in 1..Attempts : k = task[t].try + 1
      BY <3>3
    <3>5. \A r \in TaskRecords :
            /\ [[[r EXCEPT !.at = "gate"] EXCEPT !.try = k] EXCEPT !.answer = "none"] \in TaskRecords
            /\ [[[r EXCEPT !.at = "gate"] EXCEPT !.try = k] EXCEPT !.answer = "none"].at = "gate"
      BY DEF TaskRecords
    <3>6. task' = [task EXCEPT ![t] =
            [[[task[t] EXCEPT !.at = "gate"] EXCEPT !.try = k] EXCEPT !.answer = "none"]]
      BY <3>1, <3>4, Zenon
    <3>7. task[t] \in TaskRecords /\ task \in [Tasks -> TaskRecords]
      BY TaskIs DEF WriterInv, StateTypes
    <3>8. PICK r \in TaskRecords : task' = [task EXCEPT ![t] = r] /\ r.at = "gate"
      BY <3>5, <3>6, <3>7, Zenon
    <3> QED
      BY <2>1, <3>7, <3>8
  <2>2. CASE ~again
    <3>1. task' = Ended(t, IF task[t].cancelled THEN "cancelled" ELSE "failed")
      BY <1>2, <2>2 DEF Freed
    <3>2. PICK how \in {"idle", "done", "failed", "cancelled"} :
            /\ task' = Ended(t, how) /\ how \in {"cancelled", "failed"}
            /\ task[t].cancelled => how = "cancelled"
      BY <3>1
    <3> QED
      BY <3>2, EndedIs
  <2> QED
    BY <2>1, <2>2
<1>6. GateInv' /\ gate' \in [Gates -> Tasks \cup {"free"}]
  BY <1>2, <1>4, <1>5, GateFreed
<1>7. TaskStep(t)
  BY <1>2, <1>5, <1>6, FaultIs, QueueIs DEF TaskStep, WriterInv, StateTypes
<1>8. TaskInv(t)'
  <2>1. CASE RowsOf(t) = {}
    BY <1>2, <1>5, <2>1, NothingYet
  <2>2. CASE RowsOf(t) # {}
    <3>1. PastCommit(t) /\ TaskInv(t) /\ RowsOf(t)' = RowsOf(t)
      BY <1>2, <2>2, NothingCommitted DEF WriterInv, CommitInv, RowsOf
    <3>2. task'[t].at = "cancelled"
      BY <1>2, <1>5, <3>1 DEF PastCommit
    <3>3. PastCommit(t)'
      BY <3>2 DEF PastCommit
    <3> QED
      BY <1>2, <3>1, <3>2, <3>3 DEF TaskInv
  <2> QED
    BY <2>1, <2>2
<1> QED
  BY <1>1, <1>2, <1>3, <1>5, <1>6, <1>7, <1>8, SameQueue

LEMMA CancelKeeps ==
  ASSUME StoreAssumption, WriterInv, NEW t \in Tasks, Cancel(t)
  PROVE  WriterInv'
<1>1. /\ StoreFault /\ task[t].at \in {"gate", "call"} /\ gate' = gate /\ jobs' = jobs
      /\ tx' = tx /\ writer' = writer /\ identity' = identity /\ committed' = committed
  BY DEF Cancel
<1>2. CASE task[t].at = "gate"
  <2>1. /\ task' \in [Tasks -> TaskRecords] /\ task'[t].at = "cancelled"
        /\ \A u \in Tasks : u # t => task'[u] = task[u]
    <3>1. task' = Ended(t, "cancelled")
      BY <1>2 DEF Cancel
    <3> QED
      BY <3>1, EndedIs
  <2>2. GateInv' /\ gate' \in [Gates -> Tasks \cup {"free"}]
    BY <1>1, <1>2, <2>1, GateSame
  <2>3. TaskStep(t)
    BY <1>1, <2>1, <2>2, FaultIs, QueueIs DEF TaskStep, WriterInv, StateTypes
  <2>4. TaskInv(t)'
    BY <1>1, <1>2, <2>1, NothingCommitted, NothingYet DEF PastCommit
  <2>5. \A i \in 1..Len(jobs[Lane[t]]) : jobs[Lane[t]][i].task # t
    BY <1>2, NoJobsBefore
  <2> QED
    BY <1>1, <1>2, <2>1, <2>2, <2>3, <2>4, <2>5, SameQueue
<1>3. CASE task[t].at = "call"
  <2>1. /\ task' \in [Tasks -> TaskRecords] /\ \A u \in Tasks : u # t => task'[u] = task[u]
        /\ task'[t].at = task[t].at /\ task'[t].answer = task[t].answer
        /\ task'[t].calls = task[t].calls /\ task'[t].cancelled = TRUE
    <3>1. task' = [task EXCEPT ![t] = [task[t] EXCEPT !.cancelled = TRUE]]
      BY <1>3 DEF Cancel
    <3>2. \A r \in TaskRecords :
            /\ [r EXCEPT !.cancelled = TRUE] \in TaskRecords
            /\ [r EXCEPT !.cancelled = TRUE].at = r.at
            /\ [r EXCEPT !.cancelled = TRUE].answer = r.answer
            /\ [r EXCEPT !.cancelled = TRUE].calls = r.calls
            /\ [r EXCEPT !.cancelled = TRUE].cancelled = TRUE
      BY DEF TaskRecords
    <3>3. task[t] \in TaskRecords /\ task \in [Tasks -> TaskRecords]
      BY TaskIs DEF WriterInv, StateTypes
    <3>4. PICK r \in TaskRecords :
            /\ task' = [task EXCEPT ![t] = r] /\ r.at = task[t].at /\ r.answer = task[t].answer
            /\ r.calls = task[t].calls /\ r.cancelled = TRUE
      BY <3>1, <3>2, <3>3, Zenon
    <3> QED
      BY <3>3, <3>4
  <2>2. GateInv' /\ gate' \in [Gates -> Tasks \cup {"free"}]
    BY <1>1, <1>3, <2>1, GateSame
  <2>3. TaskStep(t)
    BY <1>1, <2>1, <2>2, FaultIs, QueueIs DEF TaskStep, WriterInv, StateTypes
  <2>4. TaskInv(t)'
    <3>1. TaskInv(t) /\ RowsOf(t)' = RowsOf(t)
      BY <1>1 DEF WriterInv, CommitInv, RowsOf
    <3>2. PastCommit(t) => PastCommit(t)'
      BY <1>3, <2>1 DEF PastCommit
    <3> QED
      BY <1>1, <2>1, <3>1, <3>2 DEF TaskInv
  <2>5. task[t].cancelled => task'[t].cancelled
    BY <2>1
  <2>6. task'[t].at = "call" => task[t].at = "call" /\ task'[t].answer = task[t].answer
                                /\ task'[t].calls = task[t].calls
    BY <1>3, <2>1
  <2> QED
    BY <1>1, <1>3, <2>1, <2>2, <2>3, <2>4, <2>5, <2>6, SameQueue
<1> QED
  BY <1>1, <1>2, <1>3

LEMMA AbandonKeeps ==
  ASSUME StoreAssumption, WriterInv, NEW t \in Tasks, Abandon(t)
  PROVE  WriterInv'
<1>1. PICK c \in Connections : c = Lane[t]
  BY PlacesAre
<1>2. StoreFault /\ tx' = tx /\ writer' = writer /\ identity' = identity /\ committed' = committed
  BY DEF Abandon
<1>3. CASE /\ task[t].at = "call" /\ task[t].cancelled /\ task[t].answer = "none"
           /\ Undo(t) /\ task' = [task EXCEPT ![t].at = "undo"] /\ UNCHANGED gate
  <2>1. Queued(t, "rollback") /\ gate' = gate
        /\ task' = [task EXCEPT ![t] = [task[t] EXCEPT !.at = "undo"]]
    BY <1>3 DEF Undo
  <2>2. /\ task' \in [Tasks -> TaskRecords] /\ \A u \in Tasks : u # t => task'[u] = task[u]
        /\ task'[t].at = "undo" /\ task'[t].cancelled = task[t].cancelled
    <3>1. \A r \in TaskRecords : /\ [r EXCEPT !.at = "undo"] \in TaskRecords
                                 /\ [r EXCEPT !.at = "undo"].at = "undo"
                                 /\ [r EXCEPT !.at = "undo"].cancelled = r.cancelled
      BY DEF TaskRecords
    <3> QED
      BY <2>1, <3>1 DEF WriterInv, StateTypes
  <2>3. TaskStep(t)
    <3>1. gate' \in [Gates -> Tasks \cup {"free"}]
      BY <1>3, <2>1, <2>2, GateSame
    <3>2. /\ jobs' \in [Connections -> Seq(Jobs)]
          /\ \A d \in Connections : d # Lane[t] => jobs'[d] = jobs[d]
      BY <1>1, <2>1, QueuedIs
    <3>3. FaultsOk
      BY <1>2, FaultIs
    <3> QED
      BY <1>2, <2>2, <3>1, <3>2, <3>3 DEF TaskStep
  <2> QED
    BY <1>3, <2>1, <2>2, <2>3, UndoKeeps
<1>4. CASE /\ task[t].at = "undo" /\ gate' = [gate EXCEPT ![GateOf(t)] = "free"]
           /\ task' = Ended(t, "cancelled") /\ UNCHANGED jobs
  <2>1. /\ task' \in [Tasks -> TaskRecords] /\ task'[t].at = "cancelled"
        /\ \A u \in Tasks : u # t => task'[u] = task[u]
    BY <1>4, EndedIs
  <2>2. GateInv' /\ gate' \in [Gates -> Tasks \cup {"free"}]
    BY <1>4, <2>1, GateFreed
  <2>3. TaskStep(t)
    BY <1>2, <1>4, <2>1, <2>2, FaultIs, QueueIs DEF TaskStep, WriterInv, StateTypes
  <2>4. TaskInv(t)'
    <3>1. TaskInv(t) /\ RowsOf(t)' = RowsOf(t)
      BY <1>2 DEF WriterInv, CommitInv, RowsOf
    <3>2. PastCommit(t)'
      BY <2>1 DEF PastCommit
    <3> QED
      BY <1>4, <2>1, <3>1, <3>2 DEF TaskInv
  <2> QED
    BY <1>4, <2>1, <2>2, <2>3, <2>4, SameQueue
<1> QED
  BY <1>3, <1>4 DEF Abandon

LEMMA StutterKeeps ==
  ASSUME WriterInv, UNCHANGED storeVars
  PROVE  WriterInv'
<1>1. /\ task' = task /\ gate' = gate /\ jobs' = jobs /\ tx' = tx /\ writer' = writer
      /\ identity' = identity /\ committed' = committed /\ storeFaults' = storeFaults
  BY DEF storeVars
<1>2. StateTypes' /\ OrderInv' /\ GateInv' /\ CallsInv'
  BY <1>1 DEF WriterInv, StateTypes, OrderInv, GateInv, CallsInv, GateOf
<1>3. QueueInv' /\ WaitInv' /\ RowsInv'
  BY <1>1 DEF WriterInv, QueueInv, JobInv, WaitInv, RowsInv, TxInv
<1>4. CommitInv'
  <2>1. ASSUME NEW t \in Tasks
        PROVE  TaskInv(t)'
    BY <1>1 DEF WriterInv, CommitInv, TaskInv, PastCommit, RowsOf
  <2> QED
    BY <2>1 DEF CommitInv
<1> QED
  BY <1>2, <1>3, <1>4 DEF WriterInv

LEMMA WriterInvInit ==
  ASSUME StoreAssumption, StoreInit
  PROVE  WriterInv
<1>1. /\ task = [t \in Tasks |-> Fresh] /\ gate = [g \in Gates |-> "free"]
      /\ jobs = [c \in Connections |-> <<>>] /\ tx = [c \in Connections |-> Closed]
      /\ writer = "free" /\ identity = 0 /\ committed = <<>> /\ storeFaults = 0
  BY DEF StoreInit
<1>2. /\ <<>> \in Seq(Jobs) /\ <<>> \in Seq(RowSet) /\ <<>> \in Seq(CallNames) /\ Len(<<>>) = 0
      /\ 1 \in 1..Attempts /\ 0 \in 0..MaxStoreFaults
  BY EmptySeq DEF StoreAssumption
<1>3. Fresh \in TaskRecords /\ Fresh.at = "idle"
  BY <1>2 DEF Fresh, TaskRecords
<1>4. Closed \in [open : BOOLEAN, rows : Seq(RowSet)] /\ Closed.rows = <<>>
  BY <1>2 DEF Closed
<1>5. StateTypes
  BY <1>1, <1>2, <1>3, <1>4 DEF StateTypes
<1>6. \A t \in Tasks : task[t].at = "idle" /\ Lane[t] \in Connections /\ jobs[Lane[t]] = <<>>
  BY <1>1, <1>3, PlacesAre
<1>7. OrderInv /\ CallsInv /\ WaitInv
  BY <1>1, <1>2, <1>4, <1>6 DEF OrderInv, CallsInv, WaitInv
<1>8. GateInv
  <2>1. ASSUME NEW t \in Tasks
        PROVE  gate[GateOf(t)] # t
    <3>1. gate[GateOf(t)] = "free"
      BY <1>1, PlacesAre
    <3> QED
      BY <3>1 DEF StoreAssumption
  <2> QED
    BY <2>1, <1>6 DEF GateInv
<1>9. \A c \in Connections : jobs[c] = <<>> /\ tx[c].rows = <<>>
  BY <1>1, <1>4
<1>10. QueueInv /\ RowsInv
  BY <1>2, <1>6, <1>9 DEF QueueInv, RowsInv, TxInv
<1>11. CommitInv
  <2>1. ASSUME NEW t \in Tasks
        PROVE  TaskInv(t)
    <3>1. RowsOf(t) = {}
      BY <1>1 DEF RowsOf, Range
    <3>2. Cardinality(RowsOf(t)) = 0
      BY <3>1, FS_EmptySet
    <3> QED
      BY <3>1, <3>2, <1>6 DEF TaskInv
  <2> QED
    BY <2>1 DEF CommitInv
<1> QED
  BY <1>5, <1>7, <1>8, <1>10, <1>11 DEF WriterInv

LEMMA WriterInvNext ==
  ASSUME StoreAssumption, WriterInv, [StoreNext]_storeVars
  PROVE  WriterInv'
<1>1. CASE \E t \in Tasks : \/ Begin(t) \/ Enter(t) \/ Continue(t) \/ Leave(t) \/ Undone(t)
                            \/ Cancel(t) \/ Abandon(t)
  BY <1>1, BeginKeeps, EnterKeeps, ContinueKeeps, LeaveKeeps, UndoneKeeps, CancelKeeps,
     AbandonKeeps
<1>2. CASE \E c \in Connections : \/ RunBegin(c) \/ RunStatement(c) \/ LockTimeout(c)
                                  \/ StatementFails(c) \/ RunCommit(c) \/ CommitFails(c)
                                  \/ RunRollback(c)
  BY <1>2, RunBeginKeeps, RunStatementKeeps, LockTimeoutKeeps, StatementFailsKeeps,
     RunCommitKeeps, CommitFailsKeeps, RunRollbackKeeps
<1>3. CASE UNCHANGED storeVars
  BY <1>3, StutterKeeps
<1> QED
  BY <1>1, <1>2, <1>3 DEF StoreNext

LEMMA WriterInvWhole ==
  ASSUME WriterInv
  PROVE  WritesWhole
<1>1. committed \in Seq(RowSet)
  BY DEF WriterInv, StateTypes
<1>2. DOMAIN committed = 1..Len(committed)
  BY <1>1
<1>3. \A i, j \in DOMAIN committed : i < j => committed[i].id < committed[j].id
  BY <1>2 DEF WriterInv, OrderInv
<1>4. \A t \in Tasks : /\ Cardinality(RowsOf(t)) \in {0, 2}
                       /\ task[t].at = "done" => Cardinality(RowsOf(t)) = 2
  BY DEF WriterInv, CommitInv, TaskInv
<1>5. ASSUME NEW t \in Tasks, task[t].at = "failed"
      PROVE  RowsOf(t) = {}
  BY <1>5, NothingCommitted DEF PastCommit
<1> QED
  BY <1>3, <1>4, <1>5 DEF WritesWhole

\* No write is ever visible in part, twice, or missing once its task was told
\* that it is done, and rows appear in the order of their identities: for any
\* tasks, lanes and gates, however often a task is cancelled and whatever the
\* server refuses.
THEOREM WritesKept ==
  ASSUME StoreAssumption
  PROVE  StoreSpec => []WritesWhole
<1>1. StoreInit => WriterInv
  BY WriterInvInit
<1>2. WriterInv /\ [StoreNext]_storeVars => WriterInv'
  BY WriterInvNext
<1>3. WriterInv => WritesWhole
  BY WriterInvWhole
<1> QED
  BY <1>1, <1>2, <1>3, PTL DEF StoreSpec

=============================================================================
