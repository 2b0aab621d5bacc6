--------------------------- MODULE TaskBoardProofs ---------------------------
(***************************************************************************)
(* Theorems about TaskBoard, for any tasks, columns, handlers and          *)
(* requests.                                                               *)
(*                                                                         *)
(* The keys rest on the row lock of next_key(): one transaction at a time  *)
(* has a key reserved, and it is the next one (KeyIsNext).  That a live    *)
(* task is in a live column holds one request at a time only, and only     *)
(* without restore_task(): then what a request checked still stands when   *)
(* it writes (Alone).                                                      *)
(***************************************************************************)
EXTENDS TaskBoard, TLAPS

(* What the instances choose. *)
Bounds == MaxSeq \in Nat

(* A request in flight names a column and, when it moves a task, one that exists. *)
Carried(q) ==
    /\ q.pc # "idle" => q.c \in Column
    /\ q.pc = "move" => \A t \in q.ts : task[t].row # "absent"

(* The lock: one transaction has a key, and it is the one handed out next. *)
KeyIsNext ==
    /\ \A r \in Request : req[r].pc = "insert" => req[r].key = seq
    /\ \A r, q \in Request : req[r].pc = "insert" /\ req[q].pc = "insert" => r = q

KeysBelow == \A t \in Task : task[t].key < seq

Distinct == \A t, u \in Task : task[t].key = task[u].key /\ task[t].key # 0 => t = u

Inv ==
    /\ TypeOK /\ \A r \in Request : Carried(req[r])
    /\ KeyIsNext /\ KeysBelow /\ Distinct /\ CompletedOnlyWhenDone

(* What a request checked is so. *)
Stands(q) ==
    /\ q.pc \in {"create", "insert", "move", "bulk"} => LiveColumn(q.c)
    /\ q.pc = "delete_column" => ColumnEmpty(q.c)

Alone ==
    \A r \in Request : req[r].pc # "idle" =>
        /\ \A q \in Request \ {r} : req[q].pc = "idle"
        /\ Stands(req[r])

SerialInv == Inv /\ Alone /\ LiveTaskInLiveColumn
----------------------------------------------------------------------------
(* Lemmas about the definitions of TaskBoard. *)

LEMMA TaskFields ==
    ASSUME NEW row \in TaskRow
    PROVE  /\ row.row \in RowState /\ row.column \in Column \cup {None} /\ row.status \in Category
           /\ row.completed \in BOOLEAN /\ row.key \in 0 .. MaxSeq
  BY DEF TaskRow

LEMMA ConstantTypes ==
    ASSUME Bounds
    PROVE  /\ NoTask \in TaskRow /\ NoColumn \in ColumnRow /\ Idle \in RequestRecord
           /\ Idle.pc = "idle" /\ NoTask.row = "absent" /\ ~NoTask.completed /\ NoTask.key = 0
  BY DEF Bounds, NoTask, TaskRow, NoColumn, ColumnRow, Idle, RequestRecord, RowState, Category

(* A move keeps the type and the key of a row, and completes what it makes done. *)
LEMMA MovedRow ==
    ASSUME NEW row \in TaskRow, NEW c \in Column, NEW k \in Category
    PROVE  /\ Moved(row, c, k) \in TaskRow /\ Moved(row, c, k).key = row.key
           /\ Moved(row, c, k).row = row.row /\ Moved(row, c, k).column = c
           /\ Moved(row, c, k).completed => Moved(row, c, k).status = "done"
  BY DEF Moved, TaskRow, CompletedAfterMove

----------------------------------------------------------------------------
LEMMA InitInv == ASSUME Bounds PROVE Init => Inv
<1> SUFFICES ASSUME Init PROVE Inv
  OBVIOUS
<1>1. TypeOK
  BY ConstantTypes DEF Init, TypeOK, Bounds
<1>2. \A r \in Request : Carried(req[r])
  BY ConstantTypes DEF Init, Carried
<1>3. KeyIsNext /\ KeysBelow /\ Distinct /\ CompletedOnlyWhenDone
  BY ConstantTypes DEF Init, KeyIsNext, KeysBelow, Distinct, CompletedOnlyWhenDone
<1> QED
  BY <1>1, <1>2, <1>3 DEF Inv

(* A request that is accepted changes nothing but its slot. *)
LEMMA BeginInv ==
    ASSUME Inv, NEW r \in Request, NEW name, NEW q \in RequestRecord, Carried(q),
           q.pc # "insert", Begin(r, name, q)
    PROVE  Inv'
<1>1. /\ req' = [req EXCEPT ![r] = q] /\ req \in [Request -> RequestRecord]
      /\ UNCHANGED <<column, task, seq>>
  BY DEF Begin, Inv, TypeOK
<1>2. TypeOK' /\ \A o \in Request : Carried(req[o])'
  BY <1>1 DEF Inv, TypeOK, Carried
<1>3. KeyIsNext'
  BY <1>1 DEF Inv, KeyIsNext
<1> QED
  BY <1>1, <1>2, <1>3 DEF Inv, KeysBelow, Distinct, CompletedOnlyWhenDone

(* Each request accepted names a column, and what it checked stands. *)
LEMMA AcceptInv ==
    ASSUME Bounds, Inv, NEW r \in Request, NEW c \in Column,
           \/ CreateRead(r, c) \/ DeleteColumnCount(r, c)
           \/ \E t \in Task : MoveRead(r, t, c)
           \/ \E ts \in SUBSET Task : BulkRead(r, ts, c)
    PROVE  Inv' /\ \E q \in RequestRecord : (\E name : Begin(r, name, q)) /\ Stands(q)
<1>1. column[c].category \in Category
  BY DEF Inv, TypeOK, ColumnRow
<1>2. CASE CreateRead(r, c)
  <2> DEFINE k == column[c].category
             q == [Idle EXCEPT !.pc = "create", !.c = c, !.category = k]
  <2>1. q \in RequestRecord /\ q.pc = "create" /\ q.c = c
    BY <1>1, ConstantTypes DEF Idle, RequestRecord
  <2>2. Begin(r, "create", q) /\ LiveColumn(c)
    BY <1>2 DEF CreateRead
  <2>3. Carried(q) /\ Stands(q) /\ q.pc # "insert"
    <3> HIDE DEF q
    <3> QED
      BY <2>1, <2>2 DEF Carried, Stands
  <2> HIDE DEF q
  <2> QED
    BY <2>1, <2>2, <2>3, BeginInv
<1>3. ASSUME NEW t \in Task, MoveRead(r, t, c)
      PROVE  Inv' /\ \E q \in RequestRecord : (\E name : Begin(r, name, q)) /\ Stands(q)
  <2> DEFINE k == column[c].category
             q == [Idle EXCEPT !.pc = "move", !.ts = {t}, !.c = c, !.category = k]
  <2>1. q \in RequestRecord /\ q.pc = "move" /\ q.c = c /\ q.ts = {t}
    BY <1>1, ConstantTypes DEF Idle, RequestRecord
  <2>2. Begin(r, "move", q) /\ LiveColumn(c) /\ task[t].row # "absent"
    BY <1>3 DEF MoveRead, Live
  <2>3. Carried(q) /\ Stands(q) /\ q.pc # "insert"
    <3> HIDE DEF q
    <3> QED
      BY <2>1, <2>2 DEF Carried, Stands
  <2> HIDE DEF q
  <2> QED
    BY <2>1, <2>2, <2>3, BeginInv
<1>4. ASSUME NEW ts \in SUBSET Task, BulkRead(r, ts, c)
      PROVE  Inv' /\ \E q \in RequestRecord : (\E name : Begin(r, name, q)) /\ Stands(q)
  <2> DEFINE k == column[c].category
             q == [Idle EXCEPT !.pc = "bulk", !.ts = ts, !.c = c, !.category = k]
  <2>1. q \in RequestRecord /\ q.pc = "bulk" /\ q.c = c
    BY <1>1, ConstantTypes DEF Idle, RequestRecord
  <2>2. Begin(r, "bulk", q) /\ LiveColumn(c)
    BY <1>4 DEF BulkRead
  <2>3. Carried(q) /\ Stands(q) /\ q.pc # "insert"
    <3> HIDE DEF q
    <3> QED
      BY <2>1, <2>2 DEF Carried, Stands
  <2> HIDE DEF q
  <2> QED
    BY <2>1, <2>2, <2>3, BeginInv
<1>5. CASE DeleteColumnCount(r, c)
  <2> DEFINE q == [Idle EXCEPT !.pc = "delete_column", !.c = c]
  <2>1. q \in RequestRecord /\ q.pc = "delete_column" /\ q.c = c
    BY ConstantTypes DEF Idle, RequestRecord
  <2>2. Begin(r, "delete_column", q) /\ ColumnEmpty(c)
    BY <1>5 DEF DeleteColumnCount
  <2>3. Carried(q) /\ Stands(q) /\ q.pc # "insert"
    <3> HIDE DEF q
    <3> QED
      BY <2>1, <2>2 DEF Carried, Stands
  <2> HIDE DEF q
  <2> QED
    BY <2>1, <2>2, <2>3, BeginInv
<1> QED
  BY <1>2, <1>3, <1>4, <1>5

(* A write that gives no task a key. *)
LEMMA WriteInv ==
    ASSUME Bounds, Inv, column' \in [Column -> ColumnRow], task' \in [Task -> TaskRow], seq' = seq,
           \A t \in Task : /\ task'[t].key = task[t].key
                           /\ task'[t].row = "absent" <=> task[t].row = "absent"
                           /\ task'[t].row # "absent" => task'[t].column \in Column
                           /\ task'[t].completed => task'[t].status = "done",
           \/ req' = req
           \/ \E r \in Request : Finish(r)
    PROVE  Inv'
<1>1. /\ req' \in [Request -> RequestRecord]
      /\ \A r \in Request : req'[r] = req[r] \/ req'[r] = Idle
  BY ConstantTypes DEF Inv, TypeOK, Finish
<1>2. TypeOK'
  BY <1>1 DEF Inv, TypeOK
<1>3. \A r \in Request : Carried(req[r])'
  <2> SUFFICES ASSUME NEW r \in Request PROVE Carried(req[r])'
    OBVIOUS
  <2>1. CASE req'[r] = Idle
    BY <2>1, ConstantTypes DEF Carried
  <2>2. CASE req'[r] = req[r]
    <3>1. req[r].ts \in SUBSET Task
      BY DEF Inv, TypeOK, RequestRecord
    <3> QED
      BY <2>2, <3>1 DEF Inv, Carried
  <2> QED
    BY <1>1, <2>1, <2>2
<1>4. KeyIsNext'
  BY <1>1, ConstantTypes DEF Inv, KeyIsNext
<1>5. KeysBelow' /\ Distinct' /\ CompletedOnlyWhenDone'
  BY DEF Inv, KeysBelow, Distinct, CompletedOnlyWhenDone
<1> QED
  BY <1>2, <1>3, <1>4, <1>5 DEF Inv

LEMMA NextKeyInv ==
    ASSUME Bounds, Inv, NEW r \in Request, NextKey(r)
    PROVE  Inv'
<1> DEFINE q == [req[r] EXCEPT !.pc = "insert", !.key = Returned]
<1>1. /\ req[r] \in RequestRecord /\ req[r].c \in Column /\ req \in [Request -> RequestRecord]
      /\ seq \in 1 .. MaxSeq /\ Returned = seq
  BY DEF Bounds, Inv, TypeOK, Carried, NextKey, Returned
<1>2. /\ req' = [req EXCEPT ![r] = q] /\ UNCHANGED <<column, task, seq>>
  BY <1>1 DEF NextKey
<1>3. q \in RequestRecord /\ q.pc = "insert" /\ q.key = seq /\ q.c \in Column
  <2>1. Returned \in 0 .. MaxSeq
    BY <1>1 DEF Bounds
  <2> HIDE DEF Returned
  <2> QED
    BY <1>1, <2>1 DEF RequestRecord
<1> HIDE DEF q
<1>4. TypeOK' /\ \A o \in Request : Carried(req[o])'
  BY <1>1, <1>2, <1>3 DEF Inv, TypeOK, Carried
<1>5. KeyIsNext'
  BY <1>1, <1>2, <1>3 DEF Inv, KeyIsNext, NextKey, KeyLocked
<1> QED
  BY <1>2, <1>4, <1>5 DEF Inv, KeysBelow, Distinct, CompletedOnlyWhenDone

LEMMA CreateCommitInv ==
    ASSUME Bounds, Inv, NEW r \in Request, CreateCommit(r)
    PROVE  Inv'
<1> DEFINE new == NewTask
           row == [row |-> "live", column |-> req[r].c, status |-> req[r].category,
                   completed |-> FALSE, key |-> req[r].key]
<1>1. new \in Task
  BY DEF CreateCommit, NewTask
<1>2. /\ req[r] \in RequestRecord /\ req[r].key = seq /\ req[r].c \in Column /\ req[r].pc = "insert"
      /\ seq \in 1 .. MaxSeq /\ task \in [Task -> TaskRow] /\ req \in [Request -> RequestRecord]
  <2>1. /\ req[r].pc = "insert" /\ req[r] \in RequestRecord /\ req[r].key = seq
        /\ req[r].c \in Column /\ seq \in 1 .. MaxSeq + 1
    BY DEF Inv, TypeOK, Carried, KeyIsNext, CreateCommit
  <2>2. req[r].key \in 0 .. MaxSeq
    BY <2>1 DEF RequestRecord
  <2> QED
    BY <2>1, <2>2 DEF Bounds, Inv, TypeOK
<1>3. /\ row \in TaskRow /\ row.row = "live" /\ row.column = req[r].c /\ ~row.completed
      /\ row.key = seq
  BY <1>2 DEF TaskRow, RowState, RequestRecord
<1>4. /\ task' = [task EXCEPT ![new] = row] /\ seq' = seq + 1 /\ Finish(r) /\ column' = column
  BY <1>2 DEF CreateCommit
<1> HIDE DEF new, row
<1>5. \A t \in Task : task'[t] = IF t = new THEN row ELSE task[t]
  BY <1>1, <1>2, <1>4
<1>6. /\ req' \in [Request -> RequestRecord] /\ req'[r].pc = "idle"
      /\ \A o \in Request \ {r} : req'[o] = req[o] /\ req[o].pc # "insert"
  BY <1>2, <1>4, ConstantTypes DEF Finish, Inv, KeyIsNext
<1>7. TypeOK'
  <2>1. task' \in [Task -> TaskRow] /\ seq' \in 1 .. MaxSeq + 1
    BY <1>1, <1>2, <1>3, <1>4 DEF Bounds
  <2>2. \A t \in Task : task'[t].row # "absent" => task'[t].column \in Column /\ task'[t].key > 0
    BY <1>2, <1>3, <1>5 DEF Inv, TypeOK
  <2> QED
    BY <1>4, <1>6, <2>1, <2>2 DEF Inv, TypeOK
<1>8. \A o \in Request : Carried(req[o])'
  <2>1. \A t \in Task : task[t].row # "absent" => task'[t].row # "absent"
    BY <1>3, <1>5
  <2>2. \A o \in Request : req[o].ts \in SUBSET Task
    BY <1>2 DEF RequestRecord
  <2> QED
    BY <1>6, <2>1, <2>2 DEF Inv, Carried
<1>9. KeyIsNext'
  BY <1>6 DEF KeyIsNext
<1>10. KeysBelow' /\ Distinct'
  <2>1. \A t \in Task : task[t].key \in Nat /\ task[t].key < seq
    BY <1>2, TaskFields DEF Inv, KeysBelow, Bounds
  <2>2. \A t \in Task : task'[t].key < seq'
    BY <1>2, <1>3, <1>4, <1>5, <2>1
  <2>3. \A t \in Task : task[t].key # seq
    BY <2>1
  <2>4. Distinct'
    BY <1>3, <1>5, <2>3 DEF Inv, Distinct
  <2> QED
    BY <2>2, <2>4 DEF KeysBelow
<1>11. CompletedOnlyWhenDone'
  BY <1>3, <1>5 DEF Inv, CompletedOnlyWhenDone
<1> QED
  BY <1>7, <1>8, <1>9, <1>10, <1>11 DEF Inv

(* The rows a move leaves. *)
LEMMA MoveRows ==
    ASSUME Inv, NEW r \in Request, MoveUpdate(r), NEW t \in Task
    PROVE  /\ task'[t] \in TaskRow /\ task'[t].key = task[t].key /\ task'[t].row = task[t].row
           /\ task'[t].row # "absent" => task'[t].column \in Column
           /\ task'[t].completed => task'[t].status = "done"
           /\ task'[t] = task[t] \/ task'[t].column = req[r].c
<1>1. /\ task[t] \in TaskRow /\ req[r].c \in Column /\ req[r].category \in Category
      /\ task[t].row # "absent" => task[t].column \in Column
      /\ task[t].completed => task[t].status = "done"
  BY DEF Inv, TypeOK, RequestRecord, Carried, MoveUpdate, CompletedOnlyWhenDone
<1>2. task'[t] = task[t] \/ task'[t] = Moved(task[t], req[r].c, req[r].category)
  BY DEF MoveUpdate
<1> QED
  BY <1>1, <1>2, MovedRow

LEMMA WriteTasksInv ==
    ASSUME Bounds, Inv,
           \/ \E r \in Request : MoveUpdate(r) \/ CreateRollback(r)
           \/ \E ts \in SUBSET Task : DeleteTasks(ts)
           \/ \E t \in Task : RestoreTask(t)
    PROVE  Inv'
<1>1. /\ task \in [Task -> TaskRow] /\ column \in [Column -> ColumnRow]
      /\ \A t \in Task : task[t].row # "absent" => task[t].column \in Column
      /\ \A t \in Task : task[t].completed => task[t].status = "done"
  BY DEF Inv, TypeOK, CompletedOnlyWhenDone
<1>2. ASSUME NEW r \in Request, MoveUpdate(r)
      PROVE  Inv'
  <2>1. task' \in [Task -> TaskRow] /\ Finish(r) /\ column' = column /\ seq' = seq
    <3>1. \A t \in Task : task'[t] \in TaskRow
      BY <1>2, MoveRows
    <3> QED
      BY <1>2, <3>1 DEF MoveUpdate
  <2>2. \A t \in Task : /\ task'[t].key = task[t].key
                        /\ task'[t].row = task[t].row
                        /\ task'[t].row # "absent" => task'[t].column \in Column
                        /\ task'[t].completed => task'[t].status = "done"
    BY <1>2, MoveRows
  <2> QED
    BY <1>1, <2>1, <2>2, WriteInv
<1>3. ASSUME NEW r \in Request, CreateRollback(r)
      PROVE  Inv'
  <2>1. Finish(r) /\ UNCHANGED <<column, task, seq>>
    BY <1>3 DEF CreateRollback
  <2> QED
    BY <1>1, <2>1, WriteInv
<1>4. ASSUME NEW T \in SUBSET Task, NEW state \in {"live", "deleted"},
             \A t \in T : task[t].row # "absent",
             task' = [t \in Task |-> IF t \in T THEN [task[t] EXCEPT !.row = state] ELSE task[t]],
             UNCHANGED <<column, seq, req>>
      PROVE  Inv'
  <2>1. \A t \in Task : /\ task'[t] \in TaskRow /\ task'[t].key = task[t].key
                        /\ task'[t].column = task[t].column /\ task'[t].status = task[t].status
                        /\ task'[t].completed = task[t].completed
                        /\ task'[t].row = "absent" <=> task[t].row = "absent"
    BY <1>1, <1>4 DEF TaskRow, RowState
  <2>2. task' \in [Task -> TaskRow]
    BY <1>4, <2>1
  <2> QED
    BY <1>1, <1>4, <2>1, <2>2, WriteInv
<1>5. ASSUME NEW ts \in SUBSET Task, DeleteTasks(ts)
      PROVE  Inv'
  BY <1>4, <1>5 DEF DeleteTasks, Live
<1>6. ASSUME NEW t \in Task, RestoreTask(t)
      PROVE  Inv'
  <2>1. task' = [s \in Task |-> IF s \in {t} THEN [task[s] EXCEPT !.row = "live"] ELSE task[s]]
    BY <1>1, <1>6 DEF RestoreTask
  <2>2. task[t].row # "absent" /\ UNCHANGED <<column, seq, req>>
    BY <1>6 DEF RestoreTask
  <2> DEFINE T == {t}
  <2>3. T \in SUBSET Task /\ \A s \in T : task[s].row # "absent"
    BY <2>2
  <2> QED
    BY <1>4, <2>1, <2>2, <2>3
<1> QED
  BY <1>2, <1>3, <1>5, <1>6

LEMMA WriteColumnInv ==
    ASSUME Bounds, Inv,
           \/ \E k \in Category : CreateColumn(k) \/ \E c \in Column : EditColumn(c, k)
           \/ \E r \in Request : DeleteColumnUpdate(r)
    PROVE  Inv'
<1>1. column \in [Column -> ColumnRow] /\ task \in [Task -> TaskRow]
  BY DEF Inv, TypeOK
<1>2. column' \in [Column -> ColumnRow]
  <2>1. ASSUME NEW k \in Category, CreateColumn(k)
        PROVE  column' \in [Column -> ColumnRow]
    BY <1>1, <2>1 DEF CreateColumn, ColumnRow, RowState
  <2>2. ASSUME NEW k \in Category, NEW c \in Column, EditColumn(c, k)
        PROVE  column' \in [Column -> ColumnRow]
    BY <1>1, <2>2 DEF EditColumn, ColumnRow
  <2>3. ASSUME NEW r \in Request, DeleteColumnUpdate(r)
        PROVE  column' \in [Column -> ColumnRow]
    BY <1>1, <2>3 DEF DeleteColumnUpdate, ColumnRow, RowState
  <2> QED
    BY <2>1, <2>2, <2>3
<1>3. UNCHANGED <<task, seq>> /\ (req' = req \/ \E r \in Request : Finish(r))
  BY DEF CreateColumn, EditColumn, DeleteColumnUpdate
<1>4. \A t \in Task : /\ task[t].row # "absent" => task[t].column \in Column
                      /\ task[t].completed => task[t].status = "done"
  BY DEF Inv, TypeOK, CompletedOnlyWhenDone
<1> QED
  BY <1>1, <1>2, <1>3, <1>4, WriteInv

LEMMA NextInv == ASSUME Bounds PROVE Inv /\ [Next]_vars => Inv'
<1> SUFFICES ASSUME Inv, [Next]_vars PROVE Inv'
  OBVIOUS
<1>1. CASE UNCHANGED vars
  BY <1>1
     DEF vars, Inv, TypeOK, Carried, KeyIsNext, KeysBelow, Distinct, CompletedOnlyWhenDone
<1> QED
  BY <1>1, AcceptInv, NextKeyInv, CreateCommitInv, WriteTasksInv, WriteColumnInv DEF Next

LEMMA Invariance == ASSUME Bounds PROVE Spec => []Inv
<1>1. Init => Inv
  BY InitInv
<1>2. Inv /\ [Next]_vars => Inv'
  BY NextInv
<1> QED
  BY <1>1, <1>2, PTL DEF Spec

(* The key a transaction has reserved is one no task has yet. *)
LEMMA InvKeysUnique == ASSUME Bounds PROVE Inv => KeysUnique
<1> SUFFICES ASSUME Inv PROVE KeysUnique
  OBVIOUS
<1>1. \A t \in Task : task[t].key \in Nat /\ task[t].key < seq
  BY TaskFields DEF Inv, TypeOK, KeysBelow, Bounds
<1>2. \A r \in Request : req[r].pc = "insert" => req[r].key = seq
  BY DEF Inv, KeyIsNext
<1>3. \A r \in Request, t \in Task : req[r].pc = "insert" => task[t].key # req[r].key
  BY <1>1, <1>2
<1> QED
  BY <1>3 DEF Inv, Distinct, KeysUnique

----------------------------------------------------------------------------
(* One request at a time, with no task restored. *)

LEMMA InitSerialInv == ASSUME Bounds PROVE Init => SerialInv
<1>1. Init => Alone /\ LiveTaskInLiveColumn
  BY ConstantTypes DEF Init, Alone, LiveTaskInLiveColumn, Live
<1> QED
  BY <1>1, InitInv DEF SerialInv

(* When a request ends, nothing is in flight. *)
LEMMA FinishAlone ==
    ASSUME Bounds, Inv, Alone, NEW r \in Request, req[r].pc # "idle", Finish(r)
    PROVE  Alone'
<1>1. \A q \in Request : req'[q].pc = "idle"
  BY ConstantTypes DEF Inv, TypeOK, Alone, Finish
<1> QED
  BY <1>1 DEF Alone

LEMMA SerialNextInv ==
    ASSUME Bounds, ~Overlap, "restore" \notin Handlers
    PROVE  SerialInv /\ [Next]_vars => SerialInv'
<1> SUFFICES ASSUME SerialInv, [Next]_vars PROVE Alone' /\ LiveTaskInLiveColumn'
  BY NextInv DEF SerialInv
<1>1. Inv /\ Alone /\ LiveTaskInLiveColumn
  BY DEF SerialInv
<1>2. ASSUME NEW r \in Request, NEW name, NEW q \in RequestRecord, Begin(r, name, q), Stands(q)
      PROVE  Alone' /\ LiveTaskInLiveColumn'
  <2>1. /\ req' = [req EXCEPT ![r] = q] /\ req \in [Request -> RequestRecord]
        /\ \A o \in Request : req[o].pc = "idle"
        /\ UNCHANGED <<column, task, seq>>
    BY <1>1, <1>2 DEF Inv, TypeOK, Begin, Ready
  <2>2. \A o \in Request \ {r} : req'[o].pc = "idle"
    BY <2>1
  <2>3. Stands(q)'
    BY <1>2, <2>1 DEF Stands, LiveColumn, ColumnEmpty, Live
  <2> QED
    BY <1>1, <2>1, <2>2, <2>3 DEF Alone, LiveTaskInLiveColumn, Live, LiveColumn
<1>3. ASSUME NEW r \in Request, NextKey(r)
      PROVE  Alone' /\ LiveTaskInLiveColumn'
  <2>1. /\ req[r].pc = "create" /\ req \in [Request -> RequestRecord] /\ req[r] \in RequestRecord
        /\ req' = [req EXCEPT ![r] = [req[r] EXCEPT !.pc = "insert", !.key = Returned]]
        /\ UNCHANGED <<column, task, seq>>
    BY <1>1, <1>3 DEF Inv, TypeOK, NextKey
  <2>2. /\ LiveColumn(req[r].c) /\ \A o \in Request \ {r} : req[o].pc = "idle"
    BY <1>1, <2>1 DEF Alone, Stands
  <2>3. /\ \A o \in Request \ {r} : req'[o].pc = "idle"
        /\ req'[r].pc = "insert" /\ req'[r].c = req[r].c
    BY <2>1, <2>2 DEF RequestRecord
  <2>4. Alone'
    BY <2>1, <2>2, <2>3 DEF Alone, Stands, LiveColumn
  <2> QED
    BY <1>1, <2>1, <2>4 DEF LiveTaskInLiveColumn, Live, LiveColumn
<1>4. ASSUME NEW r \in Request, CreateCommit(r)
      PROVE  Alone' /\ LiveTaskInLiveColumn'
  <2> DEFINE row == [row |-> "live", column |-> req[r].c, status |-> req[r].category,
                     completed |-> FALSE, key |-> req[r].key]
  <2>1. /\ req[r].pc = "insert" /\ Finish(r) /\ column' = column
        /\ \E t \in Task : task' = [task EXCEPT ![t] = row]
    BY <1>4 DEF CreateCommit, NewTask
  <2>2. row.column = req[r].c
    OBVIOUS
  <2> HIDE DEF row
  <2>3. LiveColumn(req[r].c)
    BY <1>1, <2>1 DEF Alone, Stands
  <2>4. \A t \in Task : task'[t] = task[t] \/ task'[t] = row
    BY <1>1, <2>1 DEF Inv, TypeOK
  <2>5. LiveTaskInLiveColumn'
    BY <1>1, <2>1, <2>2, <2>3, <2>4 DEF LiveTaskInLiveColumn, Live, LiveColumn
  <2> QED
    BY <1>1, <2>1, <2>5, FinishAlone
<1>5. ASSUME NEW r \in Request, MoveUpdate(r)
      PROVE  Alone' /\ LiveTaskInLiveColumn'
  <2>1. req[r].pc \in {"move", "bulk"} /\ Finish(r) /\ column' = column
    BY <1>5 DEF MoveUpdate
  <2>2. LiveColumn(req[r].c)
    BY <1>1, <2>1 DEF Alone, Stands
  <2>3. \A t \in Task : /\ task'[t].row = task[t].row
                        /\ task'[t] = task[t] \/ task'[t].column = req[r].c
    BY <1>1, <1>5, MoveRows
  <2>4. LiveTaskInLiveColumn'
    BY <1>1, <2>1, <2>2, <2>3 DEF LiveTaskInLiveColumn, Live, LiveColumn
  <2> QED
    BY <1>1, <2>1, <2>4, FinishAlone
<1>6. ASSUME NEW r \in Request, CreateRollback(r)
      PROVE  Alone' /\ LiveTaskInLiveColumn'
  <2>1. req[r].pc # "idle" /\ Finish(r) /\ UNCHANGED <<column, task>>
    BY <1>6 DEF CreateRollback
  <2> QED
    BY <1>1, <2>1, FinishAlone DEF LiveTaskInLiveColumn, Live, LiveColumn
<1>7. ASSUME NEW r \in Request, DeleteColumnUpdate(r)
      PROVE  Alone' /\ LiveTaskInLiveColumn'
  <2>1. /\ req[r].pc = "delete_column" /\ Finish(r) /\ task' = task /\ req[r].c \in Column
        /\ column' = [column EXCEPT ![req[r].c].row = "deleted"]
        /\ column \in [Column -> ColumnRow]
    BY <1>1, <1>7 DEF Inv, TypeOK, Carried, DeleteColumnUpdate
  <2>2. \A t \in Task : Live(t) => task[t].column \in Column /\ task[t].column # req[r].c
    BY <1>1, <2>1 DEF Alone, Stands, ColumnEmpty, Inv, TypeOK, Live
  <2>3. LiveTaskInLiveColumn'
    BY <1>1, <2>1, <2>2 DEF LiveTaskInLiveColumn, Live, LiveColumn
  <2> QED
    BY <1>1, <2>1, <2>3, FinishAlone
<1>8. ASSUME \/ \E ts \in SUBSET Task : DeleteTasks(ts)
             \/ \E t \in Task : RestoreTask(t)
             \/ \E k \in Category : CreateColumn(k) \/ \E c \in Column : EditColumn(c, k)
      PROVE  Alone' /\ LiveTaskInLiveColumn'
  <2>1. req' = req /\ \A r \in Request : req[r].pc = "idle"
    BY <1>8 DEF DeleteTasks, RestoreTask, CreateColumn, EditColumn, Ready
  <2>2. Alone'
    BY <2>1 DEF Alone
  <2>3. /\ task \in [Task -> TaskRow] /\ column \in [Column -> ColumnRow]
        /\ \A t \in Task : Live(t) => task[t].column \in Column
    BY <1>1 DEF Inv, TypeOK, Live
  <2>4. ASSUME NEW ts \in SUBSET Task, DeleteTasks(ts)
        PROVE  LiveTaskInLiveColumn'
    <3>1. column' = column /\ \A t \in Task : Live(t)' => task'[t] = task[t]
      BY <2>3, <2>4 DEF DeleteTasks, Live, TaskRow
    <3> QED
      BY <1>1, <3>1 DEF LiveTaskInLiveColumn, Live, LiveColumn
  <2>5. ASSUME NEW k \in Category, CreateColumn(k)
        PROVE  LiveTaskInLiveColumn'
    <3>1. task' = task /\ \A c \in Column : LiveColumn(c) => LiveColumn(c)'
      BY <2>3, <2>5 DEF CreateColumn, LiveColumn
    <3> QED
      BY <1>1, <2>3, <3>1 DEF LiveTaskInLiveColumn, Live
  <2>6. ASSUME NEW k \in Category, NEW c \in Column, EditColumn(c, k)
        PROVE  LiveTaskInLiveColumn'
    <3>1. task' = task /\ \A d \in Column : LiveColumn(d) => LiveColumn(d)'
      BY <2>3, <2>6 DEF EditColumn, LiveColumn, ColumnRow
    <3> QED
      BY <1>1, <2>3, <3>1 DEF LiveTaskInLiveColumn, Live
  <2>7. ~\E t \in Task : RestoreTask(t)
    BY DEF RestoreTask
  <2> QED
    BY <1>8, <2>2, <2>4, <2>5, <2>6, <2>7
<1>9. CASE UNCHANGED vars
  BY <1>1, <1>9 DEF vars, Alone, LiveTaskInLiveColumn, Stands, LiveColumn, ColumnEmpty, Live
<1>10. ASSUME NEW r \in Request, NEW c \in Column,
              \/ CreateRead(r, c) \/ DeleteColumnCount(r, c)
              \/ \E t \in Task : MoveRead(r, t, c)
              \/ \E ts \in SUBSET Task : BulkRead(r, ts, c)
       PROVE  Alone' /\ LiveTaskInLiveColumn'
  BY <1>1, <1>2, <1>10, AcceptInv
<1> QED
  BY <1>3, <1>4, <1>5, <1>6, <1>7, <1>8, <1>9, <1>10 DEF Next

----------------------------------------------------------------------------
(* Type correctness: columns, tasks and requests have their shapes, and a task
   that was created has a column and a key (routes/tasks.rs). *)
THEOREM TypeCorrect == ASSUME Bounds PROVE Spec => []TypeOK
<1>1. Inv => TypeOK
  BY DEF Inv
<1> QED
  BY <1>1, Invariance, PTL

(* No two tasks share a key, and the key a transaction reserved is free when it
   inserts, however creations overlap and roll back (next_key() in
   domain/tasks.rs). *)
THEOREM UniqueKeys == ASSUME Bounds PROVE Spec => []KeysUnique
  BY InvKeysUnique, Invariance, PTL

(* A completed task is done, however stale the category a move read
   (move_task() and bulk() in routes/tasks.rs). *)
THEOREM CompletedIsDone == ASSUME Bounds PROVE Spec => []CompletedOnlyWhenDone
<1>1. Inv => CompletedOnlyWhenDone
  BY DEF Inv
<1> QED
  BY <1>1, Invariance, PTL

(* One request at a time, and while no deleted task is restored, a live task is in
   a live column: what delete_column() in routes/boards.rs means to keep. *)
THEOREM TasksAreOnTheBoard ==
    ASSUME Bounds, ~Overlap, "restore" \notin Handlers
    PROVE  Spec => []LiveTaskInLiveColumn
<1>1. Init => SerialInv
  BY InitSerialInv
<1>2. SerialInv /\ [Next]_vars => SerialInv'
  BY SerialNextInv
<1>3. SerialInv => LiveTaskInLiveColumn
  BY DEF SerialInv
<1> QED
  BY <1>1, <1>2, <1>3, PTL DEF Spec

=============================================================================
