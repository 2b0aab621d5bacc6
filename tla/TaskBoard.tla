------------------------------ MODULE TaskBoard ------------------------------
(***************************************************************************)
(* The tasks and columns of one project:                                   *)
(* apps/api/src/routes/tasks.rs, apps/api/src/routes/boards.rs.            *)
(*                                                                         *)
(* A handler that reads a row first and writes by id later is a request    *)
(* in steps, each a statement; the others are one statement.  Sprints are  *)
(* in SprintLifecycle, parents in Subtasks, positions in BoardOrder.       *)
(***************************************************************************)
EXTENDS Naturals, FiniteSets

CONSTANTS
    Task,      \* ids a row of tasks may take: bounds the rows
    Column,    \* ids a row of board_columns may take
    Request,   \* slots for handlers in flight: the bound on concurrency
    Handlers,  \* which of the handlers in HandlerName run
    Overlap,   \* whether handlers overlap, or run one request at a time
    MaxSeq,    \* bounds the task keys a project hands out
    None       \* no value

HandlerName == {"create", "move", "bulk", "restore", "edit_column", "delete_column"}

VARIABLES
    column,  \* table board_columns
    task,    \* table tasks
    seq,     \* projects.next_task_seq
    req      \* the handlers in flight

vars == <<column, task, seq, req>>

----------------------------------------------------------------------------
(* todo stands for todo, in_progress and review, which completed_at does not
   tell apart. *)
Category == {"todo", "done"}

RowState == {"absent", "live", "deleted"}

ColumnRow == [row: RowState, category: Category]

(* key is the number after the project's prefix, 0 for no row. *)
TaskRow == [row: RowState, column: Column \cup {None}, status: Category,
            completed: BOOLEAN, key: 0 .. MaxSeq]

RequestRecord ==
    [pc: {"idle", "create", "insert", "move", "bulk", "delete_column"},
     ts: SUBSET Task, c: Column \cup {None}, category: Category, key: 0 .. MaxSeq]

NoColumn == [row |-> "absent", category |-> "todo"]
NoTask == [row |-> "absent", column |-> None, status |-> "todo", completed |-> FALSE, key |-> 0]
Idle == [pc |-> "idle", ts |-> {}, c |-> None, category |-> "todo", key |-> 0]

(* Which unused id a new row takes makes no difference. *)
NewTask == CHOOSE t \in Task : task[t].row = "absent"
NewColumn == CHOOSE c \in Column : column[c].row = "absent"

Live(t) == task[t].row = "live"
LiveColumn(c) == column[c].row = "live"

(* create_board(): a board without columns. *)
Init ==
    /\ column = [c \in Column |-> NoColumn]
    /\ task = [t \in Task |-> NoTask]
    /\ seq = 1
    /\ req = [r \in Request |-> Idle]

Ready == Overlap \/ \A r \in Request : req[r].pc = "idle"

Begin(r, name, record) ==
    /\ Ready /\ name \in Handlers /\ req[r].pc = "idle"
    /\ req' = [req EXCEPT ![r] = record]
    /\ UNCHANGED <<column, task, seq>>

Finish(r) == req' = [req EXCEPT ![r] = Idle]

----------------------------------------------------------------------------
(* create_task(): in one transaction, the column (the one named, or the first
   of the default board) and its category are read, a key is reserved and the
   row inserted.  A rolled back transaction gives its key back. *)
CreateRead(r, c) ==
    /\ LiveColumn(c)
    /\ Begin(r, "create", [Idle EXCEPT !.pc = "create", !.c = c,
                                       !.category = column[c].category])

(* next_key(): UPDATE projects SET next_task_seq = next_task_seq + 1 waits for
   the row lock of a transaction that has reserved a key and not committed. *)
NeverLocked == FALSE

KeyLocked == \E r \in Request : req[r].pc = "insert"

ReturnedOld == seq - 1

(* RETURNING next_task_seq - 1, of the row after the increment. *)
Returned == seq + 1 - 1

NextKey(r) ==
    /\ req[r].pc = "create" /\ ~KeyLocked /\ seq <= MaxSeq
    /\ req' = [req EXCEPT ![r].pc = "insert", ![r].key = Returned]
    /\ UNCHANGED <<column, task, seq>>

CreateCommit(r) ==
    /\ req[r].pc = "insert" /\ \E t \in Task : task[t].row = "absent"
    /\ task' = [task EXCEPT ![NewTask] = [row |-> "live", column |-> req[r].c,
                                    status |-> req[r].category, completed |-> FALSE,
                                    key |-> req[r].key]]
    /\ seq' = req[r].key + 1
    /\ Finish(r)
    /\ UNCHANGED column

CreateRollback(r) ==
    /\ req[r].pc \in {"create", "insert"}
    /\ Finish(r)
    /\ UNCHANGED <<column, task, seq>>

----------------------------------------------------------------------------
(* move_task(): the task, then the destination and its category are read; the
   UPDATE is by id. *)
MoveRead(r, t, c) ==
    /\ Live(t) /\ LiveColumn(c)
    /\ Begin(r, "move", [Idle EXCEPT !.pc = "move", !.ts = {t}, !.c = c,
                                     !.category = column[c].category])

(* bulk(): the same of a column for many tasks. *)
BulkRead(r, ts, c) ==
    /\ ts # {} /\ LiveColumn(c)
    /\ Begin(r, "bulk", [Idle EXCEPT !.pc = "bulk", !.ts = ts, !.c = c,
                                     !.category = column[c].category])

(* CASE WHEN done AND completed_at IS NULL THEN now() WHEN not done THEN NULL
   ELSE completed_at END *)
CompletedAfterMove(completed, status) == status = "done"

Moved(row, c, category) ==
    [row EXCEPT !.column = c, !.status = category,
                !.completed = CompletedAfterMove(@, category)]

(* bulk_move_column() leaves the deleted out, move_task() does not. *)
MoveUpdate(r) ==
    LET m == req[r] IN
    /\ m.pc \in {"move", "bulk"}
    /\ task' = [t \in Task |-> IF t \in m.ts /\ (m.pc = "move" \/ Live(t))
                                THEN Moved(task[t], m.c, m.category) ELSE task[t]]
    /\ Finish(r)
    /\ UNCHANGED <<column, seq>>

(* delete_task(), bulk_delete(): the look-up and UPDATE are as good as one
   statement, the second changing nothing the first asked about. *)
DeleteTasks(ts) ==
    /\ Ready /\ ts # {} /\ \A t \in ts : Live(t)
    /\ task' = [t \in Task |-> IF t \in ts THEN [task[t] EXCEPT !.row = "deleted"] ELSE task[t]]
    /\ UNCHANGED <<column, seq, req>>

(* restore_task(): the column the task was in is not looked at. *)
RestoreTask(t) ==
    /\ Ready /\ "restore" \in Handlers /\ task[t].row = "deleted"
    /\ task' = [task EXCEPT ![t].row = "live"]
    /\ UNCHANGED <<column, seq, req>>

----------------------------------------------------------------------------
(* create_column() *)
CreateColumn(k) ==
    /\ Ready /\ \E c \in Column : column[c].row = "absent"
    /\ column' = [column EXCEPT ![NewColumn] = [row |-> "live", category |-> k]]
    /\ UNCHANGED <<task, seq, req>>

(* edit_column(): the tasks in the column are left as they are. *)
EditColumn(c, k) ==
    /\ Ready /\ "edit_column" \in Handlers /\ LiveColumn(c)
    /\ column' = [column EXCEPT ![c].category = k]
    /\ UNCHANGED <<task, seq, req>>

(* delete_column(): "column still has tasks" unless none is counted, then an
   UPDATE of the column. *)
ColumnEmpty(c) == ~\E t \in Task : Live(t) /\ task[t].column = c

DeleteColumnCount(r, c) ==
    /\ LiveColumn(c) /\ ColumnEmpty(c)
    /\ Begin(r, "delete_column", [Idle EXCEPT !.pc = "delete_column", !.c = c])

DeleteColumnUpdate(r) ==
    /\ req[r].pc = "delete_column"
    /\ column' = [column EXCEPT ![req[r].c].row = "deleted"]
    /\ Finish(r)
    /\ UNCHANGED <<task, seq>>

----------------------------------------------------------------------------
Next ==
    \/ \E r \in Request, t \in Task, c \in Column : MoveRead(r, t, c)
    \/ \E r \in Request, c \in Column : CreateRead(r, c) \/ DeleteColumnCount(r, c)
    \/ \E r \in Request :
         \/ NextKey(r) \/ CreateCommit(r) \/ CreateRollback(r)
         \/ MoveUpdate(r) \/ DeleteColumnUpdate(r)
    \/ \E r \in Request, ts \in SUBSET Task, c \in Column : BulkRead(r, ts, c)
    \/ \E ts \in SUBSET Task : DeleteTasks(ts)
    \/ \E t \in Task : RestoreTask(t)
    \/ \E k \in Category : CreateColumn(k) \/ \E c \in Column : EditColumn(c, k)

Spec == Init /\ [][Next]_vars

----------------------------------------------------------------------------
TypeOK ==
    /\ column \in [Column -> ColumnRow]
    /\ task \in [Task -> TaskRow]
    /\ \A t \in Task : task[t].row # "absent" => task[t].column \in Column /\ task[t].key > 0
    /\ seq \in 1 .. MaxSeq + 1
    /\ req \in [Request -> RequestRecord]

(* No two tasks ever share a key, deleted ones included, and a key that a
   transaction has reserved is free when it inserts: the unique index on
   (project_id, key) never refuses a task (next_key in domain/tasks.rs). *)
KeysUnique ==
    /\ \A t, u \in Task : task[t].key = task[u].key /\ task[t].key # 0 => t = u
    /\ \A r \in Request, t \in Task : req[r].pc = "insert" => task[t].key # req[r].key

(* A task that counts as completed has the status done: no order of moves,
   however stale the category they read, leaves a completed task open
   (move_task in routes/tasks.rs). *)
CompletedOnlyWhenDone == \A t \in Task : task[t].completed => task[t].status = "done"

(* Tasks are where the board shows them: a live task is in a live column.
   delete_column in routes/boards.rs means to refuse otherwise. *)
LiveTaskInLiveColumn ==
    \A t \in Task : Live(t) => LiveColumn(task[t].column)

=============================================================================
