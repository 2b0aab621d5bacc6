-------------------------- MODULE SprintLifecycle --------------------------
(***************************************************************************)
(* The sprints of one project and the tasks scheduled into them:           *)
(* apps/api/src/routes/sprints.rs, with the other writers of               *)
(* tasks.sprint_id (routes/tasks.rs, routes/templates.rs,                  *)
(* routes/task_detail.rs).                                                 *)
(*                                                                         *)
(* Every HTTP request runs as a handler that issues SQL statements over a  *)
(* READ COMMITTED connection.  A handler that reads first and writes later *)
(* is a multi-step request here, one step per statement whose result it    *)
(* depends on; a handler whose effect is one statement is one action.  The *)
(* writes of an open transaction live in its request record and reach the  *)
(* tables when it commits; the row locks it holds are those its program    *)
(* counter and its record imply (SprintLocked, TaskLocked).                *)
(*                                                                         *)
(* Story points are abstracted: velocity_points, a sum over a set of       *)
(* tasks, is represented by the set itself.                                *)
(***************************************************************************)
EXTENDS Naturals, FiniteSets

CONSTANTS
    Sprint,     \* ids a sprint row may take
    Task,       \* ids a task row may take
    Subtask,    \* the tasks whose parent_task_id is set
    Request,    \* slots for handlers in flight: the bound on concurrency
    Handlers,   \* the first statements after the checks of the handlers accepted
    Backlog,    \* tasks.sprint_id IS NULL
    None        \* no value

ASSUME ConstantsAssumption ==
    /\ Subtask \subseteq Task
    /\ Backlog \notin Sprint /\ None \notin Sprint /\ None \notin Request
    /\ Backlog # None
    /\ \A T \in SUBSET Task : T # None

VARIABLES
    sprint,  \* table sprints, with the existence of the row in sprint_retros
    task,    \* table tasks
    snap,    \* table sprint_task_snapshots: status frozen per (sprint, task)
    req      \* the handlers in flight

vars == <<sprint, task, snap, req>>

----------------------------------------------------------------------------
(* Tables and request records *)

Row == {"absent", "live", "deleted"}
State == {"planned", "active", "completed"}
Status == {"todo", "done"}

SprintRow == [row: Row, state: State, velocity: {None} \cup SUBSET Task,
              retro: BOOLEAN, edited: BOOLEAN]
TaskRow == [row: Row, sprint: Sprint \cup {Backlog}, status: Status]
Snapshot == [Task -> Status \cup {"absent"}]

Target == Sprint \cup {Backlog, None}

RequestRecord ==
    [pc: {"idle", "start", "velocity", "complete", "target", "carry", "commit",
          "delete_tasks", "delete_sprint", "assign", "insert", "edit"},
     s: Sprint \cup {None}, tasks: SUBSET Task, counted: SUBSET Task,
     frozen: Snapshot, target: Target]

NoSnapshot == [t \in Task |-> "absent"]

Idle == [pc |-> "idle", s |-> None, tasks |-> {}, counted |-> {},
         frozen |-> NoSnapshot, target |-> None]

Live(s) == sprint[s].row = "live"
LiveTask(t) == task[t].row = "live"
TasksOf(s) == {t \in Task : task[t].sprint = s}

(* The row of sprint s is locked by complete() from its UPDATE to the end of
   its transaction.  delete_sprint()'s UPDATE of the row is its last statement. *)
SprintLocked(s, r) ==
    \E q \in Request \ {r} :
        req[q].s = s /\ req[q].pc \in {"target", "carry", "commit"}

(* Task rows are locked by the carry-over of complete() and by the first
   statement of delete_sprint(). *)
TaskLocked(t, r) ==
    \E q \in Request \ {r} :
        req[q].pc \in {"commit", "delete_sprint"} /\ t \in req[q].tasks

Free(T, r) == \A t \in T : ~TaskLocked(t, r)

----------------------------------------------------------------------------
Init ==
    /\ sprint = [s \in Sprint |-> [row |-> "absent", state |-> "planned", velocity |-> None,
                                   retro |-> FALSE, edited |-> FALSE]]
    /\ task = [t \in Task |-> [row |-> "absent", sprint |-> Backlog, status |-> "todo"]]
    /\ snap = [s \in Sprint |-> NoSnapshot]
    /\ req = [r \in Request |-> Idle]

(* Ids are generated by the handler that inserts the row (Uuid::now_v7), so an
   id chosen by a handler in flight is nobody else's. *)
FreshSprint(n) == sprint[n].row = "absent" /\ \A q \in Request : req[q].target # n
FreshTask(t) ==
    /\ task[t].row = "absent"
    /\ \A q \in Request : req[q].pc = "insert" => t \notin req[q].tasks

Continue(r, record) == req' = [req EXCEPT ![r] = record]

(* A handler with no effect yet: its checks passed, its next statement is pc. *)
Begin(r, pc, s, T) ==
    /\ req[r].pc = "idle" /\ pc \in Handlers
    /\ Continue(r, [Idle EXCEPT !.pc = pc, !.s = s, !.tasks = T])
    /\ UNCHANGED <<sprint, task, snap>>

Finish(r) == Continue(r, Idle)

----------------------------------------------------------------------------
(* create(): a new sprint is planned. *)
CreateSprint(s) ==
    /\ FreshSprint(s)
    /\ sprint' = [sprint EXCEPT ![s].row = "live"]
    /\ UNCHANGED <<task, snap, req>>

(* The state machine: planned --start--> active --complete--> completed. *)
NextStateReopens(current, action) ==
    IF action = "start" /\ current # "active" THEN "active"
    ELSE IF action = "complete" /\ current = "active" THEN "completed" ELSE "refused"

NextState(current, action) ==
    CASE current = "planned" /\ action = "start"    -> "active"
      [] current = "active"  /\ action = "complete" -> "completed"
      [] OTHER -> "refused"

(* start(): reads the state, asks next_state, then updates by id alone. *)
StartRead(r, s) ==
    /\ Live(s) /\ NextState(sprint[s].state, "start") # "refused"
    /\ Begin(r, "start", s, {})

(* The partial unique index sprints_one_active_per_project_idx. *)
NoActiveIndex(s) == FALSE

ActiveConflict(s) ==
    /\ Live(s)
    /\ \E o \in Sprint \ {s} : Live(o) /\ sprint[o].state = "active"

(* The UPDATE waits for a transaction that holds the row, and the unique
   index for one that holds a row it would collide with; a collision is 409. *)
StartUpdate(r) ==
    LET s == req[r].s IN
    /\ req[r].pc = "start"
    /\ ~SprintLocked(s, r)
    /\ \A o \in Sprint : sprint[o].state = "active" => ~SprintLocked(o, r)
    /\ sprint' = IF ActiveConflict(s) THEN sprint ELSE [sprint EXCEPT ![s].state = "active"]
    /\ Finish(r)
    /\ UNCHANGED <<task, snap>>

----------------------------------------------------------------------------
(* complete(): the state is read and checked outside the transaction. *)
CompleteRead(r, s) ==
    /\ Live(s) /\ NextState(sprint[s].state, "complete") # "refused"
    /\ Begin(r, "velocity", s, {})

(* SELECT SUM(story_points) of the done top-level tasks. *)
CountedWithSubtasks(s) == {t \in TasksOf(s) : LiveTask(t) /\ task[t].status = "done"}

Counted(s) == {t \in TasksOf(s) \ Subtask : LiveTask(t) /\ task[t].status = "done"}

CompleteVelocity(r) ==
    /\ req[r].pc = "velocity"
    /\ Continue(r, [req[r] EXCEPT !.pc = "complete", !.counted = Counted(req[r].s)])
    /\ UNCHANGED <<sprint, task, snap>>

(* The rows INSERT INTO sprint_task_snapshots selects. *)
DoneRows(s) == [t \in Task |-> IF t \in TasksOf(s) /\ LiveTask(t) /\ task[t].status = "done"
                               THEN "done" ELSE "absent"]

SnapshotRows(s) ==
    [t \in Task |-> IF t \in TasksOf(s) /\ LiveTask(t) THEN task[t].status ELSE "absent"]

(* UPDATE sprints (takes the row lock), INSERT sprint_retros, INSERT the
   snapshot rows: nothing another transaction can see until the commit. *)
CompleteUpdate(r) ==
    LET s == req[r].s IN
    /\ req[r].pc = "complete"
    /\ ~SprintLocked(s, r)
    /\ Continue(r, [req[r] EXCEPT !.pc = "target", !.frozen = SnapshotRows(s)])
    /\ UNCHANGED <<sprint, task, snap>>

(* The carry-over choice of the request body: none, the backlog, another live
   sprint that is not completed, or a new one; a wrong choice rolls back. *)
OpenTarget(s, target) ==
    \/ target \in {None, Backlog}
    \/ target \in Sprint \ {s} /\ Live(target) /\ sprint[target].state # "completed"
    \/ target \in Sprint /\ FreshSprint(target)

CompleteTarget(r, target) ==
    /\ req[r].pc = "target"
    /\ OpenTarget(req[r].s, target)
    /\ Continue(r, [req[r] EXCEPT !.pc = IF target = None THEN "commit" ELSE "carry",
                                  !.target = target])
    /\ UNCHANGED <<sprint, task, snap>>

AllCarried(s) == {t \in TasksOf(s) : LiveTask(t)}

Unfinished(s) == {t \in TasksOf(s) : LiveTask(t) /\ task[t].status # "done"}

CompleteCarry(r) ==
    LET moved == Unfinished(req[r].s) IN
    /\ req[r].pc = "carry"
    /\ Free(moved, r)
    /\ Continue(r, [req[r] EXCEPT !.pc = "commit", !.tasks = moved])
    /\ UNCHANGED <<sprint, task, snap>>

(* ON CONFLICT (sprint_id, task_id) DO NOTHING. *)
Overwrite(old, new) == [t \in Task |-> IF new[t] = "absent" THEN old[t] ELSE new[t]]

Merge(old, new) == [t \in Task |-> IF old[t] = "absent" THEN new[t] ELSE old[t]]

Completed(s, counted) ==
    [sprint[s] EXCEPT !.state = "completed", !.velocity = counted, !.retro = TRUE]

Opened(n) == IF sprint[n].row = "absent" THEN [sprint[n] EXCEPT !.row = "live"] ELSE sprint[n]

CompleteCommit(r) ==
    LET s == req[r].s
        dest == req[r].target
    IN
    /\ req[r].pc = "commit"
    /\ sprint' = [n \in Sprint |-> IF n = s THEN Completed(s, req[r].counted)
                                   ELSE IF n = dest THEN Opened(n) ELSE sprint[n]]
    /\ task' = [t \in Task |-> IF t \in req[r].tasks THEN [task[t] EXCEPT !.sprint = dest]
                               ELSE task[t]]
    /\ snap' = [snap EXCEPT ![s] = Merge(snap[s], req[r].frozen)]
    /\ Finish(r)

----------------------------------------------------------------------------
(* delete_sprint(): one transaction, the tasks first. *)
DeleteRead(r, s) == Live(s) /\ Begin(r, "delete_tasks", s, {})

DeleteTasks(r) ==
    LET rows == TasksOf(req[r].s) IN
    /\ req[r].pc = "delete_tasks"
    /\ Free(rows, r)
    /\ Continue(r, [req[r] EXCEPT !.pc = "delete_sprint", !.tasks = rows])
    /\ UNCHANGED <<sprint, task, snap>>

DeleteCommit(r) ==
    LET s == req[r].s IN
    /\ req[r].pc = "delete_sprint"
    /\ ~SprintLocked(s, r)
    /\ task' = [t \in Task |-> IF t \in req[r].tasks
                               THEN [task[t] EXCEPT !.sprint = Backlog] ELSE task[t]]
    /\ sprint' = [sprint EXCEPT ![s].row = "deleted"]
    /\ Finish(r)
    /\ UNCHANGED snap

----------------------------------------------------------------------------
(* assign_task() and the bulk sprint operation: check the sprint is live,
   then update the live tasks named. *)
AssignRead(r, s, T) ==
    /\ Live(s)
    /\ Begin(r, "assign", s, T)

AssignUpdate(r) ==
    LET rows == {t \in req[r].tasks : LiveTask(t)} IN
    /\ req[r].pc = "assign"
    /\ Free(rows, r)
    /\ task' = [t \in Task |-> IF t \in rows THEN [task[t] EXCEPT !.sprint = req[r].s]
                               ELSE task[t]]
    /\ Finish(r)
    /\ UNCHANGED <<sprint, snap>>

(* create_task() straight into a sprint: the check and the INSERT are one
   transaction, but the check takes no lock on the sprint. *)
CreateTaskRead(r, s, t) == Live(s) /\ FreshTask(t) /\ Begin(r, "insert", s, {t})

CreateTaskInsert(r) ==
    /\ req[r].pc = "insert"
    /\ \E status \in Status :
         task' = [t \in Task |->
                    IF t \in req[r].tasks
                    THEN [row |-> "live", sprint |-> req[r].s, status |-> status] ELSE task[t]]
    /\ Finish(r)
    /\ UNCHANGED <<sprint, snap>>

(* edit(): metadata, refused on a completed sprint by the state it read. *)
Editable(s) == sprint[s].state # "completed"

EditRead(r, s) ==
    /\ Live(s) /\ Editable(s)
    /\ Begin(r, "edit", s, {})

EditUpdate(r) ==
    /\ req[r].pc = "edit"
    /\ ~SprintLocked(req[r].s, r)
    /\ sprint' = [sprint EXCEPT ![req[r].s].edited = TRUE]
    /\ Finish(r)
    /\ UNCHANGED <<task, snap>>

----------------------------------------------------------------------------
(* Handlers whose effect on a task is one statement. *)
WriteTask(t, row) ==
    /\ ~TaskLocked(t, None)
    /\ task' = [task EXCEPT ![t] = row]
    /\ UNCHANGED <<sprint, snap, req>>

(* create_task() without a sprint. *)
CreateTask(t) ==
    /\ FreshTask(t)
    /\ WriteTask(t, [task[t] EXCEPT !.row = "live"])

(* move_task() between columns of different categories. *)
MoveTask(t) ==
    /\ LiveTask(t)
    /\ \E status \in Status : WriteTask(t, [task[t] EXCEPT !.status = status])

DeleteTask(t) == LiveTask(t) /\ WriteTask(t, [task[t] EXCEPT !.row = "deleted"])

RestoreTask(t) == task[t].row = "deleted" /\ WriteTask(t, [task[t] EXCEPT !.row = "live"])

(* unassign_task(), whose UPDATE also matches deleted rows, the bulk operation
   with no sprint, set_parent(). *)
Unschedule(t) == task[t].row # "absent" /\ WriteTask(t, [task[t] EXCEPT !.sprint = Backlog])

----------------------------------------------------------------------------
(* Failure.  A dropped connection or a failed statement ends the handler and
   rolls its transaction back; so does Postgres for one of the transactions
   of a lock cycle. *)
Abort(r) ==
    /\ req[r].pc # "idle"
    /\ Finish(r)
    /\ UNCHANGED <<sprint, task, snap>>

(* r cannot proceed before q ends. *)
WaitsFor(r, q) ==
    /\ r # q
    /\ \/ /\ req[r].pc \in {"complete", "delete_sprint", "start", "edit"}
          /\ req[q].pc \in {"target", "carry", "commit"} /\ req[r].s = req[q].s
       \/ /\ req[q].pc \in {"commit", "delete_sprint"}
          /\ \/ req[r].pc = "carry" /\ Unfinished(req[r].s) \cap req[q].tasks # {}
             \/ req[r].pc = "delete_tasks" /\ TasksOf(req[r].s) \cap req[q].tasks # {}

NeverDetected(r) == FALSE

DeadlockAbort(r) == (\E q \in Request : WaitsFor(r, q) /\ WaitsFor(q, r)) /\ Abort(r)

----------------------------------------------------------------------------
(* The next statement of a request in flight. *)
Step(r) ==
    \/ StartUpdate(r)
    \/ CompleteVelocity(r) \/ CompleteUpdate(r)
    \/ \E target \in Target : CompleteTarget(r, target)
    \/ CompleteCarry(r) \/ CompleteCommit(r)
    \/ DeleteTasks(r) \/ DeleteCommit(r)
    \/ AssignUpdate(r) \/ CreateTaskInsert(r) \/ EditUpdate(r)

Accept(r) ==
    \E s \in Sprint :
        \/ StartRead(r, s) \/ CompleteRead(r, s) \/ DeleteRead(r, s)
        \/ EditRead(r, s)
        \/ \E t \in Task : CreateTaskRead(r, s, t)
        \/ \E T \in SUBSET Task \ {{}} : AssignRead(r, s, T)

Direct ==
    \/ \E s \in Sprint : CreateSprint(s)
    \/ \E t \in Task : CreateTask(t) \/ MoveTask(t) \/ DeleteTask(t)
                        \/ RestoreTask(t) \/ Unschedule(t)

Next ==
    \/ Direct
    \/ \E r \in Request : Accept(r) \/ Step(r) \/ Abort(r) \/ DeadlockAbort(r)

Spec == Init /\ [][Next]_vars

(* A statement that can run eventually runs: the database serves its clients,
   waiters on a row lock are queued, and the deadlock detector breaks cycles.
   Nothing obliges a client to send a request or a connection to drop. *)
FairSpec == Spec /\ \A r \in Request : SF_vars(Step(r)) /\ WF_vars(DeadlockAbort(r))

(* One request at a time: what the handlers do when none overlaps another. *)
Quiet == \A r \in Request : req[r].pc = "idle"

SerialNext ==
    \/ Quiet /\ (Direct \/ \E r \in Request : Accept(r))
    \/ \E r \in Request : Step(r) \/ Abort(r)

----------------------------------------------------------------------------
(* Safety of the handlers, however they overlap *)

(* The type invariant: every row and every handler in flight has its shape,
   and the columns take the values their CHECK constraints list. *)
TypeOK ==
    /\ sprint \in [Sprint -> SprintRow]
    /\ task \in [Task -> TaskRow]
    /\ snap \in [Sprint -> Snapshot]
    /\ req \in [Request -> RequestRecord]

(* A project never has two active sprints, although start() decides from a
   state it read earlier and updates by id alone. *)
OneActiveSprint ==
    \A s, o \in Sprint :
        Live(s) /\ Live(o) /\ sprint[s].state = "active" /\ sprint[o].state = "active" => s = o

(* A completed sprint has a retro and a velocity, whichever of the overlapping
   complete() and start() requests wrote its state last. *)
CompletedIsRecorded ==
    \A s \in Sprint : sprint[s].state = "completed" => sprint[s].retro /\ sprint[s].velocity # None

(* The tasks complete() decided to carry over are still live, unfinished and
   in its sprint when it commits: nobody finishes, moves or deletes one in
   between. *)
CarriedAsDecided ==
    \A r \in Request : \A t \in req[r].tasks :
        req[r].pc = "commit" =>
            task[t] = [row |-> "live", sprint |-> req[r].s, status |-> "todo"]

(* The two together, for a completion as for the records it leaves. *)
CompletionIsSound == CompletedIsRecorded /\ CarriedAsDecided

(* A row of sprint_task_snapshots never changes once written, also when a
   sprint is completed a second time. *)
SnapshotImmutable ==
    [][\A s \in Sprint : \A t \in Task :
         snap[s][t] # "absent" => snap'[s][t] = snap[s][t]]_vars

(* Every handler that passed its checks ends, although complete() locks the
   sprint before the tasks and delete_sprint() the tasks before the sprint. *)
EveryRequestEnds == \A r \in Request : req[r].pc # "idle" ~> req[r].pc = "idle"

----------------------------------------------------------------------------
(* What the documentation promises: kept by requests one at a time *)

(* "planned -> active -> completed.  No going back." (domain/sprints.rs) *)
NoGoingBack ==
    [][\A s \in Sprint :
         /\ sprint[s].state = "completed" => sprint'[s].state = "completed"
         /\ sprint[s].state = "active" => sprint'[s].state # "planned"]_vars

(* velocity_points is a snapshot: once written it stays, whatever happens to
   the tasks (domain/sprints.rs). *)
VelocityDoesNotDrift ==
    [][\A s \in Sprint :
         sprint[s].velocity # None => sprint'[s].velocity = sprint[s].velocity]_vars

(* "Completed sprints stay frozen": edit() never changes the name, goal or
   dates of a sprint that is completed. *)
CompletedIsFrozen ==
    [][\A s \in Sprint :
         sprint[s].state = "completed" => sprint'[s].edited = sprint[s].edited]_vars

(* Deleting a sprint cannot lose work: a live task is in the backlog or in a
   sprint that still exists, so some page shows it. *)
NoWorkLost ==
    \A t \in Task : LiveTask(t) => task[t].sprint = Backlog \/ Live(task[t].sprint)

(* The two records of a completion agree: velocity counts exactly the
   top-level tasks the snapshot froze as done. *)
SnapshotMatchesVelocity ==
    \A s \in Sprint :
        sprint[s].velocity # None =>
            sprint[s].velocity = {t \in Task \ Subtask : snap[s][t] = "done"}

(* The contents are frozen before anything moves: a task a completion takes
   out of its sprint is in the snapshot of that sprint. *)
CarriedWorkIsInSnapshot ==
    [][\A r \in Request : \A t \in Task :
         CompleteCommit(r) /\ task'[t].sprint # task[t].sprint => snap'[req[r].s][t] # "absent"]_vars

(* Work is carried into a sprint that is still open when it arrives. *)
CarriedWorkLandsOpen ==
    [][\A r \in Request : \A t \in Task :
         CompleteCommit(r) /\ task'[t].sprint # task[t].sprint /\ task'[t].sprint # Backlog =>
            sprint'[task'[t].sprint].state # "completed"]_vars

=============================================================================
