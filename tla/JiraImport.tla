------------------------------ MODULE JiraImport ------------------------------
(***************************************************************************)
(* The import of a Jira export into a project, again and again while the   *)
(* team works on what was imported: the parser (domain/jira.rs), the       *)
(* import itself (domain/import_export.rs, routes/import_export.rs), and   *)
(* the handlers that touch the same tasks (routes/tasks.rs,                *)
(* routes/task_detail.rs), all of apps/api/src.                            *)
(*                                                                         *)
(* An import is one transaction under READ COMMITTED: it sees what others  *)
(* have committed when each of its statements starts, keeps the rows it    *)
(* wrote locked, and shows them at its commit.  Two may overlap.           *)
(***************************************************************************)
EXTENDS Naturals, FiniteSets

CONSTANTS
    Request,  \* import requests
    Plans,    \* parsed exports
    MaxTasks, \* bounds the tasks of the project
    MaxTouched, \* bounds the logs edited by hand
    None      \* no value

VARIABLES
    task,    \* the tasks with an external_ref, by number
    logs,    \* of each: live time logs as imported
    touched, \* history: tasks whose imported logs were edited or deleted by hand
    known,   \* whether the one who did and logged the work has an account
    sprint,  \* how many sprints of the plan's name are in each state
    txn      \* the import of each request, with what it has written

vars == <<task, logs, touched, known, sprint, txn>>

Id == 1 .. MaxTasks
State == {"planned", "active", "completed"}

----------------------------------------------------------------------------
(* parse_jira_csv(): what a plan says of its issues, the parent being named by key,
   or by a number that is the id of another row. *)
Issue(plan) == DOMAIN plan.status
ParentOf(plan, i) ==
    IF plan.parentKey[i] # None THEN plan.parentKey[i]
    ELSE IF \E j \in Issue(plan) : plan.number[j] = plan.parentId[i] /\ plan.parentId[i] # None
         THEN CHOOSE j \in Issue(plan) : plan.number[j] = plan.parentId[i]
         ELSE None

(* infer_category(), as far as a task being done goes. *)
Category(name) == IF name \in {"Resolved", "Closed"} THEN "done" ELSE "todo"

(* The state of an imported sprint: as the export has it, else history, unless it is
   dated, open ended and nothing else is active. *)
SprintState(plan, active) ==
    LET st == IF plan.sprint = "future" THEN "planned"
              ELSE IF plan.sprint \in {"active", "open ended"} THEN "active" ELSE "completed"
    IN IF st = "active" /\ active THEN "completed" ELSE st

----------------------------------------------------------------------------
TaskRow == [issue: UNION {Issue(plan) : plan \in Plans}, live: BOOLEAN, status: {"todo", "done"},
            completed: BOOLEAN, parent: Id \cup {None}, comments: 0 .. 2]
NoTxn == [pc |-> "idle", plan |-> None, left |-> {}, at |-> None, found |-> None,
          rows |-> <<>>, logs |-> {}, sprint |-> None, person |-> None]

Init ==
    /\ task = [t \in Id |-> None] /\ logs = [t \in Id |-> 0] /\ touched = {}
    /\ known = FALSE /\ sprint = [s \in State |-> 0] /\ txn = [r \in Request |-> NoTxn]

Live(t) == task[t] # None /\ task[t].live
Locked(t) == \E r \in Request : t \in DOMAIN txn[r].rows

(* A task is minted by UPDATE projects, which locks the project's row until the commit. *)
Minted(r) == {t \in DOMAIN txn[r].rows : task[t] = None}
ProjectLocked(r) == \E q \in Request \ {r} : Minted(q) # {}
Fresh == CHOOSE t \in Id : task[t] = None /\ ~Locked(t)

----------------------------------------------------------------------------
(* The assignees, reporters and watchers of the plan: matched by email or name, else
   provisioned if the request says so, and otherwise left out. *)
Person(create) == IF known THEN "matched" ELSE IF create THEN "provisioned" ELSE "unmatched"

(* import(): people, columns, labels and epics (the last three of no consequence here),
   then the sprint, unless it is known by its name.  Where two overlapping imports both add
   a person or a label, the second waits and fails, as if it had not begun. *)
Begin(r, plan, create) ==
    /\ txn[r].pc = "idle"
    /\ Person(create) = "provisioned" => \A q \in Request : txn[q].person # "provisioned"
    /\ LET there == \E s \in State : sprint[s] > 0
           st == SprintState(plan, sprint["active"] > 0)
       IN /\ ~there /\ st = "active" => \A q \in Request : txn[q].sprint # "active"
          /\ txn' = [txn EXCEPT ![r] = [NoTxn EXCEPT !.pc = "select", !.plan = plan, !.left = Issue(plan),
                                                     !.person = Person(create),
                                                     !.sprint = IF there THEN None ELSE st]]
    /\ UNCHANGED <<task, logs, touched, known, sprint>>

(* Pass 1, issue by issue: the task with the issue's key, if any. *)
Existing(i) == {t \in Id : Live(t) /\ task[t].issue = i}

Select(r) ==
    /\ txn[r].pc = "select" /\ txn[r].left # {}
    /\ LET i == CHOOSE x \in txn[r].left : TRUE
       IN txn' = [txn EXCEPT ![r].pc = "write", ![r].at = i, ![r].left = @ \ {i},
                             ![r].found = IF Existing(i) = {} THEN None ELSE CHOOSE t \in Existing(i) : TRUE]
    /\ UNCHANGED <<task, logs, touched, known, sprint>>

(* As if only the logs of the import itself were looked at. *)
LogOfThisImport(t) == \E r \in Request : t \in txn[r].logs

(* A worklog is left out when its log is there (same task, user, start and minutes), or
   its author has no account. *)
LogIsThere(t) == logs[t] > 0

Written(r, t, row) ==
    txn' = [txn EXCEPT ![r].pc = "select",
                       ![r].rows = [u \in DOMAIN @ \cup {t} |-> IF u = t THEN row ELSE @[u]],
                       ![r].logs = IF LogIsThere(t) \/ txn[r].person = "unmatched" THEN @ ELSE @ \cup {t}]

(* UPDATE tasks: whatever became of the row since the SELECT, its old values stay in the
   columns the statement does not name. *)
WriteUpdate(r) ==
    /\ txn[r].pc = "write" /\ txn[r].found # None
    /\ LET t == txn[r].found
           status == Category(txn[r].plan.status[txn[r].at])
       IN /\ ~Locked(t)
          /\ Written(r, t, [task[t] EXCEPT !.status = status, !.completed = (status = "done")])
    /\ UNCHANGED <<task, logs, touched, known, sprint>>

(* INSERT INTO tasks with its comments; tasks_external_ref_uniq holds against what was
   committed since the SELECT. *)
WriteInsert(r) ==
    /\ txn[r].pc = "write" /\ txn[r].found = None /\ ~ProjectLocked(r)
    /\ Existing(txn[r].at) = {} /\ \E t \in Id : task[t] = None /\ ~Locked(t)
    /\ LET status == Category(txn[r].plan.status[txn[r].at])
       IN Written(r, Fresh, [issue |-> txn[r].at, live |-> TRUE, status |-> status, completed |-> (status = "done"),
                             parent |-> None, comments |-> 1])
    /\ UNCHANGED <<task, logs, touched, known, sprint>>

Rollback(r) == txn' = [txn EXCEPT ![r] = NoTxn]

WriteConflicts(r) ==
    /\ txn[r].pc = "write" /\ txn[r].found = None /\ ~ProjectLocked(r) /\ Existing(txn[r].at) # {}
    /\ Rollback(r)
    /\ UNCHANGED <<task, logs, touched, known, sprint>>

(* A dry run, or a failure of a later statement. *)
Abandon(r) ==
    /\ txn[r].pc = "select" /\ txn[r].left = {} /\ Rollback(r)
    /\ UNCHANGED <<task, logs, touched, known, sprint>>

(* Pass 2: every task of the import under its parent, whatever that is under (and in
   the sprint, which no property follows); then the commit. *)
Nested(r) ==
    LET rows == txn[r].rows
        TaskOf(i) == CHOOSE t \in DOMAIN rows : rows[t].issue = i
        Parent(i) == ParentOf(txn[r].plan, i)
    IN [t \in DOMAIN rows |->
          [rows[t] EXCEPT !.parent = IF Parent(rows[t].issue) \in Issue(txn[r].plan)
                                       THEN TaskOf(Parent(rows[t].issue)) ELSE @]]

Commit(r) ==
    /\ txn[r].pc = "select" /\ txn[r].left = {}
    /\ txn[r].sprint = "active" => sprint["active"] = 0
    /\ LET rows == Nested(r)
       IN task' = [t \in Id |-> IF t \in DOMAIN rows THEN rows[t] ELSE task[t]]
    /\ logs' = [t \in Id |-> IF t \in txn[r].logs THEN logs[t] + 1 ELSE logs[t]]
    /\ sprint' = IF txn[r].sprint = None THEN sprint ELSE [sprint EXCEPT ![txn[r].sprint] = @ + 1]
    /\ known' = (known \/ txn[r].person = "provisioned")
    /\ Rollback(r)
    /\ UNCHANGED touched

----------------------------------------------------------------------------
(* The team: handlers that write one task wait for the import that holds it. *)
DeleteTask(t) ==
    /\ Live(t) /\ ~Locked(t)
    /\ task' = [task EXCEPT ![t].live = FALSE]
    /\ UNCHANGED <<logs, touched, known, sprint, txn>>

(* tasks_external_ref_uniq refuses it when the issue was imported again meanwhile. *)
RestoreTask(t) ==
    /\ task[t] # None /\ ~task[t].live /\ Existing(task[t].issue) = {}
    /\ \A r \in Request : \A u \in DOMAIN txn[r].rows : txn[r].rows[u].issue # task[t].issue
    /\ task' = [task EXCEPT ![t].live = TRUE]
    /\ UNCHANGED <<logs, touched, known, sprint, txn>>

(* Somebody edits or deletes an imported log: it is no longer the one of the export. *)
TouchLog(t) ==
    /\ logs[t] > 0 /\ t \notin touched /\ Cardinality(touched) < MaxTouched
    /\ logs' = [logs EXCEPT ![t] = @ - 1] /\ touched' = touched \cup {t}
    /\ UNCHANGED <<task, known, sprint, txn>>

----------------------------------------------------------------------------
Next ==
    \/ \E r \in Request :
          \/ \E plan \in Plans, create \in BOOLEAN : Begin(r, plan, create)
          \/ Select(r) \/ WriteUpdate(r) \/ WriteInsert(r) \/ WriteConflicts(r) \/ Abandon(r) \/ Commit(r)
    \/ \E t \in Id : DeleteTask(t) \/ RestoreTask(t) \/ TouchLog(t)

Spec == Init /\ [][Next]_vars

----------------------------------------------------------------------------
TypeOK ==
    /\ task \in [Id -> TaskRow \cup {None}] /\ logs \in [Id -> 0 .. 2] /\ touched \subseteq Id /\ known \in BOOLEAN
    /\ sprint \in [State -> Nat] /\ \A r \in Request : txn[r].pc \in {"idle", "select", "write"}

(* "A re-import updates rather than duplicates" (domain/import_export.rs): however imports
   overlap and whatever the team does meanwhile, an issue has one live task, with its
   comments once and its worklogs at most once, under the task of its parent if under any
   (set_parent() aside, which Subtasks has), and there is one active sprint. *)
ImportedOnce ==
    /\ \A t, u \in Id : Live(t) /\ Live(u) /\ task[t].issue = task[u].issue => t = u
    /\ \A t \in Id : task[t] # None => task[t].comments = 1 /\ logs[t] <= 1
    /\ \A t \in Id : task[t] # None /\ task[t].parent # None =>
          \E plan \in Plans : task[task[t].parent].issue = ParentOf(plan, task[t].issue)
    /\ sprint["active"] <= 1
=============================================================================
