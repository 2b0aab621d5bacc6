------------------------------ MODULE Projects ------------------------------
(***************************************************************************)
(* Projects, their keys and the tasks that carry them: create(), edit(),   *)
(* delete_project() and restore_project() in                               *)
(* apps/api/src/routes/projects.rs, with the creation, deletion and        *)
(* restoration of tasks and the links of notifications.                    *)
(*                                                                         *)
(* A task key is its prefix and a number; the number never changes and is  *)
(* unique in its project, so the prefix stands for the key.                *)
(***************************************************************************)
EXTENDS Naturals, FiniteSets

CONSTANTS
    Project,   \* ids a row of projects may take: bounds the rows
    Key,       \* project keys
    Task,      \* ids a row of tasks may take: bounds the rows
    LastTime,  \* bounds the deletions
    None       \* no value

VARIABLES
    now,      \* now() of the last transaction that deleted something
    project,  \* table projects
    task,     \* table tasks
    link,     \* the prefix in the link of a notification about the task
    took      \* history: the tasks the last deletion of a project took with it

vars == <<now, project, task, link, took>>

----------------------------------------------------------------------------
Time == 1 .. LastTime
ProjectRow == [key: Key \cup {None}, deleted: Time \cup {None}]
TaskRow == [project: Project \cup {None}, prefix: Key \cup {None}, deleted: Time \cup {None}]

Live(p) == project[p].key # None /\ project[p].deleted = None
LiveTask(t) == task[t].project # None /\ task[t].deleted = None
Reachable(t) == LiveTask(t) /\ Live(task[t].project)

(* projects_key_active_idx covers the live projects only. *)
Taken(key) == \E p \in Project : Live(p) /\ project[p].key = key

Init ==
    /\ now = 0
    /\ project = [p \in Project |-> [key |-> None, deleted |-> None]]
    /\ task = [t \in Task |-> [project |-> None, prefix |-> None, deleted |-> None]]
    /\ link = [t \in Task |-> None]
    /\ took = [p \in Project |-> {}]

----------------------------------------------------------------------------
Create(p, key) ==
    /\ project[p].key = None /\ ~Taken(key)
    /\ p = CHOOSE q \in Project : project[q].key = None
    /\ project' = [project EXCEPT ![p].key = key]
    /\ UNCHANGED <<now, task, link, took>>

(* next_key() takes the prefix from the row of the live project. *)
CreateTask(t, p) ==
    /\ Live(p) /\ task[t].project = None
    /\ t = CHOOSE s \in Task : task[s].project = None
    /\ task' = [task EXCEPT ![t].project = p, ![t].prefix = project[p].key]
    /\ UNCHANGED <<now, project, link, took>>

(* notify() with the link /tasks/<key>, about a task somebody works on. *)
Notify(t) ==
    /\ Reachable(t)
    /\ link' = [link EXCEPT ![t] = task[t].prefix]
    /\ UNCHANGED <<now, project, task, took>>

LiveTasksRenamed(p, old, new) ==
    [t \in Task |-> IF LiveTask(t) /\ task[t].project = p /\ task[t].prefix = old
                      THEN [task[t] EXCEPT !.prefix = new] ELSE task[t]]

(* key LIKE old || '-%', of the project, deleted tasks too. *)
TasksRenamed(p, old, new) ==
    [t \in Task |-> IF task[t].project = p /\ task[t].prefix = old
                      THEN [task[t] EXCEPT !.prefix = new] ELSE task[t]]

(* edit() with another key: the project, its tasks, and every link with the old
   prefix. *)
Rename(p, new) ==
    LET old == project[p].key IN
    /\ Live(p) /\ new # old /\ ~Taken(new)
    /\ project' = [project EXCEPT ![p].key = new]
    /\ task' = TasksRenamed(p, old, new)
    /\ link' = [t \in Task |-> IF link[t] = old THEN new ELSE link[t]]
    /\ UNCHANGED <<now, took>>

----------------------------------------------------------------------------
(* The project and every live task get the same deleted_at. *)
DeleteProject(p) ==
    /\ Live(p) /\ now < LastTime
    /\ now' = now + 1
    /\ project' = [project EXCEPT ![p].deleted = now']
    /\ task' = [t \in Task |-> IF LiveTask(t) /\ task[t].project = p
                                 THEN [task[t] EXCEPT !.deleted = now'] ELSE task[t]]
    /\ took' = [took EXCEPT ![p] = {t \in Task : LiveTask(t) /\ task[t].project = p}]
    /\ UNCHANGED link

EveryTask(p) == {t \in Task : task[t].project = p /\ ~LiveTask(t)}

(* project_id = $1 AND deleted_at = $2 *)
TakenDown(p) == {t \in Task : task[t].project = p /\ task[t].deleted = project[p].deleted}

RestoreProject(p) ==
    /\ project[p].deleted # None /\ ~Taken(project[p].key)
    /\ project' = [project EXCEPT ![p].deleted = None]
    /\ task' = [t \in Task |-> IF t \in TakenDown(p) THEN [task[t] EXCEPT !.deleted = None]
                                                     ELSE task[t]]
    /\ UNCHANGED <<now, link, took>>

DeleteTask(t) ==
    /\ Reachable(t) /\ now < LastTime
    /\ now' = now + 1
    /\ task' = [task EXCEPT ![t].deleted = now']
    /\ UNCHANGED <<project, link, took>>

RestoreTask(t) ==
    /\ task[t].deleted # None /\ Live(task[t].project)
    /\ task' = [task EXCEPT ![t].deleted = None]
    /\ UNCHANGED <<now, project, link, took>>

----------------------------------------------------------------------------
Next ==
    \/ \E p \in Project :
         \/ DeleteProject(p) \/ RestoreProject(p)
         \/ \E key \in Key : Create(p, key) \/ Rename(p, key)
         \/ \E t \in Task : CreateTask(t, p)
    \/ \E t \in Task : Notify(t) \/ DeleteTask(t) \/ RestoreTask(t)

Spec == Init /\ [][Next]_vars

----------------------------------------------------------------------------
TypeOK ==
    /\ now \in 0 .. LastTime
    /\ project \in [Project -> ProjectRow]
    /\ task \in [Task -> TaskRow]
    /\ link \in [Task -> Key \cup {None}]
    /\ took \in [Project -> SUBSET Task]

(* Whatever was renamed, deleted, restored and created under a freed key, a task key
   leads to one project: a task carries the key of its project, and live projects
   have different keys, so resolve_project_from_task_key() finds one row. *)
KeysLeadHome ==
    /\ \A t \in Task : task[t].project # None => task[t].prefix = project[task[t].project].key
    /\ \A p, q \in Project : Live(p) /\ Live(q) /\ project[p].key = project[q].key => p = q

(* The restoration of a project brings back the tasks its deletion took, all of them
   and no other: what somebody had deleted by hand before stays deleted
   (delete_project and restore_project in routes/projects.rs). *)
RestoreIsExact ==
    [][\A p \in Project : project[p].deleted # None /\ project'[p].deleted = None =>
         took[p] = {t \in Task : task[t].project = p /\ task'[t].deleted = None}]_vars

(* The link of a notification leads to the task it is about, wherever that task's
   project can be opened (the comment on the rewriting of links in edit(),
   routes/projects.rs). *)
LinksLeadHome ==
    \A t \in Task : Reachable(t) /\ link[t] # None => link[t] = task[t].prefix

=============================================================================
