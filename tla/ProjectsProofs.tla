--------------------------- MODULE ProjectsProofs ---------------------------
(***************************************************************************)
(* Theorems about routes/projects.rs: Projects, for any projects, keys,    *)
(* tasks and deletions, and ProjectMembers, for any users.                 *)
(*                                                                         *)
(* The clock makes the argument for Projects: nothing carries a deleted_at *)
(* later than now, so the deleted_at of a deletion marks exactly the rows  *)
(* it took.                                                                *)
(***************************************************************************)
EXTENDS Projects, FiniteSetTheorems, TLAPS

(* The parameters and the state of ProjectMembers. *)
CONSTANTS Admin, Member, Viewer
VARIABLES role, archived

Members == INSTANCE ProjectMembers

(* No value is no id, no key and no time. *)
NoneApart == None \notin Project /\ None \notin Key /\ None \notin Nat /\ LastTime \in Nat

(* Nothing was deleted after now. *)
DeletedInThePast ==
    /\ \A p \in Project : project[p].deleted # None => project[p].deleted <= now
    /\ \A t \in Task : task[t].deleted # None => task[t].deleted <= now

(* A task is in a project that was created. *)
TaskHasProject ==
    \A t \in Task : task[t].project # None => project[task[t].project].key # None

(* What the deletion of a project took is still marked with its deleted_at, and
   no task of that project is live. *)
DeletionIsRecorded ==
    \A p \in Project : project[p].deleted # None =>
        /\ took[p] = TakenDown(p)
        /\ \A t \in Task : task[t].project = p => task[t].deleted # None

Inv == TypeOK /\ DeletedInThePast /\ TaskHasProject /\ DeletionIsRecorded /\ KeysLeadHome
----------------------------------------------------------------------------
LEMMA InitInv == ASSUME NoneApart PROVE Init => Inv
<1> SUFFICES ASSUME Init PROVE Inv
  OBVIOUS
<1> USE DEF Init, NoneApart
<1>1. TypeOK
  BY DEF TypeOK, ProjectRow, TaskRow
<1>2. DeletedInThePast /\ TaskHasProject /\ DeletionIsRecorded
  BY DEF DeletedInThePast, TaskHasProject, DeletionIsRecorded
<1>3. KeysLeadHome
  BY DEF KeysLeadHome, Live
<1> QED
  BY <1>1, <1>2, <1>3 DEF Inv

(* What the types say of one row. *)
LEMMA Rows ==
    ASSUME NoneApart, TypeOK
    PROVE  /\ now \in Nat
           /\ \A p \in Project : /\ project[p] \in ProjectRow /\ project[p].key \in Key \cup {None}
                                 /\ project[p].deleted \in Nat \cup {None}
           /\ \A t \in Task : /\ task[t] \in TaskRow /\ task[t].project \in Project \cup {None}
                              /\ task[t].prefix \in Key \cup {None}
                              /\ task[t].deleted \in Nat \cup {None}
<1>1. now \in Nat /\ Time \subseteq Nat
  BY DEF NoneApart, TypeOK, Time
<1> QED
  BY <1>1 DEF TypeOK, ProjectRow, TaskRow

LEMMA CreateInv ==
    ASSUME NoneApart, Inv, NEW p \in Project, NEW key \in Key, Create(p, key)
    PROVE  Inv'
<1> USE DEF Inv, Create
<1>1. /\ project' = [project EXCEPT ![p].key = key] /\ project \in [Project -> ProjectRow]
      /\ project[p].key = None /\ key # None /\ UNCHANGED <<now, task, link, took>>
  BY DEF TypeOK, NoneApart
<1>2. TypeOK'
  BY <1>1 DEF TypeOK, ProjectRow
<1>3. \A q \in Project : /\ project'[q].deleted = project[q].deleted
                         /\ project'[q].key = IF q = p THEN key ELSE project[q].key
  BY <1>1 DEF ProjectRow
<1>4. DeletedInThePast' /\ TaskHasProject' /\ DeletionIsRecorded'
  BY <1>1, <1>3, Rows DEF DeletedInThePast, TaskHasProject, DeletionIsRecorded, TakenDown, NoneApart
<1>5. KeysLeadHome'
  <2>1. \A t \in Task : task[t].project # None => task[t].project \in Project \ {p}
    BY <1>1, Rows DEF TaskHasProject
  <2>2. \A q \in Project \ {p} : Live(q)' <=> Live(q)
    BY <1>3 DEF Live
  <2>3. \A q \in Project \ {p} : Live(q) => project[q].key # key
    BY DEF Taken
  <2>4. \A t \in Task : task[t].project # None =>
                           task[t].prefix = project'[task[t].project].key
    BY <1>3, <2>1 DEF KeysLeadHome
  <2>5. ASSUME NEW q \in Project, NEW o \in Project, Live(q)', Live(o)',
               project'[q].key = project'[o].key
        PROVE  q = o
    <3>1. q # p /\ o # p => q = o
      BY <1>3, <2>2, <2>5 DEF KeysLeadHome
    <3>2. (q # p /\ o # p) \/ (q = p /\ o = p)
      BY <1>3, <2>2, <2>3, <2>5
    <3> QED
      BY <3>1, <3>2
  <2> QED
    BY <1>1, <2>4, <2>5 DEF KeysLeadHome
<1> QED
  BY <1>2, <1>4, <1>5

(* The writes of one row of tasks that leave the projects as they are. *)
LEMMA CreateTaskInv ==
    ASSUME NoneApart, Inv, NEW t \in Task, NEW p \in Project, CreateTask(t, p)
    PROVE  Inv'
<1>1. /\ task' = [task EXCEPT ![t].project = p, ![t].prefix = project[p].key]
      /\ task \in [Task -> TaskRow] /\ UNCHANGED <<now, project, link, took>>
      /\ Live(p) /\ project[p].key \in Key \cup {None} /\ p # None
      /\ TypeOK /\ DeletedInThePast /\ TaskHasProject /\ KeysLeadHome /\ DeletionIsRecorded
  BY Rows DEF Inv, CreateTask, TypeOK, NoneApart
<1>2. TypeOK'
  <2>1. task' \in [Task -> TaskRow]
    BY <1>1 DEF TaskRow
  <2> QED
    BY <1>1, <2>1 DEF TypeOK
<1>3. \A s \in Task : /\ task'[s].deleted = task[s].deleted
                      /\ task'[s].project = IF s = t THEN p ELSE task[s].project
                      /\ task'[s].prefix = IF s = t THEN project[p].key ELSE task[s].prefix
  BY <1>1 DEF TaskRow
<1>4. DeletedInThePast' /\ TaskHasProject' /\ KeysLeadHome'
  <2>1. DeletedInThePast'
    BY <1>1, <1>3 DEF DeletedInThePast
  <2>2. TaskHasProject'
    BY <1>1, <1>3 DEF TaskHasProject, Live
  <2>3. \A s \in Task : task'[s].project # None =>
                         task'[s].prefix = project'[task'[s].project].key
    <3>1. ASSUME NEW s \in Task, task'[s].project # None, s # t
          PROVE  task'[s].prefix = project'[task'[s].project].key
      BY <1>1, <1>3, <3>1 DEF KeysLeadHome
    <3> QED
      BY <1>1, <1>3, <3>1
  <2>4. \A a, b \in Project : /\ project'[a].key # None /\ project'[a].deleted = None
                               /\ project'[b].key # None /\ project'[b].deleted = None
                               /\ project'[a].key = project'[b].key => a = b
    BY <1>1 DEF KeysLeadHome, Live
  <2>5. KeysLeadHome'
    BY <2>3, <2>4 DEF KeysLeadHome, Live
  <2> QED
    BY <2>1, <2>2, <2>5
<1>5. DeletionIsRecorded'
  <2>1. \A q \in Project : project[q].deleted # None => q # p
    BY <1>1 DEF Live
  <2>2. \A q \in Project : project[q].deleted # None => TakenDown(q)' = TakenDown(q)
    <3>1. ASSUME NEW q \in Project, project[q].deleted # None, NEW s \in Task
          PROVE  /\ task'[s].project = q /\ task'[s].deleted = project'[q].deleted
                 <=> task[s].project = q /\ task[s].deleted = project[q].deleted
      <4>1. CASE s = t
        <5>1. task[t].project # q /\ task'[t].project # q
          BY <1>1, <1>3, <2>1, <3>1, NoneApart DEF CreateTask, NoneApart
        <5> QED
          BY <4>1, <5>1
      <4>2. CASE s # t
        BY <1>1, <1>3, <4>2
      <4> QED
        BY <4>1, <4>2
    <3> QED
      BY <3>1 DEF TakenDown
  <2> QED
    BY <1>1, <1>3, <2>1, <2>2, Rows DEF DeletionIsRecorded
<1> QED
  BY <1>2, <1>4, <1>5 DEF Inv

LEMMA NotifyInv ==
    ASSUME NoneApart, Inv, NEW t \in Task, Notify(t)
    PROVE  Inv'
<1>1. TypeOK'
  BY Rows DEF Inv, Notify, TypeOK
<1>2. UNCHANGED <<now, project, task, took>>
  BY DEF Notify
<1> QED
  BY <1>1, <1>2
     DEF Inv, DeletedInThePast, TaskHasProject, DeletionIsRecorded, TakenDown, KeysLeadHome, Live

LEMMA RenameInv ==
    ASSUME NoneApart, Inv, NEW p \in Project, NEW new \in Key, Rename(p, new)
    PROVE  Inv'
<1> DEFINE old == project[p].key
<1> USE DEF Inv
<1>1. /\ project' = [project EXCEPT ![p].key = new] /\ project \in [Project -> ProjectRow]
      /\ task' = TasksRenamed(p, old, new) /\ task \in [Task -> TaskRow]
      /\ link' = [t \in Task |-> IF link[t] = old THEN new ELSE link[t]]
      /\ Live(p) /\ ~Taken(new) /\ UNCHANGED <<now, took>>
  BY DEF TypeOK, Rename
<1>2. TypeOK'
  <2>1. project' \in [Project -> ProjectRow]
    BY <1>1 DEF ProjectRow
  <2>2. \A t \in Task : [task[t] EXCEPT !.prefix = new] \in TaskRow
    BY <1>1 DEF TaskRow
  <2>3. task' \in [Task -> TaskRow]
    BY <1>1, <2>2 DEF TasksRenamed
  <2>4. link' \in [Task -> Key \cup {None}]
    BY <1>1 DEF TypeOK
  <2> QED
    BY <1>1, <2>1, <2>3, <2>4 DEF TypeOK
<1>3. \A q \in Project : /\ project'[q].deleted = project[q].deleted
                         /\ project'[q].key = IF q = p THEN new ELSE project[q].key
  BY <1>1 DEF ProjectRow
<1>4. \A t \in Task : /\ task'[t].deleted = task[t].deleted
                      /\ task'[t].project = task[t].project
                      /\ task'[t].prefix = IF task[t].project = p /\ task[t].prefix = old
                                             THEN new ELSE task[t].prefix
  BY <1>1 DEF TaskRow, TasksRenamed
<1>5. DeletedInThePast' /\ TaskHasProject'
  BY <1>1, <1>3, <1>4, NoneApart DEF DeletedInThePast, TaskHasProject, NoneApart
<1>6. DeletionIsRecorded'
  <2>1. \A q \in Project : TakenDown(q)' = TakenDown(q)
    BY <1>3, <1>4 DEF TakenDown
  <2> QED
    BY <1>1, <1>3, <1>4, <2>1 DEF DeletionIsRecorded
<1>7. KeysLeadHome'
  <2>1. \A q \in Project : Live(q)' <=> Live(q)
    BY <1>1, <1>3, NoneApart DEF Live, NoneApart
  <2>2. \A q \in Project \ {p} : Live(q) => project[q].key # new
    BY <1>1 DEF Taken
  <2>3. \A t \in Task : task'[t].project # None =>
                           task'[t].prefix = project'[task'[t].project].key
    BY <1>3, <1>4, Rows DEF KeysLeadHome
  <2> QED
    BY <1>3, <2>1, <2>2, <2>3 DEF KeysLeadHome
<1> QED
  BY <1>2, <1>5, <1>6, <1>7

LEMMA DeleteProjectInv ==
    ASSUME NoneApart, Inv, NEW p \in Project, DeleteProject(p)
    PROVE  Inv'
<1> DEFINE gone == {t \in Task : LiveTask(t) /\ task[t].project = p}
<1> USE DEF Inv
<1>1. /\ now' = now + 1 /\ now \in Nat /\ now' \in Time
      /\ project' = [project EXCEPT ![p].deleted = now'] /\ project \in [Project -> ProjectRow]
      /\ task' = [t \in Task |-> IF t \in gone THEN [task[t] EXCEPT !.deleted = now'] ELSE task[t]]
      /\ task \in [Task -> TaskRow]
      /\ took' = [took EXCEPT ![p] = gone] /\ took \in [Project -> SUBSET Task]
      /\ link' = link /\ Live(p)
  BY NoneApart DEF NoneApart, TypeOK, DeleteProject, Time
<1>2. TypeOK'
  <2>1. now' \in 0 .. LastTime
    BY <1>1 DEF Time
  <2>2. project' \in [Project -> ProjectRow]
    BY <1>1 DEF ProjectRow
  <2>3. task' \in [Task -> TaskRow]
    BY <1>1 DEF TaskRow
  <2>4. took' \in [Project -> SUBSET Task]
    BY <1>1
  <2> QED
    BY <1>1, <2>1, <2>2, <2>3, <2>4 DEF TypeOK
<1>3. \A q \in Project : /\ project'[q].deleted = IF q = p THEN now' ELSE project[q].deleted
                         /\ project'[q].key = project[q].key
  BY <1>1 DEF ProjectRow
<1>4. \A t \in Task : /\ task'[t].deleted = IF t \in gone THEN now' ELSE task[t].deleted
                      /\ task'[t].project = task[t].project
                      /\ task'[t].prefix = task[t].prefix
  BY <1>1 DEF TaskRow
<1>5. DeletedInThePast'
  BY <1>1, <1>3, <1>4, Rows DEF DeletedInThePast
<1>6. TaskHasProject'
  BY <1>3, <1>4, Rows DEF TaskHasProject
<1>7. DeletionIsRecorded'
  <2>1. now' \in Nat /\ now' # None
    BY <1>1, NoneApart DEF NoneApart
  <2>2. \A t \in Task : task[t].deleted # now'
    BY <1>1, <2>1, Rows DEF DeletedInThePast
  <2>3. TakenDown(p)' = gone
    BY <1>3, <1>4, <2>2 DEF TakenDown
  <2>4. \A t \in Task : task'[t].project = p => task'[t].deleted # None
    BY <1>4, <2>1, NoneApart DEF LiveTask, NoneApart
  <2>5. \A q \in Project \ {p} : TakenDown(q)' = TakenDown(q)
    BY <1>3, <1>4 DEF TakenDown
  <2>6. ASSUME NEW q \in Project, project'[q].deleted # None
        PROVE  /\ took'[q] = TakenDown(q)'
               /\ \A t \in Task : task'[t].project = q => task'[t].deleted # None
    <3>1. CASE q = p
      BY <1>1, <2>3, <2>4, <3>1
    <3>2. CASE q # p
      <4>1. project[q].deleted # None /\ took'[q] = took[q] /\ TakenDown(q)' = TakenDown(q)
        BY <1>1, <1>3, <2>5, <2>6, <3>2
      <4>2. \A t \in Task : task'[t].project = q => task'[t].deleted = task[t].deleted
        BY <1>4, <3>2
      <4> QED
        BY <1>4, <4>1, <4>2 DEF DeletionIsRecorded
    <3> QED
      BY <3>1, <3>2
  <2> QED
    BY <2>6 DEF DeletionIsRecorded
<1>8. KeysLeadHome'
  <2>1. \A q \in Project : Live(q)' => Live(q)
    BY <1>1, <1>3 DEF Live
  <2>2. \A t \in Task : task'[t].project # None =>
                           task'[t].prefix = project'[task'[t].project].key
    BY <1>3, <1>4, Rows DEF KeysLeadHome
  <2> QED
    BY <1>3, <2>1, <2>2 DEF KeysLeadHome
<1> QED
  BY <1>2, <1>5, <1>6, <1>7, <1>8

LEMMA RestoreProjectInv ==
    ASSUME NoneApart, Inv, NEW p \in Project, RestoreProject(p)
    PROVE  Inv'
<1> USE DEF Inv
<1>1. /\ project[p].deleted # None /\ ~Taken(project[p].key)
      /\ project' = [project EXCEPT ![p].deleted = None] /\ project \in [Project -> ProjectRow]
      /\ task' = [t \in Task |-> IF t \in TakenDown(p) THEN [task[t] EXCEPT !.deleted = None]
                                                       ELSE task[t]]
      /\ task \in [Task -> TaskRow] /\ UNCHANGED <<now, link, took>>
  BY DEF TypeOK, RestoreProject
<1>2. TypeOK'
  <2>1. project' \in [Project -> ProjectRow]
    BY <1>1 DEF ProjectRow
  <2>2. \A t \in Task : [task[t] EXCEPT !.deleted = None] \in TaskRow
    BY <1>1 DEF TaskRow
  <2>3. task' \in [Task -> TaskRow]
    BY <1>1, <2>2
  <2> QED
    BY <1>1, <2>1, <2>3 DEF TypeOK
<1>3. \A q \in Project : /\ project'[q].deleted = IF q = p THEN None ELSE project[q].deleted
                         /\ project'[q].key = project[q].key
  BY <1>1 DEF ProjectRow
<1>4. \A t \in Task : /\ task'[t].deleted = IF t \in TakenDown(p) THEN None ELSE task[t].deleted
                      /\ task'[t].project = task[t].project
                      /\ task'[t].prefix = task[t].prefix
  BY <1>1 DEF TaskRow
<1>5. DeletedInThePast' /\ TaskHasProject'
  BY <1>1, <1>3, <1>4, Rows DEF DeletedInThePast, TaskHasProject
<1>6. DeletionIsRecorded'
  <2>1. \A q \in Project \ {p} : \A t \in Task :
           task[t].project = q => task'[t].deleted = task[t].deleted
    BY <1>4 DEF TakenDown
  <2>2. \A q \in Project \ {p} : TakenDown(q)' = TakenDown(q)
    BY <1>3, <1>4, <2>1 DEF TakenDown
  <2>3. ASSUME NEW q \in Project, project'[q].deleted # None
        PROVE  /\ took'[q] = TakenDown(q)'
               /\ \A t \in Task : task'[t].project = q => task'[t].deleted # None
    <3>1. q # p /\ project[q].deleted # None
      BY <1>3, <2>3
    <3> QED
      BY <1>1, <1>4, <2>1, <2>2, <3>1 DEF DeletionIsRecorded
  <2> QED
    BY <2>3 DEF DeletionIsRecorded
<1>7. KeysLeadHome'
  <2>1. \A q \in Project \ {p} : Live(q)' => Live(q) /\ project[q].key # project[p].key
    BY <1>1, <1>3 DEF Live, Taken
  <2>2. \A t \in Task : task'[t].project # None =>
                           task'[t].prefix = project'[task'[t].project].key
    BY <1>3, <1>4, Rows DEF KeysLeadHome
  <2> QED
    BY <1>3, <2>1, <2>2 DEF KeysLeadHome
<1> QED
  BY <1>2, <1>5, <1>6, <1>7

(* The deletion or the restoration of one task of a live project. *)
LEMMA MarkTaskInv ==
    ASSUME NoneApart, Inv, NEW t \in Task, NEW time,
           Live(task[t].project), task[t].project # None \/ task[t].deleted # None,
           task' = [task EXCEPT ![t].deleted = time], UNCHANGED <<project, link, took>>,
           \/ time = None /\ now' = now
           \/ time = now' /\ now' = now + 1 /\ now < LastTime
    PROVE  Inv'
<1> USE DEF Inv
<1>1. /\ now \in Nat /\ now' \in 0 .. LastTime /\ now <= now'
      /\ time \in Time \cup {None} /\ (time # None => time <= now')
  BY Rows DEF NoneApart, TypeOK, Time
<1>2. task \in [Task -> TaskRow] /\ project' = project /\ link' = link /\ took' = took
  BY DEF TypeOK
<1>3. TypeOK'
  BY <1>1, <1>2 DEF TypeOK, TaskRow
<1>4. \A s \in Task : /\ task'[s].deleted = IF s = t THEN time ELSE task[s].deleted
                      /\ task'[s].project = task[s].project
                      /\ task'[s].prefix = task[s].prefix
  BY <1>2 DEF TaskRow
<1>5. DeletedInThePast'
  BY <1>1, <1>2, <1>4, Rows DEF DeletedInThePast
<1>6. TaskHasProject' /\ KeysLeadHome'
  BY <1>2, <1>4 DEF TaskHasProject, KeysLeadHome, Live
<1>7. DeletionIsRecorded'
  <2>1. \A q \in Project : project[q].deleted # None => task[t].project # q
    BY DEF Live
  <2>2. \A q \in Project : project[q].deleted # None => TakenDown(q)' = TakenDown(q)
    BY <1>2, <1>4, <2>1 DEF TakenDown
  <2> QED
    BY <1>2, <1>4, <2>1, <2>2 DEF DeletionIsRecorded
<1> QED
  BY <1>3, <1>5, <1>6, <1>7

LEMMA NextInv == ASSUME NoneApart PROVE Inv /\ [Next]_vars => Inv'
<1> SUFFICES ASSUME Inv, [Next]_vars PROVE Inv'
  OBVIOUS
<1>1. ASSUME NEW p \in Project, NEW key \in Key, Create(p, key) \/ Rename(p, key)
      PROVE  Inv'
  BY <1>1, CreateInv, RenameInv
<1>2. ASSUME NEW p \in Project, DeleteProject(p) \/ RestoreProject(p)
      PROVE  Inv'
  BY <1>2, DeleteProjectInv, RestoreProjectInv
<1>3. ASSUME NEW t \in Task, NEW p \in Project, CreateTask(t, p)
      PROVE  Inv'
  BY <1>3, CreateTaskInv
<1>4. ASSUME NEW t \in Task, Notify(t)
      PROVE  Inv'
  BY <1>4, NotifyInv
<1>5. ASSUME NEW t \in Task, DeleteTask(t)
      PROVE  Inv'
  BY <1>5, MarkTaskInv DEF DeleteTask, Reachable, LiveTask
<1>6. ASSUME NEW t \in Task, RestoreTask(t)
      PROVE  Inv'
  BY <1>6, MarkTaskInv DEF RestoreTask
<1>7. CASE UNCHANGED vars
  BY <1>7
     DEF vars, Inv, TypeOK, DeletedInThePast, TaskHasProject, DeletionIsRecorded, TakenDown,
         KeysLeadHome, Live
<1> QED
  BY <1>1, <1>2, <1>3, <1>4, <1>5, <1>6, <1>7 DEF Next

LEMMA Invariance == ASSUME NoneApart PROVE Spec => []Inv
<1>1. Init => Inv
  BY InitInv
<1>2. Inv /\ [Next]_vars => Inv'
  BY NextInv
<1> QED
  BY <1>1, <1>2, PTL DEF Spec

----------------------------------------------------------------------------
(* Type correctness: projects, tasks and links have their columns, whatever is
   created, renamed, deleted and restored (routes/projects.rs). *)
THEOREM TypeCorrect == ASSUME NoneApart PROVE Spec => []TypeOK
<1>1. Inv => TypeOK
  BY DEF Inv
<1> QED
  BY <1>1, Invariance, PTL

(* A key leads to one project: a task carries the key of its project, and live
   projects have different keys, whatever was renamed, deleted, restored and
   created under a freed key (create, edit and restore_project in
   routes/projects.rs). *)
THEOREM KeysAlwaysLeadHome == ASSUME NoneApart PROVE Spec => []KeysLeadHome
<1>1. Inv => KeysLeadHome
  BY DEF Inv
<1> QED
  BY <1>1, Invariance, PTL

(* The restoration of a project brings back exactly the tasks its deletion took,
   since no later deletion wrote the same deleted_at (restore_project in
   routes/projects.rs). *)
THEOREM RestorationIsExact == ASSUME NoneApart PROVE Spec => RestoreIsExact
<1> DEFINE Exact == \A p \in Project : project[p].deleted # None /\ project'[p].deleted = None =>
                        took[p] = {t \in Task : task[t].project = p /\ task'[t].deleted = None}
<1>1. ASSUME Inv, [Next]_vars
      PROVE  [Exact]_vars
  <2> SUFFICES ASSUME NEW p \in Project, project[p].deleted # None, project'[p].deleted = None
               PROVE  took[p] = {t \in Task : task[t].project = p /\ task'[t].deleted = None}
    OBVIOUS
  <2>1. project' # project
    OBVIOUS
  <2>2. project \in [Project -> ProjectRow] /\ task \in [Task -> TaskRow]
    BY <1>1 DEF Inv, TypeOK
  <2>3. RestoreProject(p)
    <3>1. ASSUME NEW q \in Project, NEW key \in Key, Create(q, key) \/ Rename(q, key)
          PROVE  project'[p].deleted = project[p].deleted
      BY <2>2, <3>1 DEF Create, Rename, ProjectRow
    <3>2. ASSUME NEW q \in Project, DeleteProject(q)
          PROVE  project'[p].deleted # None
      BY <1>1, <2>2, <3>2, NoneApart, Rows DEF DeleteProject, ProjectRow, NoneApart, Inv
    <3>3. ASSUME NEW q \in Project, RestoreProject(q), q # p
          PROVE  project'[p] = project[p]
      BY <2>2, <3>3 DEF RestoreProject
    <3> QED
      BY <1>1, <2>1, <3>1, <3>2, <3>3
         DEF Next, vars, CreateTask, Notify, DeleteTask, RestoreTask
  <2>4. \A t \in Task : task[t].project = p =>
                          (task'[t].deleted = None <=> t \in TakenDown(p))
    BY <1>1, <2>2, <2>3 DEF RestoreProject, Inv, DeletionIsRecorded, TaskRow
  <2> QED
    BY <1>1, <2>4 DEF Inv, DeletionIsRecorded, TakenDown
<1>2. Inv /\ [Next]_vars => [Exact]_vars
  BY <1>1
<1> QED
  BY <1>2, Invariance, PTL DEF Spec, RestoreIsExact

----------------------------------------------------------------------------
(* The members of a project always have a role, and nobody else does
   (project_members, routes/projects.rs). *)
THEOREM MembersTypeCorrect == Members!Spec => []Members!TypeOK
<1> USE DEF Members!TypeOK, Members!ProjectRole
<1>1. Members!Init => Members!TypeOK
  BY DEF Members!Init, Members!User
<1>2. Members!TypeOK /\ [Members!Next]_Members!vars => Members!TypeOK'
  <2> SUFFICES ASSUME Members!TypeOK, [Members!Next]_Members!vars PROVE Members!TypeOK'
    OBVIOUS
  <2>1. ASSUME NEW by \in Members!User, Members!Archive(by) \/ Members!Unarchive(by)
        PROVE  Members!TypeOK'
    BY <2>1 DEF Members!Archive, Members!Unarchive
  <2>2. ASSUME NEW by \in Members!User, NEW u \in Members!User, Members!RemoveMember(by, u)
        PROVE  Members!TypeOK'
    BY <2>2 DEF Members!RemoveMember
  <2>3. ASSUME NEW by \in Members!User, NEW u \in Members!User, NEW new \in Members!ProjectRole,
               Members!AddMember(by, u, new) \/ Members!ChangeMemberRole(by, u, new)
        PROVE  Members!TypeOK'
    BY <2>3 DEF Members!AddMember, Members!ChangeMemberRole
  <2>4. CASE UNCHANGED Members!vars
    BY <2>4 DEF Members!vars
  <2> QED
    BY <2>1, <2>2, <2>3, <2>4 DEF Members!Next
<1> QED
  BY <1>1, <1>2, PTL DEF Members!Spec

LEMMA SameCardinality == \A S : Members!Cardinality(S) = Cardinality(S)
  BY DEF Members!Cardinality, Cardinality

(* Unless it is the last lead, a user who loses the role leaves another lead. *)
LEMMA AnotherLead ==
    ASSUME NEW u \in Members!User, u \in Members!Leads, ~Members!LastLead(u)
    PROVE  \E o \in Members!Leads : o # u
<1> SUFFICES ASSUME Members!Leads = {u} PROVE FALSE
  OBVIOUS
<1>1. Cardinality(Members!Leads) = 1
  BY FS_Singleton
<1> QED
  BY <1>1, SameCardinality DEF Members!LastLead

(* The one way a project can lose its last lead is to add that lead again in another
   role: removals and changes of role ask ensure_not_last_lead()
   (routes/projects.rs). *)
THEOREM OnlyReaddingLosesTheLead == Members!Spec => Members!OnlyReaddingTakesTheLastLead
<1> DEFINE Readded ==
      Members!Leads # {} /\ Members!Leads' = {} =>
        \E by, u \in Members!User, new \in Members!ProjectRole :
          u \in Members!Leads /\ Members!AddMember(by, u, new)
<1>1. ASSUME Members!TypeOK, [Members!Next]_Members!vars
      PROVE  [Readded]_Members!vars
  <2> SUFFICES ASSUME Members!Leads # {}, Members!Leads' = {}, Members!Next
               PROVE  \E by, u \in Members!User, new \in Members!ProjectRole :
                        u \in Members!Leads /\ Members!AddMember(by, u, new)
    BY <1>1
  <2>1. role \in [Members!User -> Members!ProjectRole \cup {"none"}]
    BY <1>1 DEF Members!TypeOK
  <2>2. PICK lead \in Members!User : role[lead] = "lead" /\ lead \in Members!Leads
    BY DEF Members!Leads
  <2>3. \A o \in Members!User : role'[o] # "lead"
    BY DEF Members!Leads
  <2>4. role' # role
    BY <2>2, <2>3
  <2>5. ASSUME NEW u \in Members!User, NEW new, new # "lead" => ~Members!LastLead(u),
               role' = [role EXCEPT ![u] = new]
        PROVE  FALSE
    <3>1. new # "lead" /\ \A o \in Members!User \ {u} : role[o] # "lead"
      BY <2>1, <2>3, <2>5
    <3>2. u \in Members!Leads
      BY <2>2, <3>1
    <3> QED
      BY <2>5, <3>1, <3>2, AnotherLead DEF Members!Leads
  <2>6. ASSUME NEW by \in Members!User, NEW u \in Members!User, Members!RemoveMember(by, u)
        PROVE  FALSE
    BY <2>5, <2>6 DEF Members!RemoveMember
  <2>7. ASSUME NEW by \in Members!User, NEW u \in Members!User, NEW new \in Members!ProjectRole,
               Members!ChangeMemberRole(by, u, new)
        PROVE  FALSE
    <3>1. role' = [role EXCEPT ![u] = IF role[u] = "none" THEN role[u] ELSE new]
      BY <2>1, <2>7 DEF Members!ChangeMemberRole
    <3>2. role[u] # "none"
      BY <2>1, <2>4, <3>1
    <3> QED
      BY <2>5, <2>7, <3>1, <3>2 DEF Members!ChangeMemberRole
  <2>8. PICK by \in Members!User, u \in Members!User, new \in Members!ProjectRole :
          Members!AddMember(by, u, new)
    BY <2>4, <2>6, <2>7 DEF Members!Next, Members!Archive, Members!Unarchive
  <2>9. u \in Members!Leads
    <3> SUFFICES ASSUME u # lead PROVE FALSE
      BY <2>2
    <3> QED
      BY <2>1, <2>2, <2>3, <2>8 DEF Members!AddMember
  <2> QED
    BY <2>8, <2>9
<1>2. Members!TypeOK /\ [Members!Next]_Members!vars => [Readded]_Members!vars
  BY <1>1
<1> QED
  BY <1>2, MembersTypeCorrect, PTL DEF Members!Spec, Members!OnlyReaddingTakesTheLastLead

=============================================================================
