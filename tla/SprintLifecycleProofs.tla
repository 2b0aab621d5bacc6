----------------------- MODULE SprintLifecycleProofs -----------------------
(***************************************************************************)
(* Theorems about SprintLifecycle, for any sprints, tasks and requests.    *)
(*                                                                         *)
(* The safety invariants are not inductive by themselves: what an action   *)
(* may do to the tables depends on what the handler in flight has read     *)
(* and locked.  Inv adds the facts about the requests that make them so.   *)
(***************************************************************************)
EXTENDS SprintLifecycle, TLAPS

(* The sets the types are made of. *)
USE DEF Row, State, Status, Target

(***************************************************************************)
(* The inductive invariant                                                 *)
(***************************************************************************)

(* A handler in flight works on a sprint that exists, possibly deleted. *)
SprintExists ==
    \A r \in Request : req[r].pc # "idle" =>
        req[r].s \in Sprint /\ sprint[req[r].s].row # "absent"

(* complete() has no task rows locked before it carries them over, and carries
   only when the request names where to. *)
CarryShape ==
    \A r \in Request :
        /\ req[r].pc \in {"velocity", "complete", "target", "carry"} => req[r].tasks = {}
        /\ req[r].pc = "carry" => req[r].target # None
        /\ req[r].pc = "commit" /\ req[r].target = None => req[r].tasks = {}

(* The row locks exclude each other. *)
LocksDisjoint ==
    \A r, q \in Request :
        r # q /\ {req[r].pc, req[q].pc} \subseteq {"commit", "delete_sprint"} =>
            req[r].tasks \cap req[q].tasks = {}

(* A row about to be inserted is in no table and in no other handler. *)
InsertIsFresh ==
    \A r \in Request : req[r].pc = "insert" =>
        \A t \in req[r].tasks :
            /\ task[t].row = "absent"
            /\ \A q \in Request \ {r} : req[q].pc = "insert" => t \notin req[q].tasks

(* The row of a new sprint starts planned. *)
AbsentIsPlanned == \A s \in Sprint : sprint[s].row = "absent" => sprint[s].state = "planned"

Inv ==
    /\ TypeOK
    /\ SprintExists /\ CarryShape /\ LocksDisjoint /\ InsertIsFresh /\ AbsentIsPlanned
    /\ OneActiveSprint /\ CompletedIsRecorded /\ CarriedAsDecided

(***************************************************************************)
(* What the operators the actions are built from return                    *)
(***************************************************************************)
LEMMA RowSets ==
    ASSUME NEW s
    PROVE  /\ TasksOf(s) \subseteq Task
           /\ Counted(s) \subseteq Task
           /\ Unfinished(s) \subseteq Task
  BY DEF TasksOf, Counted, Unfinished

LEMMA SnapshotTypes ==
    ASSUME TypeOK
    PROVE  /\ NoSnapshot \in Snapshot
           /\ \A s : SnapshotRows(s) \in Snapshot
           /\ \A old, new \in Snapshot : Merge(old, new) \in Snapshot
  BY DEF TypeOK, NoSnapshot, Snapshot, SnapshotRows, Merge, TaskRow, TasksOf

LEMMA SprintRowTypes ==
    ASSUME TypeOK, NEW s \in Sprint, NEW counted \in SUBSET Task
    PROVE  Completed(s, counted) \in SprintRow /\ Opened(s) \in SprintRow
  BY DEF TypeOK, SprintRow, Completed, Opened

(* A statement that sets one column of a sprint. *)
LEMMA SprintColumnTypes ==
    ASSUME TypeOK, NEW s \in Sprint, NEW row \in Row
    PROVE  /\ [sprint EXCEPT ![s].state = "active"] \in [Sprint -> SprintRow]
           /\ [sprint EXCEPT ![s].edited = TRUE] \in [Sprint -> SprintRow]
           /\ [sprint EXCEPT ![s].row = row] \in [Sprint -> SprintRow]
<1>1. sprint \in [Sprint -> SprintRow] /\ sprint[s] \in SprintRow /\ "active" \in State
  BY DEF TypeOK, State
<1>2. [sprint[s] EXCEPT !.state = "active"] \in SprintRow
  BY <1>1 DEF SprintRow
<1>3. [sprint[s] EXCEPT !.edited = TRUE] \in SprintRow
  BY <1>1 DEF SprintRow
<1>4. [sprint[s] EXCEPT !.row = row] \in SprintRow
  BY <1>1 DEF SprintRow
<1> QED
  BY <1>1, <1>2, <1>3, <1>4

LEMMA IdleType == Idle \in RequestRecord
  BY DEF Idle, RequestRecord, NoSnapshot, Snapshot

(***************************************************************************)
(* Every action preserves the types                                        *)
(***************************************************************************)
LEMMA ContinueType ==
    ASSUME TypeOK, NEW r \in Request, NEW record \in RequestRecord, Continue(r, record)
    PROVE  req' \in [Request -> RequestRecord]
  BY DEF TypeOK, Continue

LEMMA BeginType ==
    ASSUME TypeOK, NEW r \in Request, NEW s \in Sprint, NEW T \in SUBSET Task,
           NEW pc \in {"start", "velocity", "delete_tasks", "assign", "insert", "edit"},
           Begin(r, pc, s, T)
    PROVE  TypeOK'
<1>1. [Idle EXCEPT !.pc = pc, !.s = s, !.tasks = T] \in RequestRecord
  BY IdleType DEF RequestRecord
<1> QED
  BY <1>1, ContinueType DEF Begin, TypeOK

LEMMA StepType ==
    ASSUME TypeOK, SprintExists, CarryShape, NEW r \in Request, Step(r)
    PROVE  TypeOK'
<1> DEFINE s == req[r].s
<1>0. /\ req[r] \in RequestRecord /\ req[r].pc # "idle" /\ s \in Sprint
      /\ Finish(r) => req' \in [Request -> RequestRecord]
  BY IdleType, ContinueType
     DEF TypeOK, SprintExists, Finish, Step, StartUpdate, CompleteVelocity, CompleteUpdate,
         CompleteTarget, CompleteCarry, CompleteCommit, DeleteTasks, DeleteCommit,
         AssignUpdate, CreateTaskInsert, EditUpdate
<1>1. CASE StartUpdate(r)
  <2>1. sprint' \in [Sprint -> SprintRow]
    BY <1>0, <1>1, SprintColumnTypes DEF StartUpdate, TypeOK
  <2> QED
    BY <1>0, <1>1, <2>1 DEF StartUpdate, TypeOK
<1>2. CASE CompleteVelocity(r)
  <2>1. [req[r] EXCEPT !.pc = "complete", !.counted = Counted(s)] \in RequestRecord
    BY <1>0, RowSets DEF RequestRecord
  <2> QED
    BY <1>2, <2>1, ContinueType DEF CompleteVelocity, TypeOK
<1>3. CASE CompleteUpdate(r)
  <2>1. [req[r] EXCEPT !.pc = "target", !.frozen = SnapshotRows(s)] \in RequestRecord
    BY <1>0, SnapshotTypes DEF RequestRecord
  <2> QED
    BY <1>3, <2>1, ContinueType DEF CompleteUpdate, TypeOK
<1>4. ASSUME NEW target \in Target, CompleteTarget(r, target) PROVE TypeOK'
  <2>1. [req[r] EXCEPT !.pc = IF target = None THEN "commit" ELSE "carry",
                       !.target = target] \in RequestRecord
    BY <1>0 DEF RequestRecord
  <2> QED
    BY <1>4, <2>1, ContinueType DEF CompleteTarget, TypeOK
<1>5. CASE CompleteCarry(r)
  <2>1. [req[r] EXCEPT !.pc = "commit", !.tasks = Unfinished(s)] \in RequestRecord
    BY <1>0, RowSets DEF RequestRecord
  <2> QED
    BY <1>5, <2>1, ContinueType DEF CompleteCarry, TypeOK
<1>6. CASE CompleteCommit(r)
  <2>1. /\ req[r].counted \in SUBSET Task /\ req[r].frozen \in Snapshot
        /\ req[r].tasks # {} => req[r].target \in Sprint \cup {Backlog}
    BY <1>0, <1>6 DEF CompleteCommit, CarryShape, RequestRecord
  <2>2. sprint' \in [Sprint -> SprintRow]
    BY <1>6, <2>1, SprintRowTypes DEF CompleteCommit, TypeOK
  <2>3. task' \in [Task -> TaskRow]
    BY <1>6, <2>1 DEF CompleteCommit, TypeOK, TaskRow
  <2>4. snap' \in [Sprint -> Snapshot]
    BY <1>0, <1>6, <2>1, SnapshotTypes DEF CompleteCommit, TypeOK
  <2> QED
    BY <1>0, <1>6, <2>2, <2>3, <2>4 DEF CompleteCommit, TypeOK
<1>7. CASE DeleteTasks(r)
  <2>1. [req[r] EXCEPT !.pc = "delete_sprint", !.tasks = TasksOf(s)] \in RequestRecord
    BY <1>0, RowSets DEF RequestRecord
  <2> QED
    BY <1>7, <2>1, ContinueType DEF DeleteTasks, TypeOK
<1>8. CASE DeleteCommit(r)
  <2>1. task' \in [Task -> TaskRow]
    BY <1>8 DEF DeleteCommit, TypeOK, TaskRow
  <2>2. sprint' \in [Sprint -> SprintRow]
    BY <1>0, <1>8, SprintColumnTypes DEF DeleteCommit, Row
  <2> QED
    BY <1>0, <1>8, <2>1, <2>2 DEF DeleteCommit, TypeOK
<1>9. CASE AssignUpdate(r)
  <2>1. task' \in [Task -> TaskRow]
    BY <1>0, <1>9 DEF AssignUpdate, TypeOK, TaskRow
  <2> QED
    BY <1>0, <1>9, <2>1 DEF AssignUpdate, TypeOK
<1>10. CASE CreateTaskInsert(r)
  <2>1. task' \in [Task -> TaskRow]
    BY <1>0, <1>10 DEF CreateTaskInsert, TypeOK, TaskRow
  <2> QED
    BY <1>0, <1>10, <2>1 DEF CreateTaskInsert, TypeOK
<1>11. CASE EditUpdate(r)
  <2>1. sprint' \in [Sprint -> SprintRow]
    BY <1>0, <1>11, SprintColumnTypes DEF EditUpdate
  <2> QED
    BY <1>0, <1>11, <2>1 DEF EditUpdate, TypeOK
<1> QED
  BY <1>1, <1>2, <1>3, <1>4, <1>5, <1>6, <1>7, <1>8, <1>9, <1>10, <1>11 DEF Step

LEMMA DirectType ==
    ASSUME TypeOK, Direct
    PROVE  TypeOK'
<1>1. ASSUME NEW s \in Sprint, CreateSprint(s) PROVE TypeOK'
  BY <1>1 DEF CreateSprint, TypeOK, SprintRow
<1>2. ASSUME NEW t \in Task, NEW row \in TaskRow, WriteTask(t, row) PROVE TypeOK'
  BY <1>2 DEF WriteTask, TypeOK
<1>3. ASSUME NEW t \in Task,
             CreateTask(t) \/ MoveTask(t) \/ DeleteTask(t) \/ RestoreTask(t) \/ Unschedule(t)
      PROVE  \E row \in TaskRow : WriteTask(t, row)
  <2>1. task[t] \in TaskRow
    BY DEF TypeOK
  <2>2. /\ [task[t] EXCEPT !.row = "live"] \in TaskRow
        /\ [task[t] EXCEPT !.row = "deleted"] \in TaskRow
        /\ [task[t] EXCEPT !.sprint = Backlog] \in TaskRow
        /\ \A status \in Status : [task[t] EXCEPT !.status = status] \in TaskRow
    BY <2>1 DEF TaskRow
  <2> QED
    BY <1>3, <2>2 DEF CreateTask, MoveTask, DeleteTask, RestoreTask, Unschedule
<1> QED
  BY <1>1, <1>2, <1>3 DEF Direct

(***************************************************************************)
(* Every action preserves the rest of Inv                                  *)
(***************************************************************************)
Shape == SprintExists /\ CarryShape /\ LocksDisjoint /\ InsertIsFresh /\ AbsentIsPlanned

(* The types of the record fields the arguments below need. *)
LEMMA Fields ==
    ASSUME TypeOK
    PROVE  /\ \A r \in Request : req[r].tasks \subseteq Task
           /\ req \in [Request -> RequestRecord]
           /\ \A r \in Request : req[r].s \in Sprint \cup {None}
  BY DEF TypeOK, RequestRecord

LEMMA BeginInv ==
    ASSUME Inv, NEW r \in Request, NEW s \in Sprint, NEW T \in SUBSET Task,
           NEW pc \in {"start", "velocity", "delete_tasks", "assign", "insert", "edit"},
           sprint[s].row # "absent",
           pc = "velocity" => T = {},
           pc = "insert" => \A t \in T : FreshTask(t),
           Begin(r, pc, s, T)
    PROVE  Inv'
<1> DEFINE record == [Idle EXCEPT !.pc = pc, !.s = s, !.tasks = T]
<1>1. /\ req'[r] = record /\ \A q \in Request \ {r} : req'[q] = req[q]
      /\ record.pc = pc /\ record.s = s /\ record.tasks = T
      /\ sprint' = sprint /\ task' = task
  BY DEF Begin, Continue, Inv, TypeOK, Idle
<1> HIDE DEF record
<1>2. TypeOK'
  BY BeginType DEF Inv
<1>3. SprintExists' /\ CarryShape' /\ AbsentIsPlanned'
  BY <1>1 DEF Inv, SprintExists, CarryShape, AbsentIsPlanned
<1>4. LocksDisjoint'
  BY <1>1 DEF Inv, LocksDisjoint
<1>5. InsertIsFresh'
  BY <1>1 DEF Inv, InsertIsFresh, FreshTask
<1>6. OneActiveSprint' /\ CompletedIsRecorded' /\ CarriedAsDecided'
  BY <1>1 DEF Inv, OneActiveSprint, CompletedIsRecorded, CarriedAsDecided, Live
<1> QED
  BY <1>2, <1>3, <1>4, <1>5, <1>6 DEF Inv

LEMMA AcceptInv ==
    ASSUME Inv, NEW r \in Request, Accept(r)
    PROVE  Inv'
<1>1. ASSUME NEW s \in Sprint, StartRead(r, s) PROVE Inv'
  BY <1>1, BeginInv DEF StartRead, Live
<1>2. ASSUME NEW s \in Sprint, CompleteRead(r, s) PROVE Inv'
  BY <1>2, BeginInv DEF CompleteRead, Live
<1>3. ASSUME NEW s \in Sprint, DeleteRead(r, s) PROVE Inv'
  BY <1>3, BeginInv DEF DeleteRead, Live
<1>4. ASSUME NEW s \in Sprint, EditRead(r, s) PROVE Inv'
  BY <1>4, BeginInv DEF EditRead, Live
<1>5. ASSUME NEW s \in Sprint, NEW t \in Task, CreateTaskRead(r, s, t) PROVE Inv'
  BY <1>5, BeginInv DEF CreateTaskRead, Live
<1>6. ASSUME NEW s \in Sprint, NEW T \in SUBSET Task, AssignRead(r, s, T) PROVE Inv'
  BY <1>6, BeginInv DEF AssignRead, Live
<1> QED
  BY <1>1, <1>2, <1>3, <1>4, <1>5, <1>6 DEF Accept

(* What a handler that ends may do to the rows: they are never removed, it
   inserts only the tasks it was to insert, and the rows that another request
   is about to commit stay as that request decided. *)
SprintsStay == \A s \in Sprint : sprint[s].row # "absent" => sprint'[s].row # "absent"

OnlyInserts(r) ==
    \A t \in Task : task[t].row = "absent" =>
        \/ task'[t].row = "absent"
        \/ req[r].pc = "insert" /\ t \in req[r].tasks

HeldRowsStay(r) ==
    \A q \in Request \ {r} : req[q].pc = "commit" =>
        \A t \in req[q].tasks : task'[t] = task[t]

(* A handler that ends, whatever it wrote, leaves no trace in req. *)
LEMMA FinishShape ==
    ASSUME Inv, NEW r \in Request, Finish(r), SprintsStay, AbsentIsPlanned', OnlyInserts(r)
    PROVE  Shape'
<1>1. /\ req'[r].pc = "idle" /\ req'[r].tasks = {}
      /\ \A q \in Request \ {r} : req'[q] = req[q]
  BY DEF Finish, Continue, Inv, TypeOK, Idle
<1>2. SprintExists' /\ CarryShape'
  BY <1>1 DEF Inv, SprintExists, CarryShape, SprintsStay
<1>3. LocksDisjoint'
  BY <1>1 DEF Inv, LocksDisjoint
<1>4. InsertIsFresh'
  BY <1>1, Fields DEF Inv, InsertIsFresh, OnlyInserts
<1> QED
  BY <1>2, <1>3, <1>4 DEF Shape

(* The same for the carry-over decisions. *)
LEMMA FinishCarried ==
    ASSUME Inv, NEW r \in Request, Finish(r), HeldRowsStay(r)
    PROVE  CarriedAsDecided'
<1>1. /\ req'[r].pc = "idle" /\ req'[r].tasks = {}
      /\ \A q \in Request \ {r} : req'[q] = req[q]
  BY DEF Finish, Continue, Inv, TypeOK, Idle
<1> QED
  BY <1>1 DEF Inv, CarriedAsDecided, HeldRowsStay

(* A handler that ends having written no table. *)
LEMMA AbortInv ==
    ASSUME Inv, NEW r \in Request, Finish(r), UNCHANGED <<sprint, task, snap>>
    PROVE  Inv'
<1>1. TypeOK'
  BY IdleType, ContinueType DEF Inv, TypeOK, Finish
<1>2. AbsentIsPlanned'
  BY DEF Inv, AbsentIsPlanned
<1>3. Shape'
  <2>1. SprintsStay /\ OnlyInserts(r)
    BY DEF SprintsStay, OnlyInserts
  <2> QED
    BY <1>2, <2>1, FinishShape
<1>4. CarriedAsDecided'
  BY FinishCarried DEF HeldRowsStay
<1>5. OneActiveSprint' /\ CompletedIsRecorded'
  BY DEF Inv, OneActiveSprint, CompletedIsRecorded, Live
<1> QED
  BY <1>1, <1>3, <1>4, <1>5 DEF Inv, Shape

(* A step of complete() or delete_sprint() that only fills its own record. *)
LEMMA ContinueInv ==
    ASSUME Inv, NEW r \in Request, TypeOK', req[r].pc # "idle",
           UNCHANGED <<sprint, task, snap>>,
           \A q \in Request \ {r} : req'[q] = req[q],
           req'[r].s = req[r].s,
           req'[r].pc \in {"complete", "target", "carry", "commit", "delete_sprint"},
           req'[r].pc \in {"complete", "target", "carry"} => req'[r].tasks = {},
           req'[r].pc = "carry" => req'[r].target # None,
           req'[r].pc = "commit" /\ req'[r].target = None => req'[r].tasks = {},
           \A q \in Request \ {r} :
               req[q].pc \in {"commit", "delete_sprint"} => req'[r].tasks \cap req[q].tasks = {},
           req'[r].pc = "commit" =>
               \A t \in req'[r].tasks :
                   task[t] = [row |-> "live", sprint |-> req[r].s, status |-> "todo"]
    PROVE  Inv'
<1>1. SprintExists' /\ CarryShape' /\ AbsentIsPlanned'
  BY DEF Inv, SprintExists, CarryShape, AbsentIsPlanned
<1>2. LocksDisjoint'
  <2>1. ASSUME NEW a \in Request, NEW b \in Request, a # b,
               {req'[a].pc, req'[b].pc} \subseteq {"commit", "delete_sprint"}
        PROVE  req'[a].tasks \cap req'[b].tasks = {}
    <3>1. CASE a = r
      BY <2>1, <3>1
    <3>2. CASE b = r
      BY <2>1, <3>2
    <3>3. CASE a # r /\ b # r
      BY <2>1, <3>3 DEF Inv, LocksDisjoint
    <3> QED
      BY <3>1, <3>2, <3>3
  <2> QED
    BY <2>1 DEF LocksDisjoint
<1>3. InsertIsFresh'
  BY DEF Inv, InsertIsFresh
<1>4. OneActiveSprint' /\ CompletedIsRecorded'
  BY DEF Inv, OneActiveSprint, CompletedIsRecorded, Live
<1>5. CarriedAsDecided'
  BY DEF Inv, CarriedAsDecided
<1> QED
  BY <1>1, <1>2, <1>3, <1>4, <1>5 DEF Inv

(* The rows a carry-over decides on, and the rows nobody else has locked. *)
LEMMA UnfinishedRows ==
    ASSUME TypeOK, NEW s \in Sprint
    PROVE  \A t \in Unfinished(s) :
               task[t] = [row |-> "live", sprint |-> s, status |-> "todo"]
  BY DEF TypeOK, TaskRow, Unfinished, TasksOf, LiveTask

LEMMA FreeRows ==
    ASSUME Inv, NEW r \in Request, NEW T \in SUBSET Task, Free(T, r)
    PROVE  \A q \in Request \ {r} :
               req[q].pc \in {"commit", "delete_sprint"} => T \cap req[q].tasks = {}
  BY DEF Free, TaskLocked

(* The steps of a handler that write no table. *)
LEMMA ReadStepInv ==
    ASSUME Inv, NEW r \in Request, Step(r),
           \/ CompleteVelocity(r) \/ CompleteUpdate(r) \/ CompleteCarry(r) \/ DeleteTasks(r)
           \/ \E target \in Target : CompleteTarget(r, target)
    PROVE  Inv'
<1> DEFINE s == req[r].s
<1>1. TypeOK'
  BY StepType DEF Inv
<1>2. req \in [Request -> RequestRecord] /\ req[r] \in RequestRecord
  BY DEF Inv, TypeOK
<1>3. s \in Sprint
  BY DEF Inv, SprintExists, CompleteVelocity, CompleteUpdate, CompleteCarry, DeleteTasks,
         CompleteTarget
<1>4. CASE CompleteVelocity(r)
  <2>1. /\ req'[r].pc = "complete" /\ req'[r].s = s /\ req'[r].tasks = {}
        /\ \A q \in Request \ {r} : req'[q] = req[q]
    BY <1>2, <1>4 DEF CompleteVelocity, Continue, Inv, CarryShape, RequestRecord
  <2> QED
    BY <1>1, <1>4, <2>1, ContinueInv DEF CompleteVelocity
<1>5. CASE CompleteUpdate(r)
  <2>1. /\ req'[r].pc = "target" /\ req'[r].s = s /\ req'[r].tasks = {}
        /\ \A q \in Request \ {r} : req'[q] = req[q]
    BY <1>2, <1>5 DEF CompleteUpdate, Continue, Inv, CarryShape, RequestRecord
  <2> QED
    BY <1>1, <1>5, <2>1, ContinueInv DEF CompleteUpdate
<1>6. CASE CompleteCarry(r)
  <2>1. /\ req'[r].pc = "commit" /\ req'[r].s = s /\ req'[r].tasks = Unfinished(s)
        /\ req'[r].target = req[r].target /\ req[r].target # None
        /\ \A q \in Request \ {r} : req'[q] = req[q]
    BY <1>2, <1>6 DEF CompleteCarry, Continue, Inv, CarryShape, RequestRecord
  <2>2. \A q \in Request \ {r} :
            req[q].pc \in {"commit", "delete_sprint"} => req'[r].tasks \cap req[q].tasks = {}
    BY <1>3, <1>6, <2>1, RowSets, FreeRows DEF CompleteCarry
  <2>3. \A t \in req'[r].tasks :
            task[t] = [row |-> "live", sprint |-> s, status |-> "todo"]
    BY <1>3, <2>1, UnfinishedRows DEF Inv
  <2> QED
    BY <1>1, <1>6, <2>1, <2>2, <2>3, ContinueInv DEF CompleteCarry
<1>7. CASE DeleteTasks(r)
  <2>1. /\ req'[r].pc = "delete_sprint" /\ req'[r].s = s /\ req'[r].tasks = TasksOf(s)
        /\ \A q \in Request \ {r} : req'[q] = req[q]
    BY <1>2, <1>7 DEF DeleteTasks, Continue, RequestRecord
  <2>2. \A q \in Request \ {r} :
            req[q].pc \in {"commit", "delete_sprint"} => req'[r].tasks \cap req[q].tasks = {}
    BY <1>3, <1>7, <2>1, RowSets, FreeRows DEF DeleteTasks
  <2> QED
    BY <1>1, <1>7, <2>1, <2>2, ContinueInv DEF DeleteTasks
<1>8. ASSUME NEW target \in Target, CompleteTarget(r, target) PROVE Inv'
  <2>1. /\ req'[r].pc = IF target = None THEN "commit" ELSE "carry"
        /\ req'[r].s = s /\ req'[r].tasks = {} /\ req'[r].target = target
        /\ \A q \in Request \ {r} : req'[q] = req[q]
    BY <1>2, <1>8 DEF CompleteTarget, Continue, Inv, CarryShape, RequestRecord
  <2> QED
    BY <1>1, <1>8, <2>1, ContinueInv DEF CompleteTarget
<1> QED
  BY <1>4, <1>5, <1>6, <1>7, <1>8

(* Writes of task rows that are not in the hands of a committing request and
   leave the sprints alone: what the invariant needs to survive them. *)
LEMMA TaskWriteInv ==
    ASSUME Inv, NEW r \in Request, Finish(r), TypeOK', UNCHANGED <<sprint, snap>>,
           OnlyInserts(r), HeldRowsStay(r)
    PROVE  Inv'
<1>1. AbsentIsPlanned' /\ OneActiveSprint' /\ CompletedIsRecorded'
  BY DEF Inv, AbsentIsPlanned, OneActiveSprint, CompletedIsRecorded, Live
<1>2. SprintsStay
  BY DEF SprintsStay
<1>3. Shape'
  BY <1>1, <1>2, FinishShape
<1>4. CarriedAsDecided'
  BY FinishCarried
<1> QED
  BY <1>1, <1>3, <1>4 DEF Inv, Shape

(* Writes of sprint rows: nothing the requests have read of the tasks moves. *)
LEMMA SprintWriteInv ==
    ASSUME Inv, NEW r \in Request, Finish(r), TypeOK', UNCHANGED task,
           AbsentIsPlanned', OneActiveSprint', CompletedIsRecorded',
           SprintsStay
    PROVE  Inv'
<1>1. OnlyInserts(r) /\ HeldRowsStay(r)
  BY DEF OnlyInserts, HeldRowsStay
<1>2. Shape'
  BY <1>1, FinishShape
<1>3. CarriedAsDecided'
  BY <1>1, FinishCarried
<1> QED
  BY <1>2, <1>3 DEF Inv, Shape

(* The unique index keeps the winner of two starts alone. *)
LEMMA StartUpdateInv ==
    ASSUME Inv, NEW r \in Request, StartUpdate(r), TypeOK'
    PROVE  Inv'
<1> DEFINE s == req[r].s
<1>1. s \in Sprint /\ sprint[s].row # "absent" /\ sprint \in [Sprint -> SprintRow]
  BY DEF Inv, TypeOK, SprintExists, StartUpdate
<1>2. CASE ActiveConflict(s)
  <2>1. sprint' = sprint /\ task' = task /\ snap' = snap /\ Finish(r)
    BY <1>2 DEF StartUpdate
  <2> QED
    BY <2>1, AbortInv
<1>3. CASE ~ActiveConflict(s)
  <2>1. /\ \A o \in Sprint \ {s} : sprint'[o] = sprint[o]
        /\ sprint'[s] = [sprint[s] EXCEPT !.state = "active"]
        /\ Finish(r) /\ task' = task
    BY <1>1, <1>3 DEF StartUpdate
  <2>2. /\ sprint'[s].row = sprint[s].row /\ sprint'[s].state = "active"
    BY <1>1, <2>1 DEF SprintRow
  <2>3. AbsentIsPlanned' /\ CompletedIsRecorded'
    <3>1. AbsentIsPlanned
      BY DEF Inv
    <3>2. CompletedIsRecorded
      BY DEF Inv
    <3>3. AbsentIsPlanned'
      BY <1>1, <2>1, <2>2, <3>1 DEF AbsentIsPlanned
    <3>4. CompletedIsRecorded'
      BY <2>1, <2>2, <3>2 DEF CompletedIsRecorded
    <3> QED
      BY <3>3, <3>4
  <2>4. OneActiveSprint'
    <3>1. \A o \in Sprint \ {s} :
              sprint[s].row = "live" /\ sprint[o].row = "live" => sprint[o].state # "active"
      BY <1>3 DEF ActiveConflict, Live
    <3>2. ASSUME NEW a \in Sprint, NEW b \in Sprint, a # b,
                 sprint'[a].row = "live", sprint'[b].row = "live",
                 sprint'[a].state = "active", sprint'[b].state = "active"
          PROVE  FALSE
      <4> USE <2>1, <2>2, <3>1, <3>2
      <4>1. CASE a = s
        <5>1. sprint[s].row = "live" /\ sprint[b].row = "live" /\ sprint[b].state = "active"
          BY <4>1
        <5> QED
          BY <4>1, <5>1
      <4>2. CASE b = s
        <5>1. sprint[s].row = "live" /\ sprint[a].row = "live" /\ sprint[a].state = "active"
          BY <4>2
        <5> QED
          BY <4>2, <5>1
      <4>3. CASE a # s /\ b # s
        BY <2>1, <3>2, <4>3 DEF Inv, OneActiveSprint, Live
      <4> QED
        BY <4>1, <4>2, <4>3
    <3> QED
      BY <3>2 DEF OneActiveSprint, Live
  <2>5. SprintsStay
    BY <1>1, <2>1, <2>2 DEF SprintsStay
  <2> QED
    BY <2>1, <2>3, <2>4, <2>5, SprintWriteInv
<1> QED
  BY <1>2, <1>3

LEMMA EditUpdateInv ==
    ASSUME Inv, NEW r \in Request, EditUpdate(r), TypeOK'
    PROVE  Inv'
<1>1. sprint \in [Sprint -> SprintRow]
  BY DEF Inv, TypeOK
<1>2. \A o \in Sprint : /\ sprint'[o].row = sprint[o].row
                        /\ sprint'[o].state = sprint[o].state
                        /\ sprint'[o].retro = sprint[o].retro
                        /\ sprint'[o].velocity = sprint[o].velocity
  BY <1>1 DEF EditUpdate, SprintRow
<1>3. AbsentIsPlanned' /\ OneActiveSprint' /\ CompletedIsRecorded'
  BY <1>2 DEF Inv, AbsentIsPlanned, OneActiveSprint, CompletedIsRecorded, Live
<1>4. SprintsStay
  BY <1>2 DEF SprintsStay
<1> QED
  BY <1>3, <1>4, SprintWriteInv DEF EditUpdate

(* complete(): the rows it moves are locked by it alone. *)
LEMMA CompleteCommitInv ==
    ASSUME Inv, NEW r \in Request, CompleteCommit(r), TypeOK'
    PROVE  Inv'
<1> DEFINE s == req[r].s
           dest == req[r].target
<1>1. s \in Sprint /\ sprint[s].row # "absent" /\ sprint \in [Sprint -> SprintRow]
  BY DEF Inv, TypeOK, SprintExists, CompleteCommit
<1>2. req[r].counted # None
  BY ConstantsAssumption DEF Inv, TypeOK, RequestRecord, ConstantsAssumption
<1>3. /\ sprint'[s].row = sprint[s].row /\ sprint'[s].state = "completed"
      /\ sprint'[s].retro /\ sprint'[s].velocity # None
  BY <1>1, <1>2 DEF CompleteCommit, Completed, SprintRow
<1>4. \A o \in Sprint \ {s} :
          /\ sprint'[o].state = sprint[o].state /\ sprint'[o].retro = sprint[o].retro
          /\ sprint'[o].velocity = sprint[o].velocity
          /\ sprint[o].row # "absent" => sprint'[o].row = sprint[o].row
          /\ sprint'[o].row \in {sprint[o].row, "live"}
  BY <1>1 DEF CompleteCommit, Opened, SprintRow
<1>5. AbsentIsPlanned' /\ CompletedIsRecorded'
  BY <1>1, <1>3, <1>4 DEF Inv, AbsentIsPlanned, CompletedIsRecorded
<1>6. OneActiveSprint'
  BY <1>1, <1>3, <1>4 DEF Inv, AbsentIsPlanned, OneActiveSprint, Live
<1>7. SprintsStay /\ OnlyInserts(r) /\ Finish(r)
  <2>1. SprintsStay
    BY <1>1, <1>3, <1>4 DEF SprintsStay
  <2>2. OnlyInserts(r)
    BY DEF Inv, TypeOK, TaskRow, OnlyInserts, CompleteCommit
  <2> QED
    BY <2>1, <2>2 DEF CompleteCommit
<1>8. Shape'
  BY <1>5, <1>7, FinishShape
<1>9. HeldRowsStay(r)
  BY Fields DEF Inv, LocksDisjoint, CompleteCommit, HeldRowsStay
<1>10. CarriedAsDecided'
  BY <1>7, <1>9, FinishCarried
<1> QED
  BY <1>5, <1>6, <1>8, <1>10 DEF Inv, Shape

LEMMA DeleteCommitInv ==
    ASSUME Inv, NEW r \in Request, DeleteCommit(r), TypeOK'
    PROVE  Inv'
<1> DEFINE s == req[r].s
<1>1. s \in Sprint /\ sprint[s].row # "absent" /\ sprint \in [Sprint -> SprintRow]
  BY DEF Inv, TypeOK, SprintExists, DeleteCommit
<1>2. /\ sprint'[s].row = "deleted"
      /\ \A o \in Sprint : /\ sprint'[o].state = sprint[o].state
                           /\ sprint'[o].retro = sprint[o].retro
                           /\ sprint'[o].velocity = sprint[o].velocity
                           /\ o # s => sprint'[o].row = sprint[o].row
  BY <1>1 DEF DeleteCommit, SprintRow
<1>3. AbsentIsPlanned' /\ CompletedIsRecorded' /\ OneActiveSprint'
  BY <1>1, <1>2 DEF Inv, AbsentIsPlanned, OneActiveSprint, CompletedIsRecorded, Live
<1>4. SprintsStay /\ OnlyInserts(r) /\ Finish(r)
  BY <1>1, <1>2 DEF Inv, TypeOK, TaskRow, SprintsStay, OnlyInserts, DeleteCommit
<1>5. Shape'
  BY <1>3, <1>4, FinishShape
<1>6. HeldRowsStay(r)
  BY Fields DEF Inv, LocksDisjoint, DeleteCommit, HeldRowsStay
<1>7. CarriedAsDecided'
  BY <1>4, <1>6, FinishCarried
<1> QED
  BY <1>3, <1>5, <1>7 DEF Inv, Shape

LEMMA AssignUpdateInv ==
    ASSUME Inv, NEW r \in Request, AssignUpdate(r), TypeOK'
    PROVE  Inv'
<1> DEFINE rows == {t \in req[r].tasks : LiveTask(t)}
<1>1. rows \in SUBSET Task /\ task \in [Task -> TaskRow]
  BY Fields DEF Inv, TypeOK
<1>2. \A q \in Request \ {r} : req[q].pc = "commit" => rows \cap req[q].tasks = {}
  BY <1>1, FreeRows DEF AssignUpdate
<1>3. HeldRowsStay(r)
  BY <1>1, <1>2, Fields DEF Inv, AssignUpdate, HeldRowsStay
<1>4. OnlyInserts(r)
  BY <1>1 DEF OnlyInserts, AssignUpdate, LiveTask, TaskRow
<1> QED
  BY <1>3, <1>4, TaskWriteInv DEF AssignUpdate

LEMMA CreateTaskInsertInv ==
    ASSUME Inv, NEW r \in Request, CreateTaskInsert(r), TypeOK'
    PROVE  Inv'
<1>1. \A t \in Task \ req[r].tasks : task'[t] = task[t]
  BY DEF CreateTaskInsert
<1>2. \A t \in req[r].tasks : task[t].row = "absent"
  BY DEF Inv, InsertIsFresh, CreateTaskInsert
<1>3. \A q \in Request : req[q].pc = "commit" =>
          \A t \in req[q].tasks : t \in Task \ req[r].tasks
  <2>1. ASSUME NEW q \in Request, NEW t \in req[q].tasks, req[q].pc = "commit"
        PROVE  task[t].row = "live"
    <3>1. task[t] = [row |-> "live", sprint |-> req[q].s, status |-> "todo"]
      BY <2>1 DEF Inv, CarriedAsDecided
    <3> QED
      BY <3>1
  <2> QED
    BY <1>2, <2>1, Fields DEF Inv
<1>4. HeldRowsStay(r)
  BY <1>1, <1>3 DEF HeldRowsStay
<1>5. OnlyInserts(r)
  BY <1>1 DEF OnlyInserts, CreateTaskInsert
<1> QED
  BY <1>4, <1>5, TaskWriteInv DEF CreateTaskInsert

LEMMA StepInv ==
    ASSUME Inv, NEW r \in Request, Step(r)
    PROVE  Inv'
<1>1. TypeOK'
  BY StepType DEF Inv
<1> QED
  BY <1>1, ReadStepInv, StartUpdateInv, CompleteCommitInv, DeleteCommitInv, AssignUpdateInv,
     CreateTaskInsertInv, EditUpdateInv DEF Step

LEMMA CreateSprintInv ==
    ASSUME Inv, NEW s \in Sprint, CreateSprint(s)
    PROVE  Inv'
<1>1. TypeOK'
  BY DirectType DEF Inv, Direct
<1>2. /\ sprint'[s].row = "live" /\ sprint'[s].state = "planned"
      /\ \A o \in Sprint \ {s} : sprint'[o] = sprint[o]
  BY DEF Inv, TypeOK, SprintRow, AbsentIsPlanned, CreateSprint, FreshSprint
<1>3. task' = task /\ req' = req
  BY DEF CreateSprint
<1>4. SprintExists' /\ CarryShape' /\ LocksDisjoint' /\ InsertIsFresh'
  BY <1>2, <1>3 DEF Inv, SprintExists, CarryShape, LocksDisjoint, InsertIsFresh
<1>5. AbsentIsPlanned' /\ OneActiveSprint' /\ CompletedIsRecorded' /\ CarriedAsDecided'
  BY <1>2, <1>3 DEF Inv, AbsentIsPlanned, OneActiveSprint, CompletedIsRecorded,
                    CarriedAsDecided, Live
<1> QED
  BY <1>1, <1>4, <1>5 DEF Inv

(* A one-statement write of a task row waits for the requests that hold it. *)
LEMMA WriteTaskInv ==
    ASSUME Inv, NEW t \in Task, NEW row, WriteTask(t, row), TypeOK',
           task[t].row # "absent" \/ FreshTask(t)
    PROVE  Inv'
<1>1. /\ sprint' = sprint /\ req' = req
      /\ \A u \in Task \ {t} : task'[u] = task[u]
  BY DEF Inv, TypeOK, WriteTask
<1>2. SprintExists' /\ CarryShape' /\ LocksDisjoint' /\ AbsentIsPlanned'
  BY <1>1 DEF Inv, SprintExists, CarryShape, LocksDisjoint, AbsentIsPlanned
<1>3. \A r \in Request : req[r].pc = "insert" => t \notin req[r].tasks
  BY DEF Inv, InsertIsFresh, FreshTask
<1>4. InsertIsFresh'
  BY <1>1, <1>3, Fields DEF Inv, InsertIsFresh
<1>5. \A r \in Request : req[r].pc = "commit" => t \notin req[r].tasks
  BY ConstantsAssumption DEF ConstantsAssumption, WriteTask, TaskLocked
<1>6. CarriedAsDecided'
  BY <1>1, <1>5, Fields DEF Inv, CarriedAsDecided
<1>7. OneActiveSprint' /\ CompletedIsRecorded'
  BY <1>1 DEF Inv, OneActiveSprint, CompletedIsRecorded, Live
<1> QED
  BY <1>1, <1>2, <1>4, <1>6, <1>7 DEF Inv

LEMMA DirectInv ==
    ASSUME Inv, Direct
    PROVE  Inv'
<1>1. TypeOK'
  BY DirectType DEF Inv
<1>2. ASSUME NEW t \in Task,
             CreateTask(t) \/ MoveTask(t) \/ DeleteTask(t) \/ RestoreTask(t) \/ Unschedule(t)
      PROVE  \E row : /\ WriteTask(t, row)
                      /\ task[t].row # "absent" \/ FreshTask(t)
  BY <1>2 DEF CreateTask, MoveTask, DeleteTask, RestoreTask, Unschedule, LiveTask
<1> QED
  BY <1>1, <1>2, WriteTaskInv, CreateSprintInv DEF Direct

LEMMA InitInv == Init => Inv
<1> SUFFICES ASSUME Init PROVE Inv
  OBVIOUS
<1>1. TypeOK
  BY IdleType DEF Init, TypeOK, SprintRow, TaskRow, Snapshot, NoSnapshot
<1>2. \A r \in Request : req[r].pc = "idle" /\ req[r].tasks = {}
  BY DEF Init, Idle
<1>3. SprintExists /\ CarryShape /\ LocksDisjoint /\ InsertIsFresh /\ CarriedAsDecided
  BY <1>2 DEF SprintExists, CarryShape, LocksDisjoint, InsertIsFresh, CarriedAsDecided
<1>4. AbsentIsPlanned /\ OneActiveSprint /\ CompletedIsRecorded
  BY DEF Init, AbsentIsPlanned, OneActiveSprint, CompletedIsRecorded
<1> QED
  BY <1>1, <1>3, <1>4 DEF Inv

LEMMA NextInv == Inv /\ [Next]_vars => Inv'
<1> SUFFICES ASSUME Inv, [Next]_vars PROVE Inv'
  OBVIOUS
<1>1. CASE Direct
  BY <1>1, DirectInv
<1>2. ASSUME NEW r \in Request, Accept(r) PROVE Inv'
  BY <1>2, AcceptInv
<1>3. ASSUME NEW r \in Request, Step(r) PROVE Inv'
  BY <1>3, StepInv
<1>4. ASSUME NEW r \in Request, Abort(r) PROVE Inv'
  BY <1>4, AbortInv DEF Abort
<1>5. ASSUME NEW r \in Request, DeadlockAbort(r) PROVE Inv'
  BY <1>4, <1>5 DEF DeadlockAbort
<1>6. CASE UNCHANGED vars
  BY <1>6 DEF vars, Inv, TypeOK, SprintExists, CarryShape, LocksDisjoint, InsertIsFresh,
              AbsentIsPlanned, OneActiveSprint, CompletedIsRecorded, CarriedAsDecided, Live
<1> QED
  BY <1>1, <1>2, <1>3, <1>4, <1>5, <1>6 DEF Next

(* The invariant the theorems below are read off. *)
THEOREM Invariance == Spec => []Inv
  BY InitInv, NextInv, PTL DEF Spec

(***************************************************************************)
(* The theorems                                                            *)
(***************************************************************************)

(* Every table row and every request record keeps its shape: the columns stay
   within the values of their CHECK constraints under every handler. *)
THEOREM TypeCorrect == Spec => []TypeOK
<1>1. Inv => TypeOK
  BY DEF Inv
<1> QED
  BY <1>1, Invariance, PTL

(* A project never has two active sprints, however many start() and complete()
   requests overlap. *)
THEOREM OneActive == Spec => []OneActiveSprint
<1>1. Inv => OneActiveSprint
  BY DEF Inv
<1> QED
  BY <1>1, Invariance, PTL

(* A completed sprint always has its retro and its velocity, whichever
   complete() or start() wrote the row last. *)
THEOREM Recorded == Spec => []CompletedIsRecorded
<1>1. Inv => CompletedIsRecorded
  BY DEF Inv
<1> QED
  BY <1>1, Invariance, PTL

(* What complete() carries over is, when it commits, exactly what it decided:
   live, unfinished and in its sprint. *)
THEOREM Carried == Spec => []CarriedAsDecided
<1>1. Inv => CarriedAsDecided
  BY DEF Inv
<1> QED
  BY <1>1, Invariance, PTL

(* A completion leaves its records and carries what it decided, whatever overlaps
   it (complete in routes/sprints.rs). *)
THEOREM CompletionSound == Spec => []CompletionIsSound
<1>1. CompletedIsRecorded /\ CarriedAsDecided => CompletionIsSound
  BY DEF CompletionIsSound
<1> QED
  BY <1>1, Recorded, Carried, PTL

(* A row of sprint_task_snapshots is never changed, by any number of
   completions of its sprint. *)
THEOREM SnapshotsImmutable == Spec => SnapshotImmutable
<1> DEFINE Kept == \A s \in Sprint : \A t \in Task :
                       snap[s][t] # "absent" => snap'[s][t] = snap[s][t]
<1>1. Inv /\ [Next]_vars => Kept \/ UNCHANGED vars
  <2> SUFFICES ASSUME Inv, [Next]_vars PROVE Kept
    OBVIOUS
  <2>1. ASSUME NEW r \in Request, CompleteCommit(r) PROVE Kept
    BY <2>1 DEF Inv, TypeOK, CompleteCommit, Merge
  <2>2. CASE ~\E r \in Request : CompleteCommit(r)
    <3> SUFFICES snap' = snap
      OBVIOUS
    <3>1. CASE \E r \in Request : Step(r)
      BY <2>2, <3>1 DEF Step, StartUpdate, CompleteVelocity, CompleteUpdate, CompleteTarget,
                        CompleteCarry, DeleteTasks, DeleteCommit, AssignUpdate,
                        CreateTaskInsert, EditUpdate
    <3>2. CASE \E r \in Request : Accept(r)
      BY <3>2 DEF Accept, StartRead, CompleteRead, DeleteRead, EditRead, CreateTaskRead,
                  AssignRead, Begin
    <3>3. CASE Direct \/ \E r \in Request : Abort(r) \/ DeadlockAbort(r)
      BY <3>3 DEF Direct, Abort, DeadlockAbort, CreateSprint, CreateTask, MoveTask,
                  DeleteTask, RestoreTask, Unschedule, WriteTask
    <3>4. Next \/ UNCHANGED vars
      OBVIOUS
    <3>5. CASE Next
      BY <3>1, <3>2, <3>3, <3>5 DEF Next
    <3>6. CASE UNCHANGED vars
      BY <3>6 DEF vars
    <3> QED
      BY <3>4, <3>5, <3>6
  <2> QED
    BY <2>1, <2>2
<1>2. Inv /\ [Next]_vars => [Kept]_vars
  BY <1>1
<1> QED
  BY <1>2, Invariance, PTL DEF Spec, SnapshotImmutable

(***************************************************************************)
(* One request at a time, as SerialNext takes them.  What a handler read   *)
(* is then still so when it writes, which is what the documentation's      *)
(* promises need: a sprint that starts was planned, one that completes     *)
(* was active and has no records yet, and the velocity and the snapshot    *)
(* are made of the same tasks.                                             *)
(***************************************************************************)
(* One request at a time. *)
OneAtATime == \A r, q \in Request : req[r].pc # "idle" /\ req[q].pc # "idle" => r = q

(* A row of tasks is in the backlog or in a sprint that is there, deleted rows and those
   still to be made included. *)
WorkPlaced == \A t \in Task : task[t].sprint = Backlog \/ Live(task[t].sprint)

(* Only what is completed has records. *)
NoRecordsYet ==
    \A s \in Sprint : sprint[s].state # "completed" => sprint[s].velocity = None /\ snap[s] = NoSnapshot

(* What a handler read of its sprint is still so, and so are the sets it made of it. *)
Completing == {"velocity", "complete", "target", "carry", "commit"}

TargetStands(s, target) ==
    \/ target \in {None, Backlog}
    \/ target \in Sprint \ {s} /\ sprint[target].row # "deleted" /\ sprint[target].state # "completed"

Stands(q) ==
    q.pc # "idle" =>
        /\ Live(q.s)
        /\ q.pc = "start" => sprint[q.s].state = "planned"
        /\ q.pc = "edit" => sprint[q.s].state # "completed"
        /\ q.pc \in Completing => sprint[q.s].state = "active"
        /\ q.pc \in Completing \ {"velocity"} => q.counted = Counted(q.s)
        /\ q.pc \in {"target", "carry", "commit"} => q.frozen = SnapshotRows(q.s)
        /\ q.pc \in {"carry", "commit"} => TargetStands(q.s, q.target)
        /\ q.pc = "delete_sprint" => q.tasks = TasksOf(q.s)

ReadsStand == \A r \in Request : Stands(req[r])

SerialInv ==
    /\ Inv /\ OneAtATime /\ WorkPlaced /\ NoRecordsYet /\ SnapshotMatchesVelocity /\ ReadsStand

LEMMA SerialRows ==
    ASSUME SerialInv
    PROVE  /\ sprint \in [Sprint -> SprintRow] /\ task \in [Task -> TaskRow]
           /\ snap \in [Sprint -> Snapshot] /\ req \in [Request -> RequestRecord]
           /\ \A s \in Sprint : /\ sprint[s] \in SprintRow /\ sprint[s].row \in Row
                                /\ sprint[s].state \in State /\ snap[s] \in Snapshot
           /\ \A t \in Task : task[t] \in TaskRow /\ task[t].sprint \in Sprint \cup {Backlog}
           /\ \A r \in Request : req[r].pc # "idle" =>
                /\ req[r].s \in Sprint /\ req[r].tasks \in SUBSET Task
                /\ req[r].counted \in SUBSET Task /\ req[r].frozen \in Snapshot
                /\ req[r].target \in Target /\ Stands(req[r])
  BY DEF SerialInv, Inv, TypeOK, SprintExists, SprintRow, TaskRow, RequestRecord, ReadsStand

(* What a request holds when it begins or goes on without writing. *)
LEMMA GoesOn ==
    ASSUME SerialInv, Inv', NEW r \in Request, NEW record,
           \A q \in Request \ {r} : req[q].pc = "idle",
           Continue(r, record), UNCHANGED <<sprint, task, snap>>, Stands(record)
    PROVE  SerialInv'
<1>1. /\ req'[r] = record /\ \A q \in Request \ {r} : req'[q] = req[q]
  BY SerialRows DEF Continue
<1>2. OneAtATime'
  BY <1>1 DEF OneAtATime
<1>3. WorkPlaced' /\ NoRecordsYet' /\ SnapshotMatchesVelocity'
  BY DEF SerialInv, WorkPlaced, NoRecordsYet, SnapshotMatchesVelocity, Live
<1>4. Stands(record)'
  BY DEF Stands, TargetStands, Live, Counted, SnapshotRows, TasksOf, LiveTask
<1>5. \A q \in Request \ {r} : Stands(req[q])'
  BY <1>1 DEF Stands
<1>6. ReadsStand'
  BY <1>1, <1>4, <1>5 DEF ReadsStand
<1> QED
  BY <1>2, <1>3, <1>6 DEF SerialInv

(* What is left when every handler is idle. *)
LEMMA AllIdle ==
    ASSUME Inv', \A q \in Request : req'[q].pc = "idle",
           WorkPlaced', NoRecordsYet', SnapshotMatchesVelocity'
    PROVE  SerialInv'
<1>1. OneAtATime'
  BY DEF OneAtATime
<1>2. ReadsStand'
  BY DEF ReadsStand, Stands
<1> QED
  BY <1>1, <1>2 DEF SerialInv

LEMMA Ends ==
    ASSUME SerialInv, NEW r \in Request, req[r].pc # "idle", Finish(r)
    PROVE  \A q \in Request : req'[q].pc = "idle"
<1>1. \A q \in Request \ {r} : req[q].pc = "idle"
  BY DEF SerialInv, OneAtATime
<1> QED
  BY <1>1, SerialRows DEF Finish, Continue, Idle

LEMMA BeginStands ==
    ASSUME SerialInv, Inv', Quiet, NEW r \in Request, NEW s \in Sprint, NEW T \in SUBSET Task,
           NEW pc \in {"start", "velocity", "delete_tasks", "assign", "insert", "edit"},
           Begin(r, pc, s, T), Live(s),
           pc = "start" => sprint[s].state = "planned",
           pc = "edit" => sprint[s].state # "completed",
           pc = "velocity" => sprint[s].state = "active"
    PROVE  SerialInv'
<1> DEFINE record == [Idle EXCEPT !.pc = pc, !.s = s, !.tasks = T]
<1>1. record.pc = pc /\ record.s = s
  BY DEF Idle
<1> HIDE DEF record
<1>2. Stands(record)
  BY <1>1 DEF Stands, Completing
<1>3. Continue(r, record) /\ UNCHANGED <<sprint, task, snap>>
  BY DEF Begin, record
<1> QED
  BY <1>2, <1>3, GoesOn DEF Quiet

LEMMA AcceptStands ==
    ASSUME SerialInv, Inv', Quiet, NEW r \in Request, Accept(r)
    PROVE  SerialInv'
<1>1. \A s \in Sprint : /\ NextState(sprint[s].state, "start") # "refused" => sprint[s].state = "planned"
                        /\ NextState(sprint[s].state, "complete") # "refused" => sprint[s].state = "active"
  BY SerialRows DEF NextState
<1>2. PICK s \in Sprint :
        \/ StartRead(r, s) \/ CompleteRead(r, s) \/ DeleteRead(r, s) \/ EditRead(r, s)
        \/ \E t \in Task : CreateTaskRead(r, s, t)
        \/ \E T \in SUBSET Task \ {{}} : AssignRead(r, s, T)
  BY DEF Accept
<1>3. CASE StartRead(r, s)
  BY <1>1, <1>3, BeginStands DEF StartRead
<1>4. CASE CompleteRead(r, s)
  BY <1>1, <1>4, BeginStands DEF CompleteRead
<1>5. CASE DeleteRead(r, s)
  BY <1>5, BeginStands DEF DeleteRead
<1>6. CASE EditRead(r, s)
  BY <1>6, BeginStands DEF EditRead, Editable
<1>7. ASSUME NEW t \in Task, CreateTaskRead(r, s, t) PROVE SerialInv'
  <2>1. {t} \in SUBSET Task /\ Begin(r, "insert", s, {t}) /\ Live(s)
    BY <1>7 DEF CreateTaskRead
  <2> QED
    BY <2>1, BeginStands
<1>8. ASSUME NEW T \in SUBSET Task, AssignRead(r, s, T) PROVE SerialInv'
  BY <1>8, BeginStands DEF AssignRead
<1> QED
  BY <1>2, <1>3, <1>4, <1>5, <1>6, <1>7, <1>8

(* The statements of a handler that reach no table. *)
LEMMA ReadStepStands ==
    ASSUME SerialInv, Inv', NEW r \in Request, req[r].pc # "idle",
           \/ CompleteVelocity(r) \/ CompleteUpdate(r) \/ CompleteCarry(r) \/ DeleteTasks(r)
           \/ \E target \in Target : CompleteTarget(r, target)
    PROVE  SerialInv'
<1> DEFINE q == req[r]
<1>1. /\ \A p \in Request \ {r} : req[p].pc = "idle"
      /\ q \in RequestRecord /\ Stands(q)
  BY SerialRows DEF SerialInv, OneAtATime
<1> HIDE DEF q
<1>2. ASSUME NEW record, Continue(r, record), UNCHANGED <<sprint, task, snap>>, Stands(record)
      PROVE  SerialInv'
  BY <1>1, <1>2, GoesOn
<1>3. CASE CompleteVelocity(r)
  <2> DEFINE record == [q EXCEPT !.pc = "complete", !.counted = Counted(q.s)]
  <2>1. q.pc = "velocity" /\ Continue(r, record) /\ UNCHANGED <<sprint, task, snap>>
    BY <1>3 DEF CompleteVelocity, q
  <2>2. record.pc = "complete" /\ record.counted = Counted(q.s) /\ record.s = q.s
    BY <1>1 DEF RequestRecord
  <2> HIDE DEF record
  <2>3. Stands(record)
    BY <1>1, <2>1, <2>2 DEF Stands, Completing
  <2> QED
    BY <1>2, <2>1, <2>3
<1>4. CASE CompleteUpdate(r)
  <2> DEFINE record == [q EXCEPT !.pc = "target", !.frozen = SnapshotRows(q.s)]
  <2>1. q.pc = "complete" /\ Continue(r, record) /\ UNCHANGED <<sprint, task, snap>>
    BY <1>4 DEF CompleteUpdate, q
  <2>2. /\ record.pc = "target" /\ record.frozen = SnapshotRows(q.s) /\ record.s = q.s
        /\ record.counted = q.counted
    BY <1>1 DEF RequestRecord
  <2> HIDE DEF record
  <2>3. Stands(record)
    BY <1>1, <2>1, <2>2 DEF Stands, Completing
  <2> QED
    BY <1>2, <2>1, <2>3
<1>5. ASSUME NEW target \in Target, CompleteTarget(r, target) PROVE SerialInv'
  <2> DEFINE record == [q EXCEPT !.pc = IF target = None THEN "commit" ELSE "carry",
                                 !.target = target]
  <2>1. /\ q.pc = "target" /\ Continue(r, record) /\ UNCHANGED <<sprint, task, snap>>
        /\ OpenTarget(q.s, target)
    BY <1>5 DEF CompleteTarget, q
  <2>2. /\ record.pc \in {"carry", "commit"} /\ record.frozen = q.frozen /\ record.s = q.s
        /\ record.counted = q.counted /\ record.target = target
    BY <1>1 DEF RequestRecord
  <2> HIDE DEF record
  <2>3. TargetStands(q.s, target)
    <3>1. q.s \in Sprint /\ Live(q.s)
      BY <1>1, <2>1, SerialRows DEF q, Stands
    <3>2. ASSUME target \in Sprint, FreshSprint(target)
          PROVE  sprint[target].row = "absent" /\ sprint[target].state = "planned" /\ target # q.s
      BY <3>1, <3>2 DEF FreshSprint, Live, SerialInv, Inv, AbsentIsPlanned
    <3> QED
      BY <2>1, <3>2 DEF OpenTarget, TargetStands, Live
  <2>4. Stands(record)
    BY <1>1, <2>1, <2>2, <2>3 DEF Stands, Completing
  <2> QED
    BY <1>2, <2>1, <2>4
<1>6. CASE CompleteCarry(r)
  <2> DEFINE record == [q EXCEPT !.pc = "commit", !.tasks = Unfinished(q.s)]
  <2>1. q.pc = "carry" /\ Continue(r, record) /\ UNCHANGED <<sprint, task, snap>>
    BY <1>6 DEF CompleteCarry, q
  <2>2. /\ record.pc = "commit" /\ record.frozen = q.frozen /\ record.s = q.s
        /\ record.counted = q.counted /\ record.target = q.target
    BY <1>1 DEF RequestRecord
  <2> HIDE DEF record
  <2>3. Stands(record)
    BY <1>1, <2>1, <2>2 DEF Stands, Completing
  <2> QED
    BY <1>2, <2>1, <2>3
<1>7. CASE DeleteTasks(r)
  <2> DEFINE record == [q EXCEPT !.pc = "delete_sprint", !.tasks = TasksOf(q.s)]
  <2>1. q.pc = "delete_tasks" /\ Continue(r, record) /\ UNCHANGED <<sprint, task, snap>>
    BY <1>7 DEF DeleteTasks, q
  <2>2. record.pc = "delete_sprint" /\ record.tasks = TasksOf(q.s) /\ record.s = q.s
    BY <1>1 DEF RequestRecord
  <2> HIDE DEF record
  <2>3. Stands(record)
    BY <1>1, <2>1, <2>2 DEF Stands, Completing
  <2> QED
    BY <1>2, <2>1, <2>3
<1> QED
  BY <1>3, <1>4, <1>5, <1>6, <1>7

(* A write of tasks leaves them in the backlog or in a sprint that is there. *)
LEMMA TaskWriteKeeps ==
    ASSUME SerialInv, UNCHANGED <<sprint, snap>>,
           \A t \in Task : \/ task'[t].sprint = task[t].sprint
                           \/ task'[t].sprint = Backlog \/ Live(task'[t].sprint)
    PROVE  WorkPlaced' /\ NoRecordsYet' /\ SnapshotMatchesVelocity'
  BY DEF SerialInv, WorkPlaced, NoRecordsYet, SnapshotMatchesVelocity, Live

(* A write of one sprint that neither completes nor deletes it. *)
LEMMA SprintWriteKeeps ==
    ASSUME SerialInv, NEW s \in Sprint, NEW row, sprint' = [sprint EXCEPT ![s] = row],
           UNCHANGED <<task, snap>>, row.row \in {sprint[s].row, "live"},
           row.velocity = sprint[s].velocity,
           row.state = "completed" \/ sprint[s].state # "completed"
    PROVE  WorkPlaced' /\ NoRecordsYet' /\ SnapshotMatchesVelocity'
<1>1. \A o \in Sprint : sprint'[o] = IF o = s THEN row ELSE sprint[o]
  BY SerialRows
<1>2. WorkPlaced'
  <2>1. \A o \in Sprint : sprint[o].row = "live" => sprint'[o].row = "live"
    BY <1>1
  <2> QED
    BY <2>1, SerialRows DEF SerialInv, WorkPlaced, Live
<1>3. NoRecordsYet'
  BY <1>1 DEF SerialInv, NoRecordsYet
<1>4. SnapshotMatchesVelocity'
  BY <1>1 DEF SerialInv, SnapshotMatchesVelocity
<1> QED
  BY <1>2, <1>3, <1>4

(* What a completion commits. *)
LEMMA CommitFacts ==
    ASSUME SerialInv, NEW r \in Request, CompleteCommit(r), NEW s, s = req[r].s
    PROVE  /\ s \in Sprint /\ sprint[s].state = "active" /\ sprint[s].row = "live"
           /\ sprint[s].velocity = None /\ snap[s] = NoSnapshot
           /\ \A n \in Sprint \ {s} :
                /\ sprint'[n].velocity = sprint[n].velocity /\ sprint'[n].state = sprint[n].state
                /\ sprint'[n].row = sprint[n].row \/ sprint'[n].row = "live"
                /\ sprint'[n].edited = sprint[n].edited
           /\ sprint'[s].row = "live" /\ sprint'[s].state = "completed"
           /\ sprint'[s].velocity = Counted(s) /\ sprint'[s].edited = sprint[s].edited
           /\ snap'[s] = SnapshotRows(s) /\ \A n \in Sprint \ {s} : snap'[n] = snap[n]
           /\ \A t \in Task : \/ task'[t] = task[t]
                              \/ /\ task[t].row = "live" /\ task[t].sprint = s
                                 /\ task[t].status = "todo"
                                 /\ \/ task'[t].sprint = Backlog
                                    \/ /\ task'[t].sprint \in Sprint \ {s}
                                       /\ sprint'[task'[t].sprint].row = "live"
                                       /\ sprint'[task'[t].sprint].state # "completed"
<1> DEFINE dest == req[r].target
           T == req[r].tasks
<1>1. /\ req[r].pc = "commit"
      /\ sprint' = [n \in Sprint |-> IF n = s THEN Completed(s, req[r].counted)
                                     ELSE IF n = dest THEN Opened(n) ELSE sprint[n]]
      /\ task' = [t \in Task |-> IF t \in T THEN [task[t] EXCEPT !.sprint = dest] ELSE task[t]]
      /\ snap' = [snap EXCEPT ![s] = Merge(snap[s], req[r].frozen)]
  BY DEF CompleteCommit
<1>2. /\ s \in Sprint /\ sprint[s].state = "active" /\ sprint[s].row = "live"
      /\ req[r].counted = Counted(s) /\ req[r].frozen = SnapshotRows(s)
      /\ TargetStands(s, dest)
  BY <1>1, SerialRows DEF Stands, Completing, Live
<1>3. /\ \A t \in T : task[t] = [row |-> "live", sprint |-> s, status |-> "todo"]
      /\ dest = None => T = {}
  BY <1>1 DEF SerialInv, Inv, CarriedAsDecided, CarryShape
<1> HIDE DEF dest, T
<1>4. sprint[s].velocity = None /\ snap[s] = NoSnapshot
  BY <1>2 DEF SerialInv, NoRecordsYet
<1>5. \A n \in Sprint : sprint[n] \in SprintRow
  BY SerialRows
<1>6. \A n \in Sprint \ {s} : sprint'[n] \in {sprint[n], Opened(n)}
  BY <1>1
<1>7. \A n \in Sprint : /\ Opened(n).velocity = sprint[n].velocity /\ Opened(n).state = sprint[n].state
                        /\ Opened(n).row \in {sprint[n].row, "live"}
                        /\ Opened(n).edited = sprint[n].edited
                        /\ sprint[n].row # "deleted" => Opened(n).row = "live"
  BY <1>5 DEF Opened, SprintRow
<1>8. /\ sprint'[s].row = "live" /\ sprint'[s].state = "completed"
      /\ sprint'[s].velocity = Counted(s) /\ sprint'[s].edited = sprint[s].edited
  <2>1. sprint'[s] = Completed(s, Counted(s))
    BY <1>1, <1>2
  <2> QED
    BY <1>2, <1>5, <2>1 DEF Completed, SprintRow
<1>9. snap'[s] = SnapshotRows(s) /\ \A n \in Sprint \ {s} : snap'[n] = snap[n]
  <2>1. Merge(NoSnapshot, SnapshotRows(s)) = SnapshotRows(s)
    BY DEF Merge, NoSnapshot, SnapshotRows
  <2> QED
    BY <1>1, <1>2, <1>4, <2>1, SerialRows
<1>10. ASSUME NEW t \in Task, task'[t] # task[t]
       PROVE  /\ task[t].row = "live" /\ task[t].sprint = s /\ task[t].status = "todo"
              /\ \/ task'[t].sprint = Backlog
                 \/ /\ task'[t].sprint \in Sprint \ {s}
                    /\ sprint'[task'[t].sprint].row = "live"
                    /\ sprint'[task'[t].sprint].state # "completed"
  <2>1. t \in T /\ dest # None
    BY <1>1, <1>3, <1>10
  <2>2. task[t].row = "live" /\ task[t].sprint = s /\ task[t].status = "todo"
    BY <1>3, <2>1
  <2>3. task'[t].sprint = dest
    BY <1>1, <2>1, SerialRows DEF TaskRow
  <2>4. CASE dest \in Sprint \ {s}
    <3>1. sprint'[dest] = Opened(dest) /\ sprint[dest].row # "deleted" /\ sprint[dest].state # "completed"
      BY <1>1, <1>2, <2>1, <2>4, ConstantsAssumption DEF TargetStands, ConstantsAssumption
    <3> QED
      BY <1>7, <2>2, <2>3, <2>4, <3>1
  <2>5. CASE dest = Backlog
    BY <2>2, <2>3, <2>5
  <2> QED
    BY <1>2, <2>1, <2>4, <2>5 DEF TargetStands
<1> QED
  BY <1>2, <1>4, <1>6, <1>7, <1>8, <1>9, <1>10

LEMMA CommitStands ==
    ASSUME SerialInv, Inv', NEW r \in Request, CompleteCommit(r)
    PROVE  SerialInv'
<1> DEFINE s == req[r].s
<1> HIDE DEF s
<1>0. s = req[r].s
  BY DEF s
<1>1. \A q \in Request : req'[q].pc = "idle"
  BY Ends DEF CompleteCommit
<1>2. WorkPlaced'
  <2>1. \A n \in Sprint : sprint[n].row = "live" => sprint'[n].row = "live"
    BY <1>0, CommitFacts
  <2>2. ASSUME NEW t \in Task PROVE task'[t].sprint = Backlog \/ sprint'[task'[t].sprint].row = "live"
    <3>1. CASE task'[t] = task[t]
      BY <2>1, <3>1, SerialRows DEF SerialInv, WorkPlaced, Live
    <3>2. CASE task'[t] # task[t]
      BY <1>0, <3>2, CommitFacts
    <3> QED
      BY <3>1, <3>2
  <2> QED
    BY <2>2 DEF WorkPlaced, Live
<1>3. NoRecordsYet'
  <2>1. sprint'[s].state = "completed"
    BY <1>0, CommitFacts
  <2>2. \A n \in Sprint \ {s} : /\ sprint'[n].state = sprint[n].state /\ snap'[n] = snap[n]
                                /\ sprint'[n].velocity = sprint[n].velocity
    BY <1>0, CommitFacts
  <2> QED
    BY <2>1, <2>2 DEF SerialInv, NoRecordsYet
<1>4. SnapshotMatchesVelocity'
  <2>1. Counted(s) = {t \in Task \ Subtask : SnapshotRows(s)[t] = "done"}
    BY DEF Counted, SnapshotRows, TasksOf
  <2>2. sprint'[s].velocity = Counted(s) /\ snap'[s] = SnapshotRows(s)
    BY <1>0, CommitFacts
  <2>3. \A n \in Sprint \ {s} : sprint'[n].velocity = sprint[n].velocity /\ snap'[n] = snap[n]
    BY <1>0, CommitFacts
  <2> QED
    BY <2>1, <2>2, <2>3 DEF SerialInv, SnapshotMatchesVelocity
<1> QED
  BY <1>1, <1>2, <1>3, <1>4, AllIdle

LEMMA DeleteStands ==
    ASSUME SerialInv, Inv', NEW r \in Request, DeleteCommit(r)
    PROVE  SerialInv'
<1> DEFINE s == req[r].s
<1>1. /\ req[r].pc = "delete_sprint" /\ s \in Sprint /\ req[r].tasks = TasksOf(s)
      /\ task' = [t \in Task |-> IF t \in req[r].tasks THEN [task[t] EXCEPT !.sprint = Backlog]
                                                       ELSE task[t]]
      /\ sprint' = [sprint EXCEPT ![s].row = "deleted"] /\ snap' = snap
  BY SerialRows DEF DeleteCommit, Stands
<1> HIDE DEF s
<1>2. \A q \in Request : req'[q].pc = "idle"
  BY Ends DEF DeleteCommit
<1>3. \A t \in Task : \/ task'[t].sprint = Backlog
                      \/ task'[t].sprint = task[t].sprint /\ task[t].sprint # s
  BY <1>1, SerialRows DEF TasksOf, TaskRow
<1>4. \A n \in Sprint : /\ n # s => sprint'[n] = sprint[n]
                        /\ sprint'[n].state = sprint[n].state
                        /\ sprint'[n].velocity = sprint[n].velocity
  BY <1>1, SerialRows DEF SprintRow
<1>5. WorkPlaced'
  BY <1>3, <1>4, SerialRows DEF SerialInv, WorkPlaced, Live
<1>6. NoRecordsYet' /\ SnapshotMatchesVelocity'
  BY <1>1, <1>4 DEF SerialInv, NoRecordsYet, SnapshotMatchesVelocity
<1> QED
  BY <1>2, <1>5, <1>6, AllIdle

(* The writes of one sprint's columns and of tasks. *)
LEMMA WriteStepStands ==
    ASSUME SerialInv, Inv', NEW r \in Request,
           StartUpdate(r) \/ EditUpdate(r) \/ AssignUpdate(r) \/ CreateTaskInsert(r)
    PROVE  SerialInv'
<1>1. /\ \A q \in Request : req'[q].pc = "idle"
      /\ req[r].pc # "idle" /\ req[r].s \in Sprint /\ Live(req[r].s)
  BY Ends, SerialRows DEF StartUpdate, EditUpdate, AssignUpdate, CreateTaskInsert, Stands
<1>2. CASE StartUpdate(r)
  <2> DEFINE s == req[r].s
             row == [sprint[s] EXCEPT !.state = "active"]
  <2>1. /\ UNCHANGED <<task, snap>>
        /\ sprint' = sprint \/ sprint' = [sprint EXCEPT ![s] = row]
        /\ sprint[s].state = "planned" /\ sprint[s] \in SprintRow
    BY <1>1, <1>2, SerialRows DEF StartUpdate, Stands
  <2>2. row.row = sprint[s].row /\ row.velocity = sprint[s].velocity
    BY <2>1 DEF SprintRow
  <2> HIDE DEF row
  <2>3. CASE sprint' = sprint
    BY <1>1, <2>1, <2>3, TaskWriteKeeps, AllIdle
  <2>4. CASE sprint' = [sprint EXCEPT ![s] = row]
    BY <1>1, <2>1, <2>2, <2>4, SprintWriteKeeps, AllIdle
  <2> QED
    BY <2>1, <2>3, <2>4
<1>3. CASE EditUpdate(r)
  <2> DEFINE s == req[r].s
             row == [sprint[s] EXCEPT !.edited = TRUE]
  <2>1. UNCHANGED <<task, snap>> /\ sprint' = [sprint EXCEPT ![s] = row] /\ sprint[s] \in SprintRow
    BY <1>1, <1>3, SerialRows DEF EditUpdate
  <2>2. row.row = sprint[s].row /\ row.velocity = sprint[s].velocity /\ row.state = sprint[s].state
    BY <2>1 DEF SprintRow
  <2> HIDE DEF row
  <2> QED
    BY <1>1, <2>1, <2>2, SprintWriteKeeps, AllIdle
<1>4. CASE AssignUpdate(r) \/ CreateTaskInsert(r)
  <2>1. /\ UNCHANGED <<sprint, snap>>
        /\ \A t \in Task : task'[t] = task[t] \/ task'[t].sprint = req[r].s
    BY <1>4, SerialRows DEF AssignUpdate, CreateTaskInsert, TaskRow
  <2> QED
    BY <1>1, <2>1, TaskWriteKeeps, AllIdle
<1> QED
  BY <1>2, <1>3, <1>4

LEMMA DirectStands ==
    ASSUME SerialInv, Inv', Quiet, Direct
    PROVE  SerialInv'
<1>1. req' = req /\ \A q \in Request : req'[q].pc = "idle"
  BY DEF Quiet, Direct, CreateSprint, CreateTask, MoveTask, DeleteTask, RestoreTask, Unschedule,
         WriteTask
<1>2. ASSUME NEW s \in Sprint, CreateSprint(s) PROVE SerialInv'
  <2> DEFINE row == [sprint[s] EXCEPT !.row = "live"]
  <2>1. UNCHANGED <<task, snap>> /\ sprint' = [sprint EXCEPT ![s] = row] /\ sprint[s] \in SprintRow
    BY <1>2, SerialRows DEF CreateSprint
  <2>2. row.row = "live" /\ row.velocity = sprint[s].velocity /\ row.state = sprint[s].state
    BY <2>1 DEF SprintRow
  <2> HIDE DEF row
  <2> QED
    BY <1>1, <2>1, <2>2, SprintWriteKeeps, AllIdle
<1>3. ASSUME NEW t \in Task,
             CreateTask(t) \/ MoveTask(t) \/ DeleteTask(t) \/ RestoreTask(t) \/ Unschedule(t)
      PROVE  SerialInv'
  <2>1. /\ UNCHANGED <<sprint, snap>>
        /\ \A u \in Task : task'[u].sprint \in {task[u].sprint, Backlog}
    BY <1>3, SerialRows DEF CreateTask, MoveTask, DeleteTask, RestoreTask, Unschedule, WriteTask,
                            TaskRow
  <2> QED
    BY <1>1, <2>1, TaskWriteKeeps, AllIdle
<1> QED
  BY <1>2, <1>3 DEF Direct

LEMMA SerialInitInv == Init => SerialInv
<1> SUFFICES ASSUME Init PROVE SerialInv
  OBVIOUS
<1>1. Inv /\ \A r \in Request : req[r].pc = "idle"
  BY InitInv DEF Init, Idle
<1>2. OneAtATime /\ ReadsStand
  BY <1>1 DEF OneAtATime, ReadsStand, Stands
<1>3. WorkPlaced /\ NoRecordsYet /\ SnapshotMatchesVelocity
  BY DEF Init, WorkPlaced, NoRecordsYet, SnapshotMatchesVelocity
<1> QED
  BY <1>1, <1>2, <1>3 DEF SerialInv

LEMMA SerialNextInv == ASSUME SerialInv, [SerialNext]_vars PROVE SerialInv'
<1>1. SerialNext => Next
  BY DEF SerialNext, Next
<1>2. Inv'
  BY <1>1, NextInv DEF SerialInv
<1>3. CASE Quiet /\ Direct
  BY <1>2, <1>3, DirectStands
<1>4. ASSUME NEW r \in Request, Quiet, Accept(r) PROVE SerialInv'
  BY <1>2, <1>4, AcceptStands
<1>5. ASSUME NEW r \in Request, Step(r) PROVE SerialInv'
  <2>1. CASE CompleteCommit(r)
    BY <1>2, <2>1, CommitStands
  <2>2. CASE DeleteCommit(r)
    BY <1>2, <2>2, DeleteStands
  <2>3. CASE StartUpdate(r) \/ EditUpdate(r) \/ AssignUpdate(r) \/ CreateTaskInsert(r)
    BY <1>2, <2>3, WriteStepStands
  <2>4. CASE \/ CompleteVelocity(r) \/ CompleteUpdate(r) \/ CompleteCarry(r) \/ DeleteTasks(r)
             \/ \E target \in Target : CompleteTarget(r, target)
    <3>1. req[r].pc # "idle"
      BY <2>4 DEF CompleteVelocity, CompleteUpdate, CompleteCarry, DeleteTasks, CompleteTarget
    <3> QED
      BY <1>2, <2>4, <3>1, ReadStepStands
  <2> QED
    BY <1>5, <2>1, <2>2, <2>3, <2>4 DEF Step
<1>6. ASSUME NEW r \in Request, Abort(r) PROVE SerialInv'
  <2>1. /\ \A q \in Request : req'[q].pc = "idle"
        /\ UNCHANGED <<sprint, task, snap>>
    BY <1>6, Ends DEF Abort
  <2> QED
    BY <1>2, <2>1, TaskWriteKeeps, AllIdle
<1>7. CASE UNCHANGED vars
  <2>1. UNCHANGED <<sprint, task, snap, req>>
    BY <1>7 DEF vars
  <2>2. WorkPlaced' /\ NoRecordsYet' /\ SnapshotMatchesVelocity'
    BY <2>1, TaskWriteKeeps
  <2>3. OneAtATime' /\ ReadsStand'
    BY <2>1 DEF SerialInv, OneAtATime, ReadsStand, Stands, TargetStands, Live, Counted, SnapshotRows,
                TasksOf, LiveTask
  <2> QED
    BY <1>2, <2>2, <2>3 DEF SerialInv
<1> QED
  BY <1>3, <1>4, <1>5, <1>6, <1>7 DEF SerialNext

(* What a step does to the columns a sprint keeps for good. *)
LEMMA SprintStep ==
    ASSUME SerialInv, [SerialNext]_vars, NEW s \in Sprint
    PROVE  /\ sprint[s].state = "completed" =>
                sprint'[s].state = "completed" /\ sprint'[s].edited = sprint[s].edited
           /\ sprint[s].state = "active" => sprint'[s].state # "planned"
           /\ sprint[s].velocity # None => sprint'[s].velocity = sprint[s].velocity
<1> DEFINE Kept == /\ sprint'[s].state = sprint[s].state /\ sprint'[s].edited = sprint[s].edited
                   /\ sprint'[s].velocity = sprint[s].velocity
<1>1. CASE Direct
  <2>1. Kept
    BY <1>1, SerialRows DEF Direct, CreateSprint, CreateTask, MoveTask, DeleteTask, RestoreTask,
                            Unschedule, WriteTask, SprintRow
  <2> QED
    BY <2>1
<1>2. ASSUME NEW r \in Request, Accept(r) \/ Abort(r) PROVE Kept
  BY <1>2 DEF Accept, StartRead, CompleteRead, DeleteRead, EditRead, CreateTaskRead, AssignRead,
              Begin, Abort
<1>3. ASSUME NEW r \in Request, StartUpdate(r)
      PROVE  /\ sprint'[s].velocity = sprint[s].velocity /\ sprint'[s].edited = sprint[s].edited
             /\ \/ sprint'[s].state = sprint[s].state
                \/ sprint[s].state = "planned" /\ sprint'[s].state = "active"
  <2>1. req[r].s \in Sprint /\ sprint[req[r].s].state = "planned"
    BY <1>3, SerialRows DEF StartUpdate, Stands
  <2> QED
    BY <1>3, <2>1, SerialRows DEF StartUpdate, SprintRow
<1>4. ASSUME NEW r \in Request, EditUpdate(r)
      PROVE  /\ sprint'[s].velocity = sprint[s].velocity /\ sprint'[s].state = sprint[s].state
             /\ sprint[s].state = "completed" => sprint'[s].edited = sprint[s].edited
  <2>1. req[r].s \in Sprint /\ sprint[req[r].s].state # "completed"
    BY <1>4, SerialRows DEF EditUpdate, Stands
  <2> QED
    BY <1>4, <2>1, SerialRows DEF EditUpdate, SprintRow
<1>5. ASSUME NEW r \in Request, CompleteCommit(r)
      PROVE  \/ Kept
             \/ sprint[s].state = "active" /\ sprint[s].velocity = None /\ sprint'[s].state = "completed"
  <2> DEFINE o == req[r].s
  <2>1. /\ o \in Sprint /\ sprint[o].state = "active" /\ sprint[o].velocity = None
        /\ sprint'[o].state = "completed"
        /\ \A n \in Sprint \ {o} :
             /\ sprint'[n].velocity = sprint[n].velocity /\ sprint'[n].state = sprint[n].state
             /\ sprint'[n].edited = sprint[n].edited
    BY <1>5, CommitFacts
  <2> QED
    BY <2>1
<1>6. ASSUME NEW r \in Request, DeleteCommit(r) PROVE Kept
  BY <1>6, SerialRows DEF DeleteCommit, SprintRow
<1>7. ASSUME NEW r \in Request,
             \/ CompleteVelocity(r) \/ CompleteUpdate(r) \/ CompleteCarry(r) \/ DeleteTasks(r)
             \/ \E target \in Target : CompleteTarget(r, target)
             \/ AssignUpdate(r) \/ CreateTaskInsert(r)
      PROVE  Kept
  BY <1>7 DEF CompleteVelocity, CompleteUpdate, CompleteCarry, DeleteTasks, CompleteTarget,
              AssignUpdate, CreateTaskInsert
<1>8. CASE UNCHANGED vars
  BY <1>8 DEF vars
<1> QED
  BY <1>1, <1>2, <1>3, <1>4, <1>5, <1>6, <1>7, <1>8 DEF SerialNext, Step

(* What a completion does to the tasks it takes out of their sprint. *)
LEMMA CarryStep ==
    ASSUME SerialInv, NEW r \in Request, NEW t \in Task, CompleteCommit(r),
           task'[t].sprint # task[t].sprint
    PROVE  /\ snap'[req[r].s][t] # "absent"
           /\ task'[t].sprint # Backlog => sprint'[task'[t].sprint].state # "completed"
<1> DEFINE s == req[r].s
<1>1. /\ task[t].row = "live" /\ task[t].sprint = s /\ task[t].status = "todo"
      /\ snap'[s] = SnapshotRows(s)
      /\ task'[t].sprint # Backlog => sprint'[task'[t].sprint].state # "completed"
  BY CommitFacts
<1>2. SnapshotRows(s)[t] = "todo"
  BY <1>1 DEF SnapshotRows, TasksOf, LiveTask
<1> QED
  BY <1>1, <1>2
=============================================================================
