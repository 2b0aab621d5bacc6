-------------------------- MODULE WorkItemsProofs --------------------------
(***************************************************************************)
(* What TLC checks of the system MCWorkItems composes on a small instance  *)
(* holds for any tasks, columns, projects, templates, users and requests.  *)
(*                                                                         *)
(* For Projects, ProjectMembers, Retro and TaskBoard each lemma Same...    *)
(* says that a part of MCWorkItems is the component their theorems are     *)
(* about, and each lemma ...Runs that a behaviour of the whole is one of   *)
(* that part.  Subtasks, Conversation, RecurringTemplates and BoardOrder   *)
(* have their inductive invariants here.                                   *)
(***************************************************************************)
EXTENDS MCWorkItems, TimeTrackingProofs, Sequences, FiniteSetTheorems, TLAPS

ShopFacts == INSTANCE ProjectsProofs
    WITH Key <- {"A", "B", "C"}, Task <- Card, LastTime <- 3,
         now <- moment, project <- home, task <- work,
         Admin <- {"root"}, Member <- {"ann", "bob"}, Viewer <- {"eve"}

WallFacts == INSTANCE RetroProofs
    WITH Note <- Card, User <- {"ann"}, Admin <- {}, Body <- {"a", "b"}, Request <- {"only"},
         Overlap <- FALSE, req <- retroReq

BoardFacts == INSTANCE TaskBoardProofs
    WITH Task <- Card, Handlers <- {"create", "move", "bulk", "edit_column", "restore"},
         Overlap <- TRUE, MaxSeq <- 2, req <- boardReq

ColumnsFacts == INSTANCE TaskBoardProofs
    WITH Task <- Card, Handlers <- {"create", "move", "bulk", "edit_column", "delete_column"},
         Overlap <- FALSE, MaxSeq <- 2, req <- boardReq

(* None is no row, no key and no time. *)
NoneApart == None \notin Project \cup Task \cup Colleague \cup Comment \cup {"A", "B", "C"} \cup Nat

----------------------------------------------------------------------------
(* Projects *)

LEMMA SameShop ==
    /\ Shop!Init <=> ShopFacts!Init
    /\ Shop!Next <=> ShopFacts!Next
    /\ shopVars = ShopFacts!vars
<1>1. (Shop!Init <=> ShopFacts!Init) /\ shopVars = ShopFacts!vars
  BY DEF Shop!Init, ShopFacts!Init, shopVars, ShopFacts!vars
<1>2. Shop!Next <=> ShopFacts!Next
  BY DEF Shop!Next, Shop!Create, Shop!Rename, Shop!CreateTask, Shop!Notify, Shop!DeleteTask,
         Shop!RestoreTask, Shop!DeleteProject, Shop!RestoreProject, Shop!Live, Shop!LiveTask,
         Shop!Reachable, Shop!Taken, Shop!TasksRenamed, Shop!TakenDown,
         ShopFacts!Next, ShopFacts!Create, ShopFacts!Rename, ShopFacts!CreateTask,
         ShopFacts!Notify, ShopFacts!DeleteTask, ShopFacts!RestoreTask,
         ShopFacts!DeleteProject, ShopFacts!RestoreProject, ShopFacts!Live,
         ShopFacts!LiveTask, ShopFacts!Reachable, ShopFacts!Taken, ShopFacts!TasksRenamed,
         ShopFacts!TakenDown
<1> QED
  BY <1>1, <1>2

LEMMA ShopRuns == WorkSpec => ShopFacts!Spec
<1>1. WorkInit => ShopFacts!Init
  BY SameShop DEF WorkInit
<1>2. WorkNext => IF part = "projects" THEN Shop!Next ELSE UNCHANGED shopVars
  BY DEF WorkNext
<1>3. UNCHANGED workVars => UNCHANGED shopVars
  BY DEF workVars
<1>4. [WorkNext]_workVars => [ShopFacts!Next]_(ShopFacts!vars)
  BY <1>2, <1>3, SameShop DEF shopVars, ShopFacts!vars
<1> QED
  BY <1>1, <1>4, PTL DEF WorkSpec, ShopFacts!Spec

(* A task's key leads to the task's own project, and no two live projects share a
   key (edit() and restore_project() in routes/projects.rs). *)
THEOREM KeysAlwaysLeadHome == ASSUME NoneApart PROVE WorkSpec => []KeysLeadHome
<1>1. ShopFacts!NoneApart
  BY DEF NoneApart, ShopFacts!NoneApart
<1>2. ShopFacts!Spec => []ShopFacts!KeysLeadHome
  BY <1>1, ShopFacts!KeysAlwaysLeadHome
<1>3. ShopFacts!KeysLeadHome => KeysLeadHome
  BY DEF KeysLeadHome, Shop!KeysLeadHome, ShopFacts!KeysLeadHome, Shop!Live, ShopFacts!Live
<1> QED
  BY <1>2, <1>3, ShopRuns, PTL

(* Restoring a project brings back what deleting it took, less what was restored
   since (restore_project() in routes/projects.rs). *)
THEOREM RestorationIsExact == ASSUME NoneApart PROVE WorkSpec => RestoreIsExact
<1>1. ShopFacts!NoneApart
  BY DEF NoneApart, ShopFacts!NoneApart
<1>2. ShopFacts!Spec => ShopFacts!RestoreIsExact
  BY <1>1, ShopFacts!RestorationIsExact
<1> QED
  BY <1>2, ShopRuns, PTL
     DEF RestoreIsExact, Shop!RestoreIsExact, ShopFacts!RestoreIsExact, Shop!vars, ShopFacts!vars

----------------------------------------------------------------------------
(* Members *)

LEMMA SameMembers ==
    /\ Members!Next <=> ShopFacts!Members!Next
    /\ memberVars = ShopFacts!Members!vars /\ memberVars = Members!vars
<1>1. memberVars = ShopFacts!Members!vars /\ memberVars = Members!vars
  BY DEF memberVars, ShopFacts!Members!vars, Members!vars
<1>2. Members!Next <=> ShopFacts!Members!Next
  BY DEF Members!Next, Members!Archive, Members!Unarchive, Members!RemoveMember,
         Members!AddMember, Members!ChangeMemberRole, Members!Can, Members!LastLead,
         Members!Leads, Members!User, Members!ProjectRole, Members!Read, Members!Manage,
         Members!Toggle, Members!Cardinality,
         ShopFacts!Members!Next, ShopFacts!Members!Archive, ShopFacts!Members!Unarchive,
         ShopFacts!Members!RemoveMember, ShopFacts!Members!AddMember,
         ShopFacts!Members!ChangeMemberRole, ShopFacts!Members!Can, ShopFacts!Members!LastLead,
         ShopFacts!Members!Leads, ShopFacts!Members!User, ShopFacts!Members!ProjectRole,
         ShopFacts!Members!Read, ShopFacts!Members!Manage, ShopFacts!Members!Toggle,
         ShopFacts!Members!Cardinality
<1> QED
  BY <1>1, <1>2

LEMMA MembersRun == WorkSpec => ShopFacts!Members!Spec
<1>1. WorkInit => ShopFacts!Members!Init
  BY DEF WorkInit, Members!Init, Members!User, ShopFacts!Members!Init, ShopFacts!Members!User
<1>2. WorkNext => IF part = "members" THEN Members!Next ELSE UNCHANGED memberVars
  BY DEF WorkNext
<1>3. UNCHANGED workVars => UNCHANGED memberVars
  BY DEF workVars
<1>4. [WorkNext]_workVars => [ShopFacts!Members!Next]_(ShopFacts!Members!vars)
  BY <1>2, <1>3, SameMembers DEF memberVars, ShopFacts!Members!vars
<1> QED
  BY <1>1, <1>4, PTL DEF WorkSpec, ShopFacts!Members!Spec

(* A project loses its only lead when that lead is added again with another role,
   and in no other way (routes/projects.rs). *)
THEOREM OnlyReaddingLosesTheLead == WorkSpec => OnlyReaddingTakesTheLastLead
<1>1. ShopFacts!Members!Spec => ShopFacts!Members!OnlyReaddingTakesTheLastLead
  BY ShopFacts!OnlyReaddingLosesTheLead
<1>2. ShopFacts!Members!OnlyReaddingTakesTheLastLead => OnlyReaddingTakesTheLastLead
  BY PTL
     DEF OnlyReaddingTakesTheLastLead, Members!OnlyReaddingTakesTheLastLead, Members!vars,
         Members!AddMember, Members!Can, Members!Leads, Members!User, Members!ProjectRole,
         Members!Read, Members!Manage, Members!Toggle,
         ShopFacts!Members!OnlyReaddingTakesTheLastLead, ShopFacts!Members!vars,
         ShopFacts!Members!AddMember, ShopFacts!Members!Can, ShopFacts!Members!Leads,
         ShopFacts!Members!User, ShopFacts!Members!ProjectRole, ShopFacts!Members!Read,
         ShopFacts!Members!Manage, ShopFacts!Members!Toggle
<1> QED
  BY <1>1, <1>2, MembersRun, PTL

----------------------------------------------------------------------------
(* Retrospectives *)

LEMMA SameWall ==
    /\ Wall!Init <=> WallFacts!Init
    /\ Wall!Next <=> WallFacts!Next
    /\ retroVars = WallFacts!vars
<1>1. retroVars = WallFacts!vars
  BY DEF retroVars, WallFacts!vars
<1>2. Wall!Init <=> WallFacts!Init
  BY DEF Wall!Init, Wall!NoNote, Wall!Idle, WallFacts!Init, WallFacts!NoNote, WallFacts!Idle
<1>3. Wall!Next <=> WallFacts!Next
  BY DEF Wall!Next, Wall!Begin, Wall!Finish, Wall!Ready, Wall!CreateCheck, Wall!CreateInsert,
         Wall!Fresh, Wall!MayWrite, Wall!Editable, Wall!EditCheck, Wall!EditUpdate,
         Wall!DeleteNote, Wall!Vote, Wall!Unvote, Wall!Promotable, Wall!PromoteCheck,
         Wall!PromoteCommit, Wall!Bullets, Wall!CloseRead, Wall!CloseCommit, Wall!Kind,
         Wall!Idle, Wall!NoNote, Wall!Live, Wall!Open, Wall!Cardinality,
         WallFacts!Next, WallFacts!Begin, WallFacts!Finish, WallFacts!Ready,
         WallFacts!CreateCheck, WallFacts!CreateInsert, WallFacts!Fresh, WallFacts!MayWrite,
         WallFacts!Editable, WallFacts!EditCheck, WallFacts!EditUpdate, WallFacts!DeleteNote,
         WallFacts!Vote, WallFacts!Unvote, WallFacts!Promotable, WallFacts!PromoteCheck,
         WallFacts!PromoteCommit, WallFacts!Bullets, WallFacts!CloseRead, WallFacts!CloseCommit,
         WallFacts!Kind, WallFacts!Idle, WallFacts!NoNote, WallFacts!Live, WallFacts!Open,
         WallFacts!Cardinality
<1> QED
  BY <1>1, <1>2, <1>3

LEMMA WallRuns == WorkSpec => WallFacts!Spec
<1>1. WorkInit => WallFacts!Init
  BY SameWall DEF WorkInit
<1>2. WorkNext => IF part = "retro" THEN Wall!Next ELSE UNCHANGED retroVars
  BY DEF WorkNext
<1>3. UNCHANGED workVars => UNCHANGED retroVars
  BY DEF workVars
<1>4. [WorkNext]_workVars => [WallFacts!Next]_(WallFacts!vars)
  BY <1>2, <1>3, SameWall DEF retroVars, WallFacts!vars
<1> QED
  BY <1>1, <1>4, PTL DEF WorkSpec, WallFacts!Spec

(* The record of a closed retro says what its notes say, and a promoted note has made
   one task, one request at a time (routes/retros.rs). *)
THEOREM RecordKept == WorkSpec => []RecordDoesNotLie
<1>1. WallFacts!Countable
  BY FS_Singleton DEF WallFacts!Countable, WallFacts!IsFiniteSet, IsFiniteSet
<1>2. WallFacts!Spec => []WallFacts!RecordDoesNotLie
  BY <1>1, WallFacts!RecordKept
<1>3. WallFacts!RecordDoesNotLie => RecordDoesNotLie
  BY DEF RecordDoesNotLie, Wall!RecordDoesNotLie, WallFacts!RecordDoesNotLie, Wall!Live,
         WallFacts!Live
<1> QED
  BY <1>2, <1>3, WallRuns, PTL

----------------------------------------------------------------------------
(* Tasks and columns: the part "board" overlaps its requests, "columns" does not. *)

LEMMA SameBoard ==
    /\ Board!Init <=> BoardFacts!Init
    /\ Board!Next <=> BoardFacts!Next
    /\ boardVars = BoardFacts!vars
<1>1. boardVars = BoardFacts!vars
  BY DEF boardVars, BoardFacts!vars
<1>2. Board!Init <=> BoardFacts!Init
  BY DEF Board!Init, Board!NoColumn, Board!NoTask, Board!Idle,
         BoardFacts!Init, BoardFacts!NoColumn, BoardFacts!NoTask, BoardFacts!Idle
<1>3. Board!Next <=> BoardFacts!Next
  BY DEF Board!Next, Board!CreateRead, Board!NextKey, Board!CreateCommit, Board!CreateRollback,
         Board!MoveRead, Board!BulkRead, Board!MoveUpdate, Board!Moved,
         Board!CompletedAfterMove, Board!DeleteTasks, Board!RestoreTask, Board!CreateColumn,
         Board!EditColumn, Board!DeleteColumnCount, Board!ColumnEmpty, Board!DeleteColumnUpdate,
         Board!Ready, Board!Begin, Board!Finish, Board!KeyLocked, Board!Returned, Board!NewTask,
         Board!NewColumn, Board!Live, Board!LiveColumn, Board!Category, Board!Idle,
         BoardFacts!Next, BoardFacts!CreateRead, BoardFacts!NextKey, BoardFacts!CreateCommit,
         BoardFacts!CreateRollback, BoardFacts!MoveRead, BoardFacts!BulkRead,
         BoardFacts!MoveUpdate, BoardFacts!Moved, BoardFacts!CompletedAfterMove,
         BoardFacts!DeleteTasks, BoardFacts!RestoreTask, BoardFacts!CreateColumn,
         BoardFacts!EditColumn, BoardFacts!DeleteColumnCount, BoardFacts!ColumnEmpty,
         BoardFacts!DeleteColumnUpdate, BoardFacts!Ready, BoardFacts!Begin, BoardFacts!Finish,
         BoardFacts!KeyLocked, BoardFacts!Returned, BoardFacts!NewTask, BoardFacts!NewColumn,
         BoardFacts!Live, BoardFacts!LiveColumn, BoardFacts!Category, BoardFacts!Idle
<1> QED
  BY <1>1, <1>2, <1>3

LEMMA SameColumns ==
    /\ Board!Init <=> ColumnsFacts!Init
    /\ Columns!Next <=> ColumnsFacts!Next
    /\ boardVars = ColumnsFacts!vars
<1>1. boardVars = ColumnsFacts!vars
  BY DEF boardVars, ColumnsFacts!vars
<1>2. Board!Init <=> ColumnsFacts!Init
  BY DEF Board!Init, Board!NoColumn, Board!NoTask, Board!Idle,
         ColumnsFacts!Init, ColumnsFacts!NoColumn, ColumnsFacts!NoTask, ColumnsFacts!Idle
<1>3. Columns!Next <=> ColumnsFacts!Next
  BY DEF Columns!Next, Columns!CreateRead, Columns!NextKey, Columns!CreateCommit,
         Columns!CreateRollback, Columns!MoveRead, Columns!BulkRead, Columns!MoveUpdate,
         Columns!Moved, Columns!CompletedAfterMove, Columns!DeleteTasks, Columns!RestoreTask,
         Columns!CreateColumn, Columns!EditColumn, Columns!DeleteColumnCount,
         Columns!ColumnEmpty, Columns!DeleteColumnUpdate, Columns!Ready, Columns!Begin,
         Columns!Finish, Columns!KeyLocked, Columns!Returned, Columns!NewTask,
         Columns!NewColumn, Columns!Live, Columns!LiveColumn, Columns!Category, Columns!Idle,
         ColumnsFacts!Next, ColumnsFacts!CreateRead, ColumnsFacts!NextKey,
         ColumnsFacts!CreateCommit, ColumnsFacts!CreateRollback, ColumnsFacts!MoveRead,
         ColumnsFacts!BulkRead, ColumnsFacts!MoveUpdate, ColumnsFacts!Moved,
         ColumnsFacts!CompletedAfterMove, ColumnsFacts!DeleteTasks, ColumnsFacts!RestoreTask,
         ColumnsFacts!CreateColumn, ColumnsFacts!EditColumn, ColumnsFacts!DeleteColumnCount,
         ColumnsFacts!ColumnEmpty, ColumnsFacts!DeleteColumnUpdate, ColumnsFacts!Ready,
         ColumnsFacts!Begin, ColumnsFacts!Finish, ColumnsFacts!KeyLocked, ColumnsFacts!Returned,
         ColumnsFacts!NewTask, ColumnsFacts!NewColumn, ColumnsFacts!Live,
         ColumnsFacts!LiveColumn, ColumnsFacts!Category, ColumnsFacts!Idle
<1> QED
  BY <1>1, <1>2, <1>3
(* While the part is chosen, the invariants of TaskBoardProofs hold of it. *)
BoardInv ==
    /\ part = "board" => BoardFacts!Inv
    /\ part = "columns" => ColumnsFacts!SerialInv
    /\ part \notin {"board", "columns"} => BoardFacts!Init

LEMMA BoardRuns == WorkSpec => []BoardInv
<1>1. BoardFacts!Bounds /\ ColumnsFacts!Bounds
  BY DEF BoardFacts!Bounds, ColumnsFacts!Bounds
<1>2. WorkInit => BoardInv
  <2>1. BoardFacts!Init => BoardFacts!Inv
    BY <1>1, BoardFacts!InitInv
  <2>2. ColumnsFacts!Init => ColumnsFacts!SerialInv
    BY <1>1, ColumnsFacts!InitSerialInv
  <2> QED
    BY <2>1, <2>2, SameBoard, SameColumns DEF WorkInit, BoardInv
<1>3. BoardInv /\ [WorkNext]_workVars => BoardInv'
  <2> SUFFICES ASSUME BoardInv, [WorkNext]_workVars PROVE BoardInv'
    OBVIOUS
  <2>1. part' = part
    BY DEF WorkNext, workVars
  <2>2. CASE part = "board"
    <3>1. [BoardFacts!Next]_(BoardFacts!vars)
      BY <2>2, SameBoard DEF WorkNext, workVars, boardVars, BoardFacts!vars
    <3>2. BoardFacts!Inv'
      BY <1>1, <2>2, <3>1, BoardFacts!NextInv DEF BoardInv
    <3> QED
      BY <2>1, <2>2, <3>2 DEF BoardInv
  <2>3. CASE part = "columns"
    <3>1. [ColumnsFacts!Next]_(ColumnsFacts!vars)
      BY <2>3, SameColumns DEF WorkNext, workVars, boardVars, ColumnsFacts!vars
    <3>2. ColumnsFacts!SerialInv'
      BY <1>1, <2>3, <3>1, ColumnsFacts!SerialNextInv DEF BoardInv
    <3> QED
      BY <2>1, <2>3, <3>2 DEF BoardInv
  <2>4. CASE part \notin {"board", "columns"}
    <3>1. UNCHANGED boardVars
      BY <2>4 DEF WorkNext, workVars
    <3>2. BoardFacts!Init'
      BY <2>4, <3>1 DEF BoardInv, BoardFacts!Init, boardVars
    <3> QED
      BY <2>1, <2>4, <3>2 DEF BoardInv
  <2> QED
    BY <2>2, <2>3, <2>4
<1> QED
  BY <1>2, <1>3, PTL DEF WorkSpec

(* No two tasks share a key and a reserved key is free; a completed task is done; and
   one request at a time, with no deleted task restored, every live task is in a
   column of its board (routes/tasks.rs, routes/boards.rs). *)
THEOREM BoardAlwaysSound == WorkSpec => []BoardIsSound
<1>1. BoardFacts!Bounds /\ ColumnsFacts!Bounds
  BY DEF BoardFacts!Bounds, ColumnsFacts!Bounds
<1>2. BoardFacts!Inv => Board!KeysUnique /\ Board!CompletedOnlyWhenDone
  <2>1. BoardFacts!Inv => BoardFacts!KeysUnique /\ BoardFacts!CompletedOnlyWhenDone
    BY <1>1, BoardFacts!InvKeysUnique DEF BoardFacts!Inv
  <2> QED
    BY <2>1 DEF Board!KeysUnique, Board!CompletedOnlyWhenDone,
                BoardFacts!KeysUnique, BoardFacts!CompletedOnlyWhenDone
<1>3. ColumnsFacts!SerialInv => /\ Board!KeysUnique /\ Board!CompletedOnlyWhenDone
                                /\ Columns!LiveTaskInLiveColumn
  <2>1. ColumnsFacts!SerialInv => /\ ColumnsFacts!KeysUnique
                                  /\ ColumnsFacts!CompletedOnlyWhenDone
                                  /\ ColumnsFacts!LiveTaskInLiveColumn
    BY <1>1, ColumnsFacts!InvKeysUnique DEF ColumnsFacts!SerialInv, ColumnsFacts!Inv
  <2> QED
    BY <2>1 DEF Board!KeysUnique, Board!CompletedOnlyWhenDone,
                ColumnsFacts!KeysUnique, ColumnsFacts!CompletedOnlyWhenDone,
                Columns!LiveTaskInLiveColumn, Columns!Live, Columns!LiveColumn,
                ColumnsFacts!LiveTaskInLiveColumn, ColumnsFacts!Live, ColumnsFacts!LiveColumn
<1>4. BoardInv => BoardIsSound
  BY <1>2, <1>3 DEF BoardInv, BoardIsSound
<1> QED
  BY <1>4, BoardRuns, PTL

----------------------------------------------------------------------------
(* Subtasks: the part "family" has no drags and one request at a time, the part
   "drag" has them and overlaps its requests. *)

(* The types of the rows; a place may be any, and so may what a drag lists. *)
RequestLike(order) ==
    [pc: {"idle", "parent", "children", "set_parent", "reorder"},
     t: Task \cup {None}, p: Task \cup {None}, order: {order}]

FamilyShape ==
    /\ family = [t \in Task |-> family[t]]
    /\ \A t \in Task :
         family[t] \in [row: {"absent", "live", "deleted"}, parent: Task \cup {None},
                       position: {family[t].position}]
    /\ familyReq = [r \in Request |-> familyReq[r]]
    /\ \A r \in Request : familyReq[r] \in RequestLike(familyReq[r].order)

(* A parent was created before its subtasks. *)
ParentsExist ==
    \A t \in Task : family[t].parent # None => family[family[t].parent].row # "absent"

(* What set_parent() has checked of the parent stands when it writes. *)
ParentChecked ==
    \A r \in Request :
        /\ familyReq[r].pc \in {"idle", "parent", "children", "set_parent"}
        /\ familyReq[r].pc # "idle" => familyReq[r].t \in Task /\ familyReq[r].p \in Task
        /\ familyReq[r].pc \in {"children", "set_parent"} =>
             /\ familyReq[r].p # familyReq[r].t /\ family[familyReq[r].p].parent = None
             /\ family[familyReq[r].p].row # "absent"
        /\ familyReq[r].pc # "idle" =>
             \A q \in Request \ {r} : familyReq[q].pc = "idle"

FamilyInv == FamilyShape /\ ParentsExist /\ ParentChecked /\ Family!NoFamilyCycle

DragInv == FamilyShape /\ Drag!DraggedFamilyStays

(* Under a task that has no parent itself, another task closes no ring. *)
LEMMA AdoptionKeepsOrder ==
    ASSUME Family!NoFamilyCycle, NEW t \in Task, NEW p,
           p = None \/ (p \in Task /\ p # t /\ family[p].parent = None), None \notin Task,
           \A s \in Task : family'[s].parent = IF s = t THEN p ELSE family[s].parent
    PROVE  Family!NoFamilyCycle'
<1> SUFFICES ASSUME NEW S \in SUBSET Task, S # {}
             PROVE  \E s \in S : family'[s].parent \notin S
  BY DEF Family!NoFamilyCycle
<1>1. CASE t \notin S
  BY <1>1 DEF Family!NoFamilyCycle
<1>2. CASE t \in S /\ p \notin S
  BY <1>2
<1>3. CASE p \in S
  BY <1>3
<1> QED
  BY <1>1, <1>2, <1>3

(* A new task is nobody's parent yet. *)
LEMMA BirthKeepsOrder ==
    ASSUME Family!NoFamilyCycle, ParentsExist, NEW t \in Task, NEW p \in Task \cup {None},
           family[t].row = "absent", p # t, None \notin Task,
           \A s \in Task : family'[s].parent = IF s = t THEN p ELSE family[s].parent
    PROVE  Family!NoFamilyCycle'
<1> SUFFICES ASSUME NEW S \in SUBSET Task, S # {}
             PROVE  \E s \in S : family'[s].parent \notin S
  BY DEF Family!NoFamilyCycle
<1>1. CASE p \notin S /\ t \in S
  BY <1>1
<1>2. CASE t \notin S
  BY <1>2 DEF Family!NoFamilyCycle
<1>3. CASE p \in S /\ t \in S
  <2>1. PICK s \in S \ {t} : family[s].parent \notin S \ {t}
    <3> DEFINE U == S \ {t}
    <3>1. U \in SUBSET Task /\ U # {}
      BY <1>3
    <3> QED
      BY <3>1 DEF Family!NoFamilyCycle
  <2>2. family[s].parent # t
    BY DEF ParentsExist
  <2> QED
    BY <2>1, <2>2
<1> QED
  BY <1>1, <1>2, <1>3

LEMMA FamilyInit == ASSUME NoneApart PROVE Drag!Init => FamilyInv /\ DragInv
<1> SUFFICES ASSUME Drag!Init PROVE FamilyInv /\ DragInv
  OBVIOUS
<1>1. /\ family = [t \in Task |-> [row |-> "absent", parent |-> None, position |-> 0]]
      /\ familyReq = [r \in Request |-> [pc |-> "idle", t |-> None, p |-> None, order |-> <<>>]]
  BY DEF Drag!Init, Drag!NoTask, Drag!Idle
<1>2. FamilyShape /\ ParentsExist /\ ParentChecked
  BY <1>1 DEF FamilyShape, RequestLike, ParentsExist, ParentChecked
<1>3. Family!NoFamilyCycle /\ Drag!DraggedFamilyStays
  BY <1>1 DEF Family!NoFamilyCycle, Drag!DraggedFamilyStays, NoneApart
<1> QED
  BY <1>2, <1>3 DEF FamilyInv, DragInv

(* create_task(), delete_task(), restore_task() and a promotion. *)
LEMMA FamilyTaskInv ==
    ASSUME NoneApart, FamilyInv,
           \/ \E p \in Task \cup {None} : Family!CreateTask(p)
           \/ \E t \in Task : Family!DeleteTask(t) \/ Family!RestoreTask(t) \/ Family!Promote(t)
    PROVE  FamilyInv'
<1>1. FamilyShape /\ ParentsExist /\ ParentChecked /\ Family!NoFamilyCycle /\ None \notin Task
  BY DEF FamilyInv, NoneApart
<1>2. familyReq' = familyReq /\ \A r \in Request : familyReq[r].pc = "idle"
  BY DEF Family!CreateTask, Family!DeleteTask, Family!RestoreTask, Family!Promote, Family!Ready
<1>3. ParentChecked'
  BY <1>2 DEF ParentChecked
<1>4. ASSUME NEW p \in Task \cup {None}, Family!CreateTask(p)
      PROVE  FamilyInv'
  <2> DEFINE new == Family!NewTask
             row == [row |-> "live", parent |-> p,
                     position |-> IF p = None THEN 0 ELSE Family!NextPosition(p, new)]
  <2>1. new \in Task /\ family[new].row = "absent"
    BY <1>4 DEF Family!CreateTask, Family!NewTask
  <2>2. family' = [family EXCEPT ![new] = row] /\ (p # None => family[p].row # "absent")
    BY <1>4 DEF Family!CreateTask
  <2>3. /\ row \in [row: {"live"}, parent: {p}, position: {row.position}]
        /\ row.row = "live" /\ row.parent = p
    OBVIOUS
  <2> HIDE DEF row, new
  <2>4. family' = [t \in Task |-> IF t = new THEN row ELSE family[t]]
    BY <1>1, <2>1, <2>2 DEF FamilyShape
  <2>5. FamilyShape'
    BY <1>1, <1>2, <2>3, <2>4 DEF FamilyShape
  <2>6. ParentsExist'
    BY <1>1, <2>1, <2>2, <2>3, <2>4 DEF ParentsExist
  <2>7. Family!NoFamilyCycle'
    BY <1>1, <2>1, <2>2, <2>3, <2>4, BirthKeepsOrder
  <2> QED
    BY <1>3, <2>5, <2>6, <2>7 DEF FamilyInv
<1>5. ASSUME NEW t \in Task, NEW state \in {"live", "deleted"}, family[t].row # "absent",
             family' = [family EXCEPT ![t].row = state]
      PROVE  FamilyInv'
  <2>1. FamilyShape'
    BY <1>1, <1>2, <1>5 DEF FamilyShape
  <2>2. \A s \in Task : /\ family'[s].parent = family[s].parent
                        /\ family[s].row # "absent" => family'[s].row # "absent"
    BY <1>1, <1>5 DEF FamilyShape
  <2>3. ParentsExist' /\ Family!NoFamilyCycle'
    BY <1>1, <2>2 DEF FamilyShape, ParentsExist, Family!NoFamilyCycle
  <2> QED
    BY <1>3, <2>1, <2>3 DEF FamilyInv
<1>6. ASSUME NEW t \in Task, Family!Promote(t)
      PROVE  FamilyInv'
  <2>1. family' = [family EXCEPT ![t].parent = None, ![t].position = 0]
    BY <1>6 DEF Family!Promote
  <2>2. FamilyShape'
    BY <1>1, <1>2, <2>1 DEF FamilyShape
  <2>3. \A s \in Task : /\ family'[s].parent = IF s = t THEN None ELSE family[s].parent
                        /\ family'[s].row = family[s].row
    BY <1>1, <2>1 DEF FamilyShape
  <2>4. ParentsExist'
    BY <1>1, <2>3 DEF FamilyShape, ParentsExist
  <2>5. Family!NoFamilyCycle'
    BY <1>1, <2>3, AdoptionKeepsOrder
  <2> QED
    BY <1>3, <2>2, <2>4, <2>5 DEF FamilyInv
<1> QED
  BY <1>4, <1>5, <1>6 DEF Family!DeleteTask, Family!RestoreTask, Family!Live

(* A request that reads, or ends without a write. *)
LEMMA FamilyReadInv ==
    ASSUME FamilyInv,
           \/ \E r \in Request, t, p \in Task : Family!SetParentResolve(r, t, p)
           \/ \E r \in Request : Family!ParentRead(r) \/ Family!ChildrenCount(r)
    PROVE  FamilyInv'
<1>1. FamilyShape /\ ParentsExist /\ ParentChecked /\ Family!NoFamilyCycle
  BY DEF FamilyInv
<1>2. family' = family
  BY DEF Family!SetParentResolve, Family!ParentRead, Family!ChildrenCount
<1>3. ParentsExist' /\ Family!NoFamilyCycle'
  BY <1>1, <1>2 DEF ParentsExist, Family!NoFamilyCycle
<1>4. ASSUME NEW r \in Request, NEW q, q \in RequestLike(q.order),
             familyReq' = [familyReq EXCEPT ![r] = q],
             q.pc # "reorder",
             q.pc # "idle" => q.t \in Task /\ q.p \in Task,
             q.pc \in {"children", "set_parent"} =>
                 q.p # q.t /\ family[q.p].parent = None /\ family[q.p].row # "absent",
             \A s \in Request \ {r} : familyReq[s].pc = "idle"
      PROVE  FamilyInv'
  <2>1. familyReq' = [s \in Request |-> IF s = r THEN q ELSE familyReq[s]]
    BY <1>1, <1>4 DEF FamilyShape
  <2>2. FamilyShape'
    BY <1>1, <1>2, <1>4, <2>1 DEF FamilyShape
  <2>3. ParentChecked'
    BY <1>1, <1>2, <1>4, <2>1 DEF ParentChecked, RequestLike
  <2> QED
    BY <1>3, <2>2, <2>3 DEF FamilyInv
<1>5. ASSUME NEW r \in Request, NEW t \in Task, NEW p \in Task, Family!SetParentResolve(r, t, p)
      PROVE  FamilyInv'
  <2> DEFINE q == [Family!Idle EXCEPT !.pc = "parent", !.t = t, !.p = p]
  <2>1. familyReq' = [familyReq EXCEPT ![r] = q] /\ \A s \in Request : familyReq[s].pc = "idle"
    BY <1>5 DEF Family!SetParentResolve, Family!Ready
  <2>2. /\ q \in RequestLike(q.order)
        /\ q.pc = "parent" /\ q.t = t /\ q.p = p
    BY DEF RequestLike, Family!Idle, Drag!Idle
  <2> HIDE DEF q
  <2> QED
    BY <1>4, <2>1, <2>2
<1>6. ASSUME NEW r \in Request, familyReq[r].pc # "idle", Family!Finish(r)
      PROVE  FamilyInv'
  <2> DEFINE q == [pc |-> "idle", t |-> None, p |-> None, order |-> <<>>]
  <2>1. familyReq' = [familyReq EXCEPT ![r] = q]
    BY <1>6 DEF Family!Finish, Family!Idle
  <2>2. q \in RequestLike(q.order) /\ q.pc = "idle"
    BY DEF RequestLike, Family!Idle, Drag!Idle
  <2>3. \A s \in Request \ {r} : familyReq[s].pc = "idle"
    BY <1>1, <1>6 DEF ParentChecked
  <2> HIDE DEF q
  <2> QED
    BY <1>4, <2>1, <2>2, <2>3
<1>7. ASSUME NEW r \in Request, NEW next \in {"children", "set_parent"},
             familyReq[r].pc # "idle", familyReq' = [familyReq EXCEPT ![r].pc = next],
             /\ familyReq[r].p # familyReq[r].t /\ family[familyReq[r].p].parent = None
             /\ family[familyReq[r].p].row # "absent"
      PROVE  FamilyInv'
  <2> DEFINE q == [familyReq[r] EXCEPT !.pc = next]
  <2>1. familyReq' = [familyReq EXCEPT ![r] = q]
    BY <1>7
  <2>2. /\ q \in RequestLike(q.order)
        /\ q.pc = next /\ q.t = familyReq[r].t /\ q.p = familyReq[r].p
    BY <1>1 DEF FamilyShape, RequestLike
  <2>3. /\ familyReq[r].t \in Task /\ familyReq[r].p \in Task
        /\ \A s \in Request \ {r} : familyReq[s].pc = "idle"
    BY <1>1, <1>7 DEF ParentChecked
  <2> HIDE DEF q
  <2> QED
    BY <1>4, <1>7, <2>1, <2>2, <2>3
<1>8. ASSUME NEW r \in Request, Family!ParentRead(r)
      PROVE  FamilyInv'
  BY <1>6, <1>7, <1>8 DEF Family!ParentRead, Family!AcceptableParent, Family!Live
<1>9. ASSUME NEW r \in Request, Family!ChildrenCount(r)
      PROVE  FamilyInv'
  BY <1>1, <1>6, <1>7, <1>9 DEF Family!ChildrenCount, ParentChecked
<1> QED
  BY <1>5, <1>8, <1>9

LEMMA SetParentInv ==
    ASSUME NoneApart, FamilyInv, NEW r \in Request, Family!SetParentUpdate(r)
    PROVE  FamilyInv'
<1> DEFINE t == familyReq[r].t
           p == familyReq[r].p
           place == Family!NextPosition(p, t)
<1>1. FamilyShape /\ ParentsExist /\ ParentChecked /\ Family!NoFamilyCycle /\ None \notin Task
  BY DEF FamilyInv, NoneApart
<1>2. /\ t \in Task /\ p \in Task /\ p # t /\ family[p].parent = None
      /\ family[p].row # "absent" /\ \A q \in Request \ {r} : familyReq[q].pc = "idle"
  BY <1>1 DEF ParentChecked, Family!SetParentUpdate
<1>3. /\ family' = [family EXCEPT ![t].parent = p, ![t].position = place]
      /\ familyReq' = [familyReq EXCEPT ![r] =
                           [pc |-> "idle", t |-> None, p |-> None, order |-> <<>>]]
  BY DEF Family!SetParentUpdate, Family!Finish, Family!Idle
<1> HIDE DEF t, p, place
<1>4. familyReq' = [q \in Request |-> IF q = r
                       THEN [pc |-> "idle", t |-> None, p |-> None, order |-> <<>>]
                       ELSE familyReq[q]]
  BY <1>1, <1>3 DEF FamilyShape
<1>5. FamilyShape'
  <2>1. /\ family' = [s \in Task |-> family'[s]]
        /\ \A s \in Task :
             family'[s] \in [row: {"absent", "live", "deleted"}, parent: Task \cup {None},
                            position: {family'[s].position}]
    BY <1>1, <1>2, <1>3 DEF FamilyShape
  <2>2. /\ familyReq' = [q \in Request |-> familyReq'[q]]
        /\ \A q \in Request : familyReq'[q] \in RequestLike(familyReq'[q].order)
    BY <1>1, <1>4 DEF FamilyShape, RequestLike
  <2> QED
    BY <2>1, <2>2 DEF FamilyShape
<1>6. \A s \in Task : /\ family'[s].parent = IF s = t THEN p ELSE family[s].parent
                      /\ family'[s].row = family[s].row
  BY <1>1, <1>2, <1>3 DEF FamilyShape
<1>7. ParentsExist'
  BY <1>1, <1>2, <1>6 DEF FamilyShape, ParentsExist
<1>8. Family!NoFamilyCycle'
  BY <1>1, <1>2, <1>6, AdoptionKeepsOrder
<1>9. ParentChecked'
  BY <1>2, <1>4 DEF ParentChecked
<1> QED
  BY <1>5, <1>7, <1>8, <1>9 DEF FamilyInv

LEMMA FamilyStepInv ==
    ASSUME NoneApart, FamilyInv, Family!Next \/ UNCHANGED familyVars
    PROVE  FamilyInv'
<1>1. ASSUME NEW r \in Request, Family!ReorderWrite(r)
      PROVE  FALSE
  BY <1>1 DEF Family!ReorderWrite, FamilyInv, ParentChecked
<1>2. ASSUME NEW r \in Request, NEW p \in Task, NEW order, Family!ReorderLock(r, p, order)
      PROVE  FALSE
  BY <1>2 DEF Family!ReorderLock
<1>3. CASE UNCHANGED familyVars
  BY <1>3 DEF familyVars, FamilyInv, FamilyShape, ParentsExist, ParentChecked,
              Family!NoFamilyCycle
<1> QED
  BY <1>1, <1>2, <1>3, FamilyTaskInv, FamilyReadInv, SetParentInv DEF Family!Next

(* A drag keeps its family when the rows it locked keep their parents. *)
LEMMA DragKept ==
    ASSUME DragInv, FamilyShape',
           \A t \in Task : Drag!FamilyLocked(t) =>
               family'[t].row = family[t].row /\ family'[t].parent = family[t].parent,
           \A r \in Request : familyReq'[r].pc = "reorder" =>
               \/ familyReq'[r] = familyReq[r]
               \/ /\ Drag!ToSet(familyReq'[r].order) = Drag!Children(familyReq'[r].t)
                  /\ family' = family
    PROVE  DragInv'
<1> SUFFICES ASSUME NEW r \in Request, familyReq'[r].pc = "reorder",
                    NEW t \in Drag!ToSet(familyReq'[r].order)
             PROVE  t \in Task /\ family'[t].row = "live" /\ family'[t].parent = familyReq'[r].t
  BY DEF DragInv, Drag!DraggedFamilyStays, Drag!Children, Drag!Live
<1>1. CASE familyReq'[r] = familyReq[r]
  BY <1>1 DEF DragInv, Drag!DraggedFamilyStays, Drag!Children, Drag!Live, Drag!FamilyLocked
<1>2. CASE /\ Drag!ToSet(familyReq'[r].order) = Drag!Children(familyReq'[r].t)
           /\ family' = family
  BY <1>2 DEF Drag!Children, Drag!Live
<1> QED
  BY <1>1, <1>2

LEMMA DragTaskInv ==
    ASSUME DragInv,
           \/ \E p \in Task \cup {None} : Drag!CreateTask(p)
           \/ \E t \in Task : Drag!DeleteTask(t)
    PROVE  DragInv'
<1>1. FamilyShape /\ familyReq' = familyReq
  BY DEF DragInv, Drag!CreateTask, Drag!DeleteTask
<1>2. ASSUME NEW p \in Task \cup {None}, Drag!CreateTask(p)
      PROVE  DragInv'
  <2> DEFINE new == Drag!NewTask
             row == [row |-> "live", parent |-> p,
                     position |-> IF p = None THEN 0 ELSE Drag!NextPosition(p, new)]
  <2>1. new \in Task /\ family[new].row = "absent"
    BY <1>2 DEF Drag!CreateTask, Drag!NewTask
  <2>2. family' = [family EXCEPT ![new] = row]
    BY <1>2 DEF Drag!CreateTask
  <2>3. row \in [row: {"live"}, parent: {p}, position: {row.position}]
    OBVIOUS
  <2> HIDE DEF row, new
  <2>4. family' = [t \in Task |-> IF t = new THEN row ELSE family[t]]
    BY <1>1, <2>1, <2>2 DEF FamilyShape
  <2>5. FamilyShape'
    BY <1>1, <2>3, <2>4 DEF FamilyShape
  <2>6. ~Drag!FamilyLocked(new)
    BY <2>1 DEF DragInv, Drag!DraggedFamilyStays, Drag!FamilyLocked, Drag!Children, Drag!Live
  <2>7. \A t \in Task : Drag!FamilyLocked(t) => family'[t] = family[t]
    BY <2>4, <2>6
  <2> QED
    BY <1>1, <2>5, <2>7, DragKept
<1>3. ASSUME NEW t \in Task, Drag!DeleteTask(t)
      PROVE  DragInv'
  <2>1. family' = [family EXCEPT ![t].row = "deleted"]
    BY <1>3 DEF Drag!DeleteTask
  <2>2. FamilyShape'
    BY <1>1, <2>1 DEF FamilyShape
  <2>3. \A s \in Task : Drag!FamilyLocked(s) => family'[s] = family[s]
    BY <1>1, <1>3, <2>1 DEF FamilyShape, Drag!DeleteTask
  <2> QED
    BY <1>1, <2>2, <2>3, DragKept
<1> QED
  BY <1>2, <1>3

(* set_parent() until its write, and a drag that takes its locks. *)
LEMMA DragReadInv ==
    ASSUME DragInv,
           \/ \E r \in Request, t, p \in Task : Drag!SetParentResolve(r, t, p)
           \/ \E r \in Request : Drag!ParentRead(r) \/ Drag!ChildrenCount(r)
           \/ \E r \in Request, p \in Task : \E order : Drag!ReorderLock(r, p, order)
    PROVE  DragInv'
<1>1. FamilyShape /\ family' = family
  BY DEF DragInv, Drag!SetParentResolve, Drag!ParentRead, Drag!ChildrenCount, Drag!ReorderLock
<1>2. ASSUME NEW r \in Request, NEW q, q \in RequestLike(q.order),
             familyReq' = [familyReq EXCEPT ![r] = q],
             q.pc = "reorder" => Drag!ToSet(q.order) = Drag!Children(q.t)
      PROVE  DragInv'
  <2>1. familyReq' = [s \in Request |-> IF s = r THEN q ELSE familyReq[s]]
    BY <1>1, <1>2 DEF FamilyShape
  <2>2. FamilyShape'
    BY <1>1, <1>2, <2>1 DEF FamilyShape
  <2> QED
    BY <1>1, <1>2, <2>1, <2>2, DragKept
<1>3. ASSUME NEW r \in Request, NEW t \in Task, NEW p \in Task, Drag!SetParentResolve(r, t, p)
      PROVE  DragInv'
  <2> DEFINE q == [Drag!Idle EXCEPT !.pc = "parent", !.t = t, !.p = p]
  <2>1. familyReq' = [familyReq EXCEPT ![r] = q]
    BY <1>3 DEF Drag!SetParentResolve
  <2>2. q \in RequestLike(q.order) /\ q.pc = "parent"
    BY DEF RequestLike, Family!Idle, Drag!Idle
  <2> HIDE DEF q
  <2> QED
    BY <1>2, <2>1, <2>2
<1>4. ASSUME NEW r \in Request, Drag!Finish(r)
      PROVE  DragInv'
  <2> DEFINE q == [pc |-> "idle", t |-> None, p |-> None, order |-> <<>>]
  <2>1. familyReq' = [familyReq EXCEPT ![r] = q]
    BY <1>4 DEF Drag!Finish, Drag!Idle
  <2>2. q \in RequestLike(q.order) /\ q.pc = "idle"
    BY DEF RequestLike, Family!Idle, Drag!Idle
  <2> HIDE DEF q
  <2> QED
    BY <1>2, <2>1, <2>2
<1>5. ASSUME NEW r \in Request, NEW next \in {"children", "set_parent"},
             familyReq' = [familyReq EXCEPT ![r].pc = next]
      PROVE  DragInv'
  <2> DEFINE q == [familyReq[r] EXCEPT !.pc = next]
  <2>1. familyReq' = [familyReq EXCEPT ![r] = q]
    BY <1>5
  <2>2. q \in RequestLike(q.order) /\ q.pc = next
    BY <1>1 DEF FamilyShape, RequestLike
  <2> HIDE DEF q
  <2> QED
    BY <1>2, <2>1, <2>2
<1>6. ASSUME NEW r \in Request, NEW p \in Task, NEW order, Drag!ReorderLock(r, p, order)
      PROVE  DragInv'
  <2> DEFINE q == [Drag!Idle EXCEPT !.pc = "reorder", !.t = p, !.order = order]
  <2>1. familyReq' = [familyReq EXCEPT ![r] = q] /\ Drag!ToSet(order) = Drag!Children(p)
    BY <1>6 DEF Drag!ReorderLock
  <2>2. /\ q \in RequestLike(q.order)
        /\ q.t = p /\ q.order = order
    BY DEF RequestLike, Family!Idle, Drag!Idle
  <2> HIDE DEF q
  <2> QED
    BY <1>2, <2>1, <2>2
<1> QED
  BY <1>3, <1>4, <1>5, <1>6 DEF Drag!ParentRead, Drag!ChildrenCount

LEMMA DragWriteInv ==
    ASSUME DragInv, NEW r \in Request, Drag!SetParentUpdate(r) \/ Drag!ReorderWrite(r)
    PROVE  DragInv'
<1>1. FamilyShape
  BY DEF DragInv
<1>2. familyReq' = [q \in Request |-> IF q = r
                       THEN [pc |-> "idle", t |-> None, p |-> None, order |-> <<>>]
                       ELSE familyReq[q]]
  BY <1>1 DEF FamilyShape, Drag!SetParentUpdate, Drag!ReorderWrite, Drag!Finish, Drag!Idle
<1>3. CASE Drag!SetParentUpdate(r)
  <2> DEFINE t == familyReq[r].t
             p == familyReq[r].p
             place == Drag!NextPosition(p, t)
  <2>1. /\ family' = [family EXCEPT ![t].parent = p, ![t].position = place]
        /\ ~Drag!FamilyLocked(t) /\ p \in Task \cup {None}
    BY <1>1, <1>3 DEF Drag!SetParentUpdate, FamilyShape, RequestLike
  <2> HIDE DEF t, p, place
  <2>2. FamilyShape'
    <3>1. /\ family' = [s \in Task |-> family'[s]]
          /\ \A s \in Task : s # t => family'[s] = family[s]
      BY <1>1, <2>1 DEF FamilyShape
    <3>2. t \in Task => family'[t] = [family[t] EXCEPT !.parent = p, !.position = place]
      BY <1>1, <2>1 DEF FamilyShape
    <3>3. ASSUME NEW s \in Task
          PROVE  family'[s] \in [row: {"absent", "live", "deleted"}, parent: Task \cup {None},
                                 position: {family'[s].position}]
      <4>1. family[s] \in [row: {"absent", "live", "deleted"}, parent: Task \cup {None},
                           position: {family[s].position}]
        BY <1>1 DEF FamilyShape
      <4>2. CASE s # t
        BY <3>1, <4>1, <4>2
      <4>3. CASE s = t
        <5>1. family'[s] = [family[s] EXCEPT !.parent = p, !.position = place]
          BY <3>2, <4>3
        <5>2. family'[s] = [row |-> family[s].row, parent |-> p, position |-> place]
          BY <4>1, <5>1
        <5> QED
          BY <2>1, <4>1, <5>2
      <4> QED
        BY <4>2, <4>3
    <3>4. /\ familyReq' = [q \in Request |-> familyReq'[q]]
          /\ \A q \in Request : familyReq'[q] \in RequestLike(familyReq'[q].order)
      BY <1>1, <1>2 DEF FamilyShape, RequestLike
    <3> QED
      BY <3>1, <3>3, <3>4 DEF FamilyShape
  <2>3. \A s \in Task : Drag!FamilyLocked(s) => family'[s] = family[s]
    BY <1>1, <2>1 DEF FamilyShape
  <2> QED
    BY <1>2, <2>2, <2>3, DragKept
<1>4. CASE Drag!ReorderWrite(r)
  <2>1. family' = [t \in Task |-> family'[t]]
    BY <1>4 DEF Drag!ReorderWrite, Drag!Placed
  <2>2. \A t \in Task :
          /\ family'[t] \in [row: {family[t].row}, parent: {family[t].parent},
                             position: {family'[t].position}]
          /\ family'[t].row = family[t].row /\ family'[t].parent = family[t].parent
    <3> SUFFICES ASSUME NEW t \in Task
                 PROVE  family'[t] \in [row: {family[t].row}, parent: {family[t].parent},
                                       position: {family'[t].position}]
      OBVIOUS
    <3>1. family'[t] = family[t] \/ \E i : family'[t] = [family[t] EXCEPT !.position = i]
      BY <1>4 DEF Drag!ReorderWrite, Drag!Placed
    <3> QED
      BY <1>1, <3>1 DEF FamilyShape
  <2>3. FamilyShape'
    BY <1>1, <1>2, <2>1, <2>2 DEF FamilyShape, RequestLike
  <2> QED
    BY <1>2, <2>2, <2>3, DragKept
<1> QED
  BY <1>3, <1>4

LEMMA DragStepInv ==
    ASSUME DragInv, Drag!Next \/ UNCHANGED familyVars
    PROVE  DragInv'
<1>1. ASSUME NEW t \in Task, Drag!RestoreTask(t) \/ Drag!Promote(t)
      PROVE  FALSE
  BY <1>1 DEF Drag!RestoreTask, Drag!Promote
<1>2. CASE UNCHANGED familyVars
  <2>1. FamilyShape'
    BY <1>2 DEF familyVars, DragInv, FamilyShape
  <2> QED
    BY <1>2, <2>1, DragKept DEF familyVars
<1> QED
  BY <1>1, <1>2, DragTaskInv, DragReadInv, DragWriteInv DEF Drag!Next

(* The part "family" is Family, the part "drag" Drag, and both begin as Drag does. *)
LEMMA FamiliesKeep ==
    ASSUME NoneApart
    PROVE  WorkSpec => []((part = "family" => FamilyInv) /\ (part # "family" => DragInv))
<1> DEFINE Kept == (part = "family" => FamilyInv) /\ (part # "family" => DragInv)
<1>1. WorkInit => Kept
  BY FamilyInit DEF WorkInit
<1>2. ASSUME Kept, [WorkNext]_workVars
      PROVE  Kept'
  <2>1. part' = part
    BY <1>2 DEF WorkNext, workVars
  <2>2. CASE part = "family"
    <3>1. Family!Next \/ UNCHANGED familyVars
      BY <1>2, <2>2 DEF WorkNext, workVars
    <3> QED
      BY <1>2, <2>1, <2>2, <3>1, FamilyStepInv
  <2>3. CASE part # "family"
    <3>1. Drag!Next \/ UNCHANGED familyVars
      BY <1>2, <2>3 DEF WorkNext, workVars
    <3> QED
      BY <1>2, <2>1, <2>3, <3>1, DragStepInv
  <2> QED
    BY <2>2, <2>3
<1> QED
  BY <1>1, <1>2, PTL DEF WorkSpec

(* One request at a time, no tasks are each other's parents, whatever is created,
   deleted, restored and promoted (set_parent()); and a drag holds the family it was
   shown, however requests overlap (reorder_subtasks() in routes/task_detail.rs). *)
THEOREM FamiliesAlwaysHold == ASSUME NoneApart PROVE WorkSpec => []FamiliesHold
<1>1. FamilyInv => Family!NoFamilyCycle
  BY DEF FamilyInv
<1>2. DragInv => Drag!DraggedFamilyStays
  BY DEF DragInv
<1>3. (part = "family" => FamilyInv) /\ (part # "family" => DragInv) => FamiliesHold
  BY <1>1, <1>2 DEF FamiliesHold
<1> QED
  BY <1>3, FamiliesKeep, PTL

----------------------------------------------------------------------------
(* The conversation on a task *)

(* Between the read of a description and the last mention in the new one. *)
Editing(q) == q.pc = "edit" \/ (q.pc = "mentions" /\ q.about = None)

(* One handler announces a comment, and one edits the description at a time. *)
Announcers ==
    /\ \A r \in Slot :
         /\ talkReq[r].pc = "edit" => talkReq[r].about = None
         /\ talkReq[r].pc = "watchers" => talkReq[r].about # None
         /\ talkReq[r].pc = "idle" => talkReq[r].about = None
         /\ talkReq[r].about # None => comment[talkReq[r].about].state # "absent"
    /\ \A r, q \in Slot :
         /\ talkReq[r].about # None /\ talkReq[q].about = talkReq[r].about => r = q
         /\ Editing(talkReq[r]) /\ Editing(talkReq[q]) => r = q

(* A comment announced so far: nobody in the queue has heard of it, and everybody
   owed it who is not in the queue has, or is a watcher still to be read. *)
Announced(q) ==
    LET c == q.about IN
    /\ q.actor = comment[c].author /\ q.actor \notin q.owed
    /\ \A u \in q.queue : notice[c][u] = 0
    /\ q.pc = "mentions" =>
         /\ q.queue \subseteq comment[c].mentioned
         /\ q.owed \subseteq comment[c].mentioned \cup watching
         /\ \A u \in Colleague \ comment[c].mentioned : notice[c][u] = 0
         /\ \A u \in (q.owed \cap comment[c].mentioned) \ q.queue : notice[c][u] = 1
    /\ q.pc = "watchers" => \A u \in q.owed \ q.queue : notice[c][u] = 1

(* Whom the description does not mention has not heard of it; what an edit read of it
   stands until the edit has been announced. *)
Mentions ==
    /\ \A u \in Colleague \ desc : ping[u] = 0
    /\ \A u \in Colleague : ping[u] <= 1
    /\ \A r \in Slot :
         /\ talkReq[r].pc = "edit" => talkReq[r].old = desc
         /\ talkReq[r].pc = "mentions" /\ talkReq[r].about = None =>
              /\ talkReq[r].queue \subseteq desc
              /\ \A u \in talkReq[r].queue : ping[u] = 0

Heard ==
    \A c \in Comment, u \in Colleague :
        /\ notice[c][u] <= 1
        /\ comment[c].state = "absent" \/ u = comment[c].author => notice[c][u] = 0

TalkInv ==
    /\ Talk!TypeOK /\ Announcers /\ Mentions /\ Heard
    /\ \A r \in Slot : talkReq[r].about # None => Announced(talkReq[r])

LEMMA TalkRows ==
    ASSUME Talk!TypeOK, NEW r \in Slot
    PROVE  /\ talkReq[r] \in Talk!RequestRecord
           /\ talkReq[r].pc \in {"idle", "edit", "mentions", "watchers"}
           /\ talkReq[r].actor \in Colleague \cup {None} /\ talkReq[r].about \in Comment \cup {None}
           /\ talkReq[r].old \in SUBSET Colleague /\ talkReq[r].queue \in SUBSET Colleague
           /\ talkReq[r].owed \in SUBSET Colleague
           /\ \A c \in Comment : /\ comment[c].state \in {"absent", "live", "deleted"}
                                 /\ comment[c].author \in Colleague \cup {None}
                                 /\ comment[c].mentioned \in SUBSET Colleague
  BY DEF Talk!TypeOK, Talk!RequestRecord, Talk!Person, Talk!CommentRow

LEMMA TalkIdle ==
    /\ Talk!Idle \in Talk!RequestRecord /\ Talk!Idle.pc = "idle" /\ Talk!Idle.about = None
    /\ Talk!NoComment \in Talk!CommentRow /\ Talk!NoComment.state = "absent"
    /\ Talk!NoComment.mentioned = {}
  BY DEF Talk!Idle, Talk!RequestRecord, Talk!Person, Talk!NoComment, Talk!CommentRow

LEMMA TalkInitInv == Talk!Init => TalkInv
<1> SUFFICES ASSUME Talk!Init PROVE TalkInv
  OBVIOUS
<1>1. Talk!TypeOK
  BY TalkIdle DEF Talk!Init, Talk!TypeOK, Talk!Person
<1>2. /\ \A r \in Slot : talkReq[r].pc = "idle" /\ talkReq[r].about = None
      /\ \A c \in Comment, u \in Colleague : notice[c][u] = 0
      /\ \A u \in Colleague : ping[u] = 0
  BY TalkIdle DEF Talk!Init
<1> QED
  BY <1>1, <1>2 DEF TalkInv, Announcers, Editing, Mentions, Heard

(* A step of one request that writes no comment and no description. *)
LEMMA TalkRequestInv ==
    ASSUME TalkInv, NEW r \in Slot, NEW q \in Talk!RequestRecord,
           talkReq' = [talkReq EXCEPT ![r] = q], UNCHANGED <<comment, desc, notice, ping>>,
           assignee' \in Colleague \cup {None}, watching' \in SUBSET Colleague, watching \subseteq watching',
           q.about # None => /\ q.about = talkReq[r].about /\ q.pc \in {"mentions", "watchers"}
                             /\ Announced(q),
           q.pc = "edit" => /\ q.old = desc /\ q.about = None
                            /\ \A s \in Slot \ {r} : ~Editing(talkReq[s]),
           q.pc = "watchers" => q.about # None,
           q.pc = "mentions" /\ q.about = None =>
             /\ Editing(talkReq[r]) /\ q.queue \subseteq desc
             /\ \A u \in q.queue : ping[u] = 0
    PROVE  TalkInv'
<1>1. /\ Talk!TypeOK /\ Announcers /\ Mentions /\ Heard /\ talkReq \in [Slot -> Talk!RequestRecord]
      /\ \A s \in Slot : talkReq'[s] = IF s = r THEN q ELSE talkReq[s]
  BY DEF TalkInv, Talk!TypeOK
<1>2. Talk!TypeOK'
  BY <1>1 DEF Talk!TypeOK, Talk!Person
<1>3. q.pc \in {"idle", "edit", "mentions", "watchers"}
  BY DEF Talk!RequestRecord
<1>4. Announcers'
  BY <1>1, <1>3 DEF Announcers, Editing
<1>5. Mentions' /\ Heard'
  BY <1>1 DEF Mentions, Heard
<1>6. \A s \in Slot : (talkReq[s].about # None => Announced(talkReq[s]))'
  BY <1>1 DEF TalkInv, Announced
<1> QED
  BY <1>2, <1>4, <1>5, <1>6 DEF TalkInv

(* The steps that notify nobody: a mention or a watcher that is skipped, the watchers
   read, the end of a handler, and the read and the assignment of an edit. *)
LEMMA TalkQuietStepInv ==
    ASSUME NoneApart, TalkInv, NEW r \in Slot,
           \/ \E u \in Colleague : Talk!NotifyFails(r, u) \/ Talk!EditRead(r, u)
           \/ Talk!ReadWatchers(r) \/ Talk!FanOutEnds(r)
           \/ \E who \in Talk!Person : Talk!EditAssignee(r, who)
    PROVE  TalkInv'
<1> DEFINE q == talkReq[r]
<1>1. /\ Talk!TypeOK /\ Announcers /\ Mentions /\ (q.about # None => Announced(q))
      /\ talkReq \in [Slot -> Talk!RequestRecord] /\ assignee \in Colleague \cup {None}
      /\ watching \in SUBSET Colleague /\ desc \in SUBSET Colleague /\ q \in Talk!RequestRecord
  BY DEF TalkInv, Talk!TypeOK, Talk!Person
<1>2. ASSUME NEW u \in Colleague, Talk!NotifyFails(r, u)
      PROVE  TalkInv'
  <2> DEFINE n == [q EXCEPT !.queue = @ \ {u}, !.owed = @ \ {u}]
  <2>1. /\ talkReq' = [talkReq EXCEPT ![r] = n] /\ q.pc \in {"mentions", "watchers"}
        /\ UNCHANGED <<comment, watching, assignee, desc, notice, ping>>
    BY <1>2 DEF Talk!NotifyFails
  <2>2. /\ n \in Talk!RequestRecord /\ n.pc = q.pc /\ n.about = q.about /\ n.actor = q.actor
        /\ n.queue = q.queue \ {u} /\ n.owed = q.owed \ {u}
    BY <1>1 DEF Talk!RequestRecord
  <2> HIDE DEF n
  <2>3. n.about # None => Announced(n)
    BY <1>1, <2>1, <2>2 DEF Announced
  <2> QED
    BY <1>1, <2>1, <2>2, <2>3, TalkRequestInv DEF Announcers, Editing, Mentions
<1>3. CASE Talk!ReadWatchers(r)
  <2> DEFINE n == [q EXCEPT !.pc = "watchers", !.queue = Talk!NotMentioned(q)]
  <2>1. /\ talkReq' = [talkReq EXCEPT ![r] = n] /\ q.pc = "mentions" /\ q.about # None
        /\ q.queue = {} /\ UNCHANGED <<comment, watching, assignee, desc, notice, ping>>
    BY <1>3 DEF Talk!ReadWatchers
  <2>2. /\ n \in Talk!RequestRecord /\ n.pc = "watchers" /\ n.about = q.about
        /\ n.actor = q.actor /\ n.owed = q.owed
        /\ n.queue = watching \ comment[q.about].mentioned
    BY <1>1 DEF Talk!RequestRecord, Talk!NotMentioned
  <2> HIDE DEF n
  <2>3. Announced(n)
    BY <1>1, <2>1, <2>2, TalkRows DEF Announced
  <2> QED
    BY <1>1, <2>1, <2>2, <2>3, TalkRequestInv
<1>4. CASE Talk!FanOutEnds(r)
  BY <1>1, <1>4, TalkIdle, TalkRequestInv DEF Talk!FanOutEnds
<1>5. ASSUME NEW u \in Colleague, Talk!EditRead(r, u)
      PROVE  TalkInv'
  <2> DEFINE n == [Talk!Idle EXCEPT !.pc = "edit", !.actor = u, !.old = desc]
  <2>1. /\ talkReq' = [talkReq EXCEPT ![r] = n]
        /\ UNCHANGED <<comment, watching, assignee, desc, notice, ping>>
    BY <1>5 DEF Talk!EditRead
  <2>2. n \in Talk!RequestRecord /\ n.pc = "edit" /\ n.about = None /\ n.old = desc
    BY <1>1 DEF Talk!RequestRecord, Talk!Idle, Talk!Person
  <2>3. ASSUME NEW s \in Slot
        PROVE  ~Editing(talkReq[s])
    BY <1>5 DEF Talk!EditRead, Editing
  <2> HIDE DEF n
  <2> QED
    BY <1>1, <2>1, <2>2, <2>3, TalkRequestInv
<1>6. ASSUME NEW who \in Talk!Person, Talk!EditAssignee(r, who)
      PROVE  TalkInv'
  <2>1. /\ talkReq' = [talkReq EXCEPT ![r] = Talk!Idle] /\ assignee' \in Colleague \cup {None}
        /\ watching' \in SUBSET Colleague /\ watching \subseteq watching'
        /\ UNCHANGED <<comment, desc, notice, ping>>
    BY <1>1, <1>6 DEF Talk!EditAssignee, Talk!Person
  <2> QED
    BY <1>1, <2>1, TalkIdle, TalkRequestInv
<1> QED
  BY <1>2, <1>3, <1>4, <1>5, <1>6

(* A notification: the user was in the queue, so has not heard. *)
LEMMA NotifyInv ==
    ASSUME NoneApart, TalkInv, NEW r \in Slot, NEW u \in Colleague, Talk!NotifyOne(r, u)
    PROVE  TalkInv'
<1> DEFINE q == talkReq[r]
           n == [q EXCEPT !.queue = @ \ {u}]
<1>1. /\ Talk!TypeOK /\ Announcers /\ Mentions /\ Heard
      /\ \A s \in Slot : talkReq[s].about # None => Announced(talkReq[s])
      /\ talkReq \in [Slot -> Talk!RequestRecord] /\ q \in Talk!RequestRecord
      /\ notice \in [Comment -> [Colleague -> 0 .. 2]] /\ ping \in [Colleague -> 0 .. 2]
  BY DEF TalkInv, Talk!TypeOK
<1>2. /\ talkReq' = [talkReq EXCEPT ![r] = n] /\ q.pc \in {"mentions", "watchers"} /\ u \in q.queue
      /\ UNCHANGED <<comment, watching, assignee, desc>>
  BY DEF Talk!NotifyOne
<1>3. /\ n \in Talk!RequestRecord /\ n.pc = q.pc /\ n.about = q.about /\ n.actor = q.actor
      /\ n.queue = q.queue \ {u} /\ n.owed = q.owed
  BY <1>1 DEF Talk!RequestRecord
<1>4. /\ notice' = IF q.about # None /\ u # q.actor
                     THEN [notice EXCEPT ![q.about][u] = @ + 1] ELSE notice
      /\ ping' = IF q.about = None /\ u # q.actor THEN [ping EXCEPT ![u] = @ + 1] ELSE ping
  BY DEF Talk!NotifyOne, Talk!Deliver
<1> HIDE DEF q, n
<1>5. \A s \in Slot : talkReq'[s] = IF s = r THEN n ELSE talkReq[s]
  BY <1>1, <1>2
<1>6. Announcers'
  BY <1>1, <1>2, <1>3, <1>5 DEF q, Announcers, Editing
<1>7. CASE q.about # None /\ u # q.actor
  <2>1. /\ q.about \in Comment /\ notice[q.about][u] = 0 /\ ping' = ping
        /\ Announced(q)
    BY <1>1, <1>2, <1>4, <1>7, TalkRows DEF q, Announced
  <2>2. \A c \in Comment, v \in Colleague :
           notice'[c][v] = IF c = q.about /\ v = u THEN 1 ELSE notice[c][v]
    BY <1>1, <1>4, <1>7, <2>1
  <2>3. Talk!TypeOK'
    <3>1. notice' \in [Comment -> [Colleague -> 0 .. 2]]
      BY <1>1, <1>4, <1>7, <2>1
    <3> QED
      BY <1>1, <1>2, <1>3, <2>1, <3>1 DEF Talk!TypeOK
  <2>4. Mentions'
    BY <1>1, <1>2, <1>3, <1>5, <1>7, <2>1 DEF Mentions
  <2>5. Heard'
    BY <1>1, <1>2, <1>7, <2>1, <2>2, TalkRows DEF q, Heard, Announcers, Announced
  <2>6. Announced(talkReq[r])'
    <3>1. /\ talkReq'[r] = n /\ n.about = q.about /\ q.about \in Comment
          /\ comment' = comment /\ watching' = watching
          /\ q.queue \subseteq Colleague /\ q.owed \subseteq Colleague
      BY <1>2, <1>3, <1>5, <2>1, TalkRows, <1>1 DEF q, Talk!RequestRecord
    <3>2. \A v \in Colleague : notice'[q.about][v] = IF v = u THEN 1 ELSE notice[q.about][v]
      BY <2>2, <3>1
    <3>3. \A v \in n.queue : notice'[n.about][v] = 0
      BY <1>3, <2>1, <3>1, <3>2 DEF Announced
    <3>4. n.pc = "mentions" => \A v \in Colleague \ comment[q.about].mentioned :
                                  notice'[q.about][v] = 0
      BY <1>2, <1>3, <2>1, <3>2 DEF Announced
    <3>5. n.pc = "mentions" => \A v \in (n.owed \cap comment[q.about].mentioned) \ n.queue :
                                  notice'[q.about][v] = 1
      BY <1>3, <2>1, <3>1, <3>2 DEF Announced
    <3>6. n.pc = "watchers" => \A v \in n.owed \ n.queue : notice'[q.about][v] = 1
      BY <1>3, <2>1, <3>1, <3>2 DEF Announced
    <3> QED
      BY <1>3, <2>1, <3>1, <3>3, <3>4, <3>5, <3>6 DEF Announced
  <2>7. ASSUME NEW s \in Slot \ {r}, talkReq[s].about # None
        PROVE  Announced(talkReq[s])'
    <3>1. talkReq[s].about # q.about /\ talkReq[s].about \in Comment /\ Announced(talkReq[s])
      BY <1>1, <1>7, <2>7, TalkRows DEF q, Announcers
    <3>2. \A v \in Colleague : notice'[talkReq[s].about][v] = notice[talkReq[s].about][v]
      BY <2>2, <3>1
    <3>3. talkReq[s].queue \in SUBSET Colleague /\ talkReq[s].owed \in SUBSET Colleague
          /\ talkReq'[s] = talkReq[s]
      BY <1>1, <1>5, TalkRows
    <3> QED
      BY <1>2, <3>1, <3>2, <3>3 DEF Announced
  <2> QED
    BY <1>5, <1>6, <2>3, <2>4, <2>5, <2>6, <2>7 DEF TalkInv
<1>8. CASE q.about = None /\ u # q.actor
  <2>1. /\ notice' = notice /\ q.pc = "mentions" /\ ping[u] = 0 /\ u \in desc
    BY <1>1, <1>2, <1>4, <1>8 DEF q, Announcers, Mentions
  <2>2. \A v \in Colleague : ping'[v] = IF v = u THEN 1 ELSE ping[v]
    BY <1>1, <1>4, <1>8, <2>1
  <2>3. Talk!TypeOK'
    <3>1. ping' \in [Colleague -> 0 .. 2]
      BY <1>1, <1>4, <1>8, <2>1
    <3> QED
      BY <1>1, <1>2, <1>3, <2>1, <3>1 DEF Talk!TypeOK
  <2>4. Mentions'
    <3>1. /\ \A v \in Colleague \ desc : ping'[v] = 0
          /\ \A v \in Colleague : ping'[v] <= 1
      BY <1>1, <2>1, <2>2 DEF Mentions
    <3>2. \A s \in Slot \ {r} : ~Editing(talkReq[s])
      BY <1>1, <1>8, <2>1 DEF q, Announcers, Editing
    <3>3. n.queue \subseteq desc /\ \A v \in n.queue : ping'[v] = 0
      BY <1>1, <1>3, <1>8, <2>1, <2>2, TalkRows DEF q, Mentions
    <3> QED
      BY <1>2, <1>3, <1>5, <2>1, <3>1, <3>2, <3>3 DEF Mentions, Editing
  <2>5. Heard'
    BY <1>1, <1>2, <2>1 DEF Heard
  <2>6. \A s \in Slot : (talkReq[s].about # None => Announced(talkReq[s]))'
    BY <1>1, <1>2, <1>3, <1>5, <1>8, <2>1 DEF Announced
  <2> QED
    BY <1>6, <2>3, <2>4, <2>5, <2>6 DEF TalkInv
<1>9. CASE u = q.actor
  <2>1. UNCHANGED <<comment, watching, assignee, desc, notice, ping>>
    BY <1>2, <1>4, <1>9
  <2>2. n.about # None => Announced(n)
    BY <1>1, <1>3, <1>9 DEF q, Announced
  <2>3. n.pc = "mentions" /\ n.about = None =>
            /\ Editing(talkReq[r]) /\ n.queue \subseteq desc
            /\ \A v \in n.queue : ping[v] = 0
    BY <1>1, <1>3 DEF q, Editing, Mentions
  <2>4. assignee' \in Colleague \cup {None} /\ watching' \in SUBSET Colleague
    BY <1>1, <2>1 DEF Talk!TypeOK, Talk!Person
  <2> QED
    BY <1>1, <1>2, <1>3, <2>1, <2>2, <2>3, <2>4, TalkRequestInv DEF q, Announcers
<1> QED
  BY <1>7, <1>8, <1>9

(* A comment is written: nobody has heard of it, and nobody else announces it. *)
LEMMA CreateCommentInv ==
    ASSUME NoneApart, TalkInv, NEW r \in Slot, NEW c \in Comment, NEW author \in Colleague,
           NEW mentioned \in SUBSET Colleague, Talk!CreateComment(r, c, author, mentioned)
    PROVE  TalkInv'
<1> DEFINE n == [Talk!Idle EXCEPT !.pc = "mentions", !.actor = author, !.about = c,
                     !.queue = mentioned, !.owed = (mentioned \cup watching) \ {author}]
           row == [state |-> "live", author |-> author, mentioned |-> mentioned]
<1>1. /\ Talk!TypeOK /\ Announcers /\ Mentions /\ Heard
      /\ \A s \in Slot : talkReq[s].about # None => Announced(talkReq[s])
      /\ talkReq \in [Slot -> Talk!RequestRecord] /\ watching \in SUBSET Colleague
      /\ comment \in [Comment -> Talk!CommentRow] /\ c # None
  BY DEF TalkInv, Talk!TypeOK, NoneApart
<1>2. /\ talkReq' = [talkReq EXCEPT ![r] = n] /\ comment' = [comment EXCEPT ![c] = row]
      /\ talkReq[r].pc = "idle" /\ comment[c].state = "absent"
      /\ UNCHANGED <<watching, assignee, desc, notice, ping>>
  BY DEF Talk!CreateComment
<1>3. /\ n \in Talk!RequestRecord /\ n.pc = "mentions" /\ n.actor = author /\ n.about = c
      /\ n.queue = mentioned /\ n.owed = (mentioned \cup watching) \ {author}
  BY <1>1 DEF Talk!RequestRecord, Talk!Idle, Talk!Person
<1>4. /\ row \in Talk!CommentRow /\ row.state = "live" /\ row.author = author
      /\ row.mentioned = mentioned
  BY DEF Talk!CommentRow, Talk!Person
<1> HIDE DEF n, row
<1>5. /\ \A s \in Slot : talkReq'[s] = IF s = r THEN n ELSE talkReq[s]
      /\ \A d \in Comment : comment'[d] = IF d = c THEN row ELSE comment[d]
  BY <1>1, <1>2
<1>6. \A u \in Colleague : notice[c][u] = 0
  BY <1>1, <1>2 DEF Heard
<1>7. Talk!TypeOK'
  BY <1>1, <1>2, <1>3, <1>4 DEF Talk!TypeOK
<1>8. \A s \in Slot \ {r} : talkReq[s].about # c
  BY <1>1, <1>2 DEF Announcers
<1>9. Announcers'
  BY <1>1, <1>2, <1>3, <1>4, <1>5, <1>8, TalkRows DEF Announcers, Editing
<1>10. Mentions'
  BY <1>1, <1>2, <1>3, <1>5 DEF Mentions
<1>11. Heard'
  BY <1>1, <1>2, <1>4, <1>5, <1>6 DEF Heard
<1>12. Announced(talkReq[r])'
  BY <1>2, <1>3, <1>4, <1>5, <1>6 DEF Announced
<1>13. ASSUME NEW s \in Slot \ {r}, talkReq[s].about # None
       PROVE  Announced(talkReq[s])'
  <2>1. talkReq[s].about \in Comment /\ Announced(talkReq[s]) /\ talkReq'[s] = talkReq[s]
    BY <1>1, <1>5, <1>13, TalkRows
  <2>2. comment'[talkReq[s].about] = comment[talkReq[s].about]
    BY <1>5, <1>8, <2>1
  <2> QED
    BY <1>2, <2>1, <2>2 DEF Announced
<1> QED
  BY <1>5, <1>7, <1>9, <1>10, <1>11, <1>12, <1>13 DEF TalkInv

(* Watchers come and go, and a comment is deleted. *)
LEMMA AudienceInv ==
    ASSUME NoneApart, TalkInv,
           \/ \E u \in Colleague : Talk!Watch(u) \/ Talk!Unwatch(u)
           \/ \E c \in Comment : Talk!DeleteComment(c)
    PROVE  TalkInv'
<1>1. /\ Talk!TypeOK /\ Announcers /\ Mentions /\ Heard
      /\ \A s \in Slot : talkReq[s].about # None => Announced(talkReq[s])
      /\ talkReq \in [Slot -> Talk!RequestRecord] /\ watching \in SUBSET Colleague
      /\ comment \in [Comment -> Talk!CommentRow]
  BY DEF TalkInv, Talk!TypeOK
<1>2. ASSUME NEW u \in Colleague, Talk!Watch(u)
      PROVE  TalkInv'
  <2>1. /\ watching' = watching \cup {u}
        /\ UNCHANGED <<comment, assignee, desc, notice, ping, talkReq>>
    BY <1>2 DEF Talk!Watch
  <2>2. Talk!TypeOK' /\ Announcers' /\ Mentions' /\ Heard'
    BY <1>1, <2>1 DEF Talk!TypeOK, Announcers, Mentions, Heard
  <2>3. \A s \in Slot : (talkReq[s].about # None => Announced(talkReq[s]))'
    BY <1>1, <2>1 DEF Announced
  <2> QED
    BY <2>2, <2>3 DEF TalkInv
<1>3. ASSUME NEW u \in Colleague, Talk!Unwatch(u)
      PROVE  TalkInv'
  <2> DEFINE Less(q) == [q EXCEPT !.owed = @ \ {u}]
  <2>1. /\ watching' = watching \ {u} /\ UNCHANGED <<comment, assignee, desc, notice, ping>>
        /\ talkReq' = [s \in Slot |-> IF /\ talkReq[s].about # None
                                         /\ u \notin comment[talkReq[s].about].mentioned
                                       THEN Less(talkReq[s]) ELSE talkReq[s]]
    BY <1>3 DEF Talk!Unwatch
  <2>2. ASSUME NEW s \in Slot
        PROVE  /\ Less(talkReq[s]) \in Talk!RequestRecord
               /\ Less(talkReq[s]).pc = talkReq[s].pc
               /\ Less(talkReq[s]).about = talkReq[s].about
               /\ Less(talkReq[s]).actor = talkReq[s].actor
               /\ Less(talkReq[s]).old = talkReq[s].old
               /\ Less(talkReq[s]).queue = talkReq[s].queue
               /\ Less(talkReq[s]).owed = talkReq[s].owed \ {u}
    BY <1>1 DEF Talk!RequestRecord
  <2> HIDE DEF Less
  <2>3. \A s \in Slot :
          /\ talkReq'[s] \in Talk!RequestRecord /\ talkReq'[s].pc = talkReq[s].pc
          /\ talkReq'[s].about = talkReq[s].about /\ talkReq'[s].actor = talkReq[s].actor
          /\ talkReq'[s].old = talkReq[s].old /\ talkReq'[s].queue = talkReq[s].queue
          /\ talkReq[s].about # None =>
               talkReq'[s].owed = IF u \in comment[talkReq[s].about].mentioned
                                  THEN talkReq[s].owed ELSE talkReq[s].owed \ {u}
    BY <1>1, <2>1, <2>2
  <2>4. Talk!TypeOK'
    <3>1. talkReq' \in [Slot -> Talk!RequestRecord]
      BY <2>1, <2>3
    <3>2. watching' \in SUBSET Colleague
      BY <1>1, <2>1
    <3> QED
      BY <1>1, <2>1, <3>1, <3>2 DEF Talk!TypeOK
  <2>5. Announcers'
    <3>1. /\ comment' = comment
          /\ \A s \in Slot : /\ talkReq'[s].pc = talkReq[s].pc
                             /\ talkReq'[s].about = talkReq[s].about
      BY <2>1, <2>3
    <3> QED
      BY <1>1, <3>1 DEF Announcers, Editing
  <2>6. Mentions' /\ Heard'
    <3>1. desc' = desc /\ ping' = ping
      BY <2>1
    <3>2. \A s \in Slot : /\ talkReq'[s].pc = talkReq[s].pc
                           /\ talkReq'[s].about = talkReq[s].about
                           /\ talkReq'[s].old = talkReq[s].old
                           /\ talkReq'[s].queue = talkReq[s].queue
      BY <2>3
    <3>3. Mentions'
      BY <1>1, <3>1, <3>2 DEF Mentions
    <3>4. Heard'
      BY <1>1, <2>1 DEF Heard
    <3> QED
      BY <3>3, <3>4
  <2>7. ASSUME NEW s \in Slot, talkReq[s].about # None
        PROVE  Announced(talkReq[s])'
    <3> DEFINE c == talkReq[s].about
    <3>1. /\ Announced(talkReq[s]) /\ c \in Comment
          /\ talkReq[s].owed \in SUBSET Colleague /\ comment[c].mentioned \in SUBSET Colleague
      BY <1>1, <2>7, TalkRows
    <3>2. talkReq'[s].owed \subseteq talkReq[s].owed
          /\ (u \in talkReq'[s].owed => u \in comment[c].mentioned)
      BY <2>3, <2>7, <3>1
    <3>3. talkReq'[s].pc = "mentions" =>
            talkReq'[s].owed \subseteq comment[c].mentioned \cup watching'
      BY <2>1, <2>3, <3>1, <3>2 DEF Announced
    <3>4. talkReq'[s].pc = "mentions" =>
            \A v \in (talkReq'[s].owed \cap comment[c].mentioned) \ talkReq[s].queue :
               notice[c][v] = 1
      BY <2>3, <3>1, <3>2 DEF Announced
    <3>5. talkReq'[s].pc = "watchers" =>
            \A v \in talkReq'[s].owed \ talkReq[s].queue : notice[c][v] = 1
      BY <2>3, <3>1, <3>2 DEF Announced
    <3>6. talkReq'[s].actor \notin talkReq'[s].owed
      BY <2>3, <3>1, <3>2 DEF Announced
    <3>7. /\ comment' = comment /\ notice' = notice
          /\ talkReq[s].about = c /\ talkReq'[s].about = c
          /\ talkReq'[s].actor = talkReq[s].actor
          /\ talkReq'[s].queue = talkReq[s].queue /\ talkReq'[s].pc = talkReq[s].pc
      BY <2>1, <2>3
    <3> HIDE DEF c
    <3> QED
      BY <3>1, <3>3, <3>4, <3>5, <3>6, <3>7 DEF Announced
  <2> QED
    BY <2>3, <2>4, <2>5, <2>6, <2>7 DEF TalkInv
<1>4. ASSUME NEW c \in Comment, Talk!DeleteComment(c)
      PROVE  TalkInv'
  <2>1. /\ comment' = [comment EXCEPT ![c].state = "deleted"] /\ comment[c].state = "live"
        /\ UNCHANGED <<watching, assignee, desc, notice, ping, talkReq>>
    BY <1>4 DEF Talk!DeleteComment, Talk!Live
  <2>2. /\ comment' \in [Comment -> Talk!CommentRow]
        /\ \A d \in Comment :
             /\ comment'[d].state = "absent" <=> comment[d].state = "absent"
             /\ comment'[d].author = comment[d].author
             /\ comment'[d].mentioned = comment[d].mentioned
    BY <1>1, <2>1 DEF Talk!CommentRow
  <2>3. Talk!TypeOK' /\ Announcers' /\ Mentions' /\ Heard'
    BY <1>1, <2>1, <2>2, TalkRows DEF Talk!TypeOK, Announcers, Mentions, Heard
  <2>4. \A s \in Slot : (talkReq[s].about # None => Announced(talkReq[s]))'
    BY <1>1, <2>1, <2>2, TalkRows DEF Announced
  <2> QED
    BY <2>3, <2>4 DEF TalkInv
<1> QED
  BY <1>2, <1>3, <1>4

(* A new description: whom it mentions and the old one did not has not heard of it. *)
LEMMA EditDescriptionInv ==
    ASSUME NoneApart, TalkInv, NEW r \in Slot, NEW new \in SUBSET Colleague,
           Talk!EditDescription(r, new)
    PROVE  TalkInv'
<1> DEFINE q == talkReq[r]
           n == [q EXCEPT !.pc = "mentions", !.queue = Talk!NewMentions(q.old, new)]
<1>1. /\ Talk!TypeOK /\ Announcers /\ Mentions /\ Heard
      /\ \A s \in Slot : talkReq[s].about # None => Announced(talkReq[s])
      /\ talkReq \in [Slot -> Talk!RequestRecord] /\ q \in Talk!RequestRecord
      /\ ping \in [Colleague -> 0 .. 2] /\ desc \in SUBSET Colleague
  BY DEF TalkInv, Talk!TypeOK
<1>2. /\ talkReq' = [talkReq EXCEPT ![r] = n] /\ q.pc = "edit" /\ desc' = new
      /\ ping' = [u \in Colleague |-> IF u \in new THEN ping[u] ELSE 0]
      /\ UNCHANGED <<comment, watching, assignee, notice>>
  BY DEF Talk!EditDescription
<1>3. q.about = None /\ q.old = desc
  BY <1>1, <1>2 DEF Announcers, Mentions
<1>4. /\ n \in Talk!RequestRecord /\ n.pc = "mentions" /\ n.about = None /\ n.queue = new \ desc
  BY <1>1, <1>3 DEF Talk!RequestRecord, Talk!NewMentions
<1> HIDE DEF q, n
<1>5. \A s \in Slot : talkReq'[s] = IF s = r THEN n ELSE talkReq[s]
  BY <1>1, <1>2
<1>6. Talk!TypeOK'
  <2>1. ping' \in [Colleague -> 0 .. 2]
    BY <1>1, <1>2
  <2> QED
    BY <1>1, <1>2, <1>4, <2>1 DEF Talk!TypeOK
<1>7. Announcers'
  BY <1>1, <1>2, <1>3, <1>4, <1>5 DEF q, Announcers, Editing
<1>8. Mentions'
  <2>1. /\ \A u \in Colleague \ new : ping'[u] = 0
        /\ \A u \in Colleague : ping'[u] <= 1
        /\ \A u \in new \ desc : ping'[u] = 0
    BY <1>1, <1>2 DEF Mentions
  <2>2. \A s \in Slot \ {r} : ~Editing(talkReq[s])
    BY <1>1, <1>2 DEF q, Announcers, Editing
  <2> QED
    BY <1>2, <1>4, <1>5, <2>1, <2>2 DEF Mentions, Editing
<1>9. Heard'
  BY <1>1, <1>2 DEF Heard
<1>10. \A s \in Slot : (talkReq[s].about # None => Announced(talkReq[s]))'
  BY <1>1, <1>2, <1>4, <1>5 DEF Announced
<1> QED
  BY <1>6, <1>7, <1>8, <1>9, <1>10 DEF TalkInv

LEMMA TalkKeeps == ASSUME NoneApart PROVE WorkSpec => []TalkInv
<1>1. WorkInit => TalkInv
  BY TalkInitInv DEF WorkInit
<1>2. ASSUME TalkInv, [WorkNext]_workVars
      PROVE  TalkInv'
  <2>1. Talk!Next \/ UNCHANGED talkVars
    BY <1>2 DEF WorkNext, workVars
  <2>2. CASE UNCHANGED talkVars
    BY <1>2, <2>2
       DEF talkVars, TalkInv, Talk!TypeOK, Announcers, Mentions, Heard, Announced
  <2>3. CASE Talk!Next
    BY <1>2, <2>3, TalkQuietStepInv, NotifyInv, CreateCommentInv, AudienceInv,
       EditDescriptionInv
       DEF Talk!Next
  <2> QED
    BY <2>1, <2>2, <2>3
<1> QED
  BY <1>1, <1>2, PTL DEF WorkSpec

(* Nobody hears of a comment twice, its author never, and whoever is owed it when the
   watchers have been read has heard or is in line; a description saved again pings
   nobody it mentioned before (create_comment() in routes/task_detail.rs, edit_task()
   in routes/tasks.rs). *)
THEOREM EverybodyHearsOnce == ASSUME NoneApart PROVE WorkSpec => []EachHearsOnce
<1>1. ASSUME TalkInv
      PROVE  Talk!EachHearsOnce
  <2>1. \A r \in Slot : talkReq[r].pc = "watchers" =>
            \A u \in talkReq[r].owed \ talkReq[r].queue : notice[talkReq[r].about][u] = 1
    BY <1>1 DEF TalkInv, Announcers, Announced
  <2> QED
    BY <1>1, <2>1 DEF TalkInv, Heard, Mentions, Talk!EachHearsOnce
<1>2. TalkInv => EachHearsOnce
  BY <1>1 DEF EachHearsOnce
<1> QED
  BY <1>2, TalkKeeps, PTL

----------------------------------------------------------------------------
(* Recurring templates *)

(* A scan can count the templates that are due. *)
Countable == IsFiniteSet(Template)

TemplateShape ==
    /\ clock \in Nat
    /\ template = [t \in Template |-> template[t]]
    /\ \A t \in Template :
         /\ template[t] \in [row: {"absent", "live"}, project: {template[t].project},
                             recurrence: {"none", "daily", "weekly"}, next: Nat \cup {None}]
         /\ template[t].row = "live" => template[t].project \in Project
    /\ spawner \in [pc: {"idle", "spawn", "advance"}, due: Seq(Templates!Due), at: Nat]
    /\ last \in [Template -> Nat \cup {None}]

(* The run has made the task of t and is about to write when the next is due. *)
Made(t) == spawner.pc = "advance" /\ t = spawner.due[1].t

(* The shortest interval has passed since the last task of t, or a stop lost its UPDATE. *)
Rested(t, time) == last[t] # None /\ t \notin torn => time >= last[t] + 1

(* The rows a run has read and not handled yet: each once, and each rested. *)
QueueShape ==
    /\ spawner.pc # "idle" => spawner.due # <<>>
    /\ spawner.at <= clock
    /\ \A i \in 1 .. Len(spawner.due) : spawner.due[i].recurrence # "none"
    /\ \A i, j \in 1 .. Len(spawner.due) : spawner.due[i].t = spawner.due[j].t => i = j

Rests ==
    /\ \A t \in Template : last[t] # None => last[t] <= clock
    /\ spawner.pc = "advance" => last[spawner.due[1].t] \in {spawner.at, None}
    /\ \A i \in 1 .. Len(spawner.due) :
         spawner.pc # "idle" => Made(spawner.due[i].t) \/ Rested(spawner.due[i].t, spawner.at)
    /\ \A t \in Template :
         template[t].row = "live" /\ template[t].next # None =>
           Made(t) \/ Rested(t, template[t].next)

TemplateInv == TemplateShape /\ QueueShape /\ Rests

LEMMA Recurrences ==
    /\ Templates!Recurrence = {"none", "daily", "weekly"}
    /\ Templates!Due = [t: Template, recurrence: {"none", "daily", "weekly"}, project: Project]
    /\ \A from \in Nat :
         /\ Templates!NextRun("none", from) = None
         /\ Templates!NextRun("daily", from) = from + 1
         /\ Templates!NextRun("weekly", from) = from + 2
<1>1. /\ DOMAIN [daily |-> 1, weekly |-> 2] = {"daily", "weekly"}
      /\ [daily |-> 1, weekly |-> 2]["daily"] = 1 /\ [daily |-> 1, weekly |-> 2]["weekly"] = 2
  OBVIOUS
<1> QED
  BY <1>1 DEF Templates!Recurrence, Templates!Due, Templates!NextRun

LEMMA NextIsLater ==
    ASSUME NEW recurrence \in {"none", "daily", "weekly"}, NEW from \in Nat
    PROVE  /\ Templates!NextRun(recurrence, from) \in Nat \cup {None}
           /\ recurrence = "none" => Templates!NextRun(recurrence, from) = None
           /\ recurrence # "none" => /\ Templates!NextRun(recurrence, from) \in Nat
                                     /\ Templates!NextRun(recurrence, from) >= from + 1
<1>1. CASE recurrence = "none"
  BY <1>1, Recurrences
<1>2. CASE recurrence = "daily"
  BY <1>2, Recurrences
<1>3. CASE recurrence = "weekly"
  BY <1>3, Recurrences
<1> QED
  BY <1>1, <1>2, <1>3

LEMMA QueueRows ==
    ASSUME TemplateShape
    PROVE  /\ spawner.due \in Seq(Templates!Due) /\ spawner.pc \in {"idle", "spawn", "advance"}
           /\ spawner.at \in Nat /\ Len(spawner.due) \in Nat
           /\ \A i \in 1 .. Len(spawner.due) :
                /\ spawner.due[i].t \in Template
                /\ spawner.due[i].recurrence \in {"none", "daily", "weekly"}
<1>1. spawner.due \in Seq(Templates!Due)
  BY DEF TemplateShape
<1>2. \A i \in 1 .. Len(spawner.due) : spawner.due[i] \in Templates!Due
  BY <1>1
<1> QED
  BY <1>1, <1>2, Recurrences DEF TemplateShape

LEMMA NoRun ==
    /\ Templates!NoJob \in [pc: {"idle", "spawn", "advance"}, due: Seq(Templates!Due), at: Nat]
    /\ Templates!NoJob.pc = "idle" /\ Templates!NoJob.due = <<>> /\ Templates!NoJob.at = 0
  BY DEF Templates!NoJob

LEMMA TemplateInitInv == ASSUME NoneApart PROVE Templates!Init => TemplateInv
<1> SUFFICES ASSUME Templates!Init PROVE TemplateInv
  OBVIOUS
<1>1. /\ spawner = Templates!NoJob /\ clock = 0 /\ torn = {}
      /\ last = [t \in Template |-> None]
      /\ template = [t \in Template |-> Templates!NoTemplate(CHOOSE p \in Project : TRUE)]
  BY DEF Templates!Init
<1>2. \A t \in Template : /\ template[t].row = "absent" /\ template[t].recurrence = "none"
                          /\ template[t].next = None
                          /\ template[t] \in [row: {"absent", "live"}, next: Nat \cup {None},
                               project: {template[t].project},
                               recurrence: {"none", "daily", "weekly"}]
  BY <1>1 DEF Templates!NoTemplate
<1>3. TemplateShape
  BY <1>1, <1>2, NoRun DEF TemplateShape
<1>4. QueueShape /\ Rests
  BY <1>1, <1>2, NoRun DEF QueueShape, Rests
<1> QED
  BY <1>3, <1>4 DEF TemplateInv

(* materialise_due() reads a due template once: it rested until its next_run_at. *)
LEMMA ScanInv ==
    ASSUME NoneApart, Countable, TemplateInv, Templates!Scan
    PROVE  TemplateInv'
<1> DEFINE ts == Templates!DueAt(clock)
<1>1. TemplateShape /\ QueueShape /\ Rests /\ clock \in Nat
  BY DEF TemplateInv, TemplateShape
<1>2. PICK order \in Templates!ByNextRun(ts) :
        spawner' = [pc |-> "spawn", at |-> clock,
                    due |-> [i \in DOMAIN order |-> Templates!Read(order[i])]]
  BY DEF Templates!Scan
<1>3. /\ spawner.pc = "idle" /\ ts # {} /\ UNCHANGED <<clock, template, project, last, torn>>
  BY DEF Templates!Scan
<1> DEFINE n == Cardinality(ts)
<1>4. ts \subseteq Template /\ IsFiniteSet(ts) /\ n \in Nat /\ n # 0
  BY <1>3, FS_Subset, FS_CardinalityType, FS_EmptySet DEF Countable, Templates!DueAt
<1>5. /\ order \in [1 .. n -> ts] /\ \A i, j \in 1 .. n : i # j => order[i] # order[j]
      /\ DOMAIN order = 1 .. n
  BY <1>2 DEF Templates!ByNextRun, Templates!SetToSeqs, Templates!Cardinality, Cardinality
<1>6. ASSUME NEW t \in ts
      PROVE  /\ t \in Template /\ Templates!Read(t) \in Templates!Due
             /\ Templates!Read(t).t = t /\ Templates!Read(t).recurrence # "none"
             /\ Rested(t, clock)
  <2>1. /\ t \in Template /\ template[t].row = "live" /\ template[t].recurrence # "none"
        /\ template[t].next # None /\ template[t].next <= clock
    BY <1>6 DEF Templates!DueAt, Templates!Live
  <2>2. Rested(t, template[t].next)
    BY <1>1, <1>3, <2>1 DEF Rests, Made
  <2>3. template[t].next \in Nat /\ last[t] \in Nat \cup {None}
        /\ template[t].recurrence \in {"none", "daily", "weekly"} /\ template[t].project \in Project
    BY <1>1, <2>1 DEF TemplateShape
  <2>4. Rested(t, clock)
    BY <1>1, <2>1, <2>2, <2>3 DEF Rested
  <2> QED
    BY <2>1, <2>3, <2>4, Recurrences DEF Templates!Read
<1> HIDE DEF ts, n
<1>7. /\ spawner'.pc = "spawn" /\ spawner'.at = clock /\ Len(spawner'.due) = n
      /\ spawner'.due \in Seq(Templates!Due) /\ spawner'.due # <<>>
      /\ spawner' \in [pc: {"idle", "spawn", "advance"}, due: Seq(Templates!Due), at: Nat]
      /\ \A i \in 1 .. n : spawner'.due[i] = Templates!Read(order[i])
  <2> DEFINE due == [i \in 1 .. n |-> Templates!Read(order[i])]
  <2>1. due \in [1 .. n -> Templates!Due]
    BY <1>5, <1>6
  <2>2. due \in Seq(Templates!Due) /\ Len(due) = n
    BY <1>4, <2>1
  <2>3. spawner' = [pc |-> "spawn", at |-> clock, due |-> due]
    BY <1>2, <1>5
  <2>4. \A i \in 1 .. n : due[i] = Templates!Read(order[i])
    OBVIOUS
  <2> HIDE DEF due
  <2> QED
    BY <1>1, <1>4, <2>2, <2>3, <2>4
<1>8. TemplateShape'
  BY <1>1, <1>3, <1>7 DEF TemplateShape
<1>9. QueueShape'
  BY <1>1, <1>3, <1>5, <1>6, <1>7 DEF QueueShape
<1>10. Rests'
  <2>1. \A i \in 1 .. n : Rested(spawner'.due[i].t, clock)
    BY <1>5, <1>6, <1>7
  <2> QED
    BY <1>1, <1>3, <1>7, <2>1 DEF Rests, Rested, Made
<1> QED
  BY <1>8, <1>9, <1>10 DEF TemplateInv

(* A task is made of the first row of the run. *)
LEMMA SpawnInv ==
    ASSUME NoneApart, TemplateInv, Templates!Spawn
    PROVE  TemplateInv'
<1> DEFINE h == spawner.due[1].t
<1>1. TemplateShape /\ QueueShape /\ Rests /\ spawner.pc = "spawn" /\ clock \in Nat
  BY DEF TemplateInv, TemplateShape, Templates!Spawn
<1>2. Head(spawner.due) = spawner.due[1] /\ 1 \in 1 .. Len(spawner.due) /\ h \in Template
  BY <1>1, QueueRows DEF QueueShape
<1>3. /\ last' = [last EXCEPT ![h] = spawner.at]
      /\ spawner' = [spawner EXCEPT !.pc = "advance"]
      /\ UNCHANGED <<clock, template, project, torn>>
  BY <1>2 DEF Templates!Spawn
<1>4. /\ spawner'.pc = "advance" /\ spawner'.due = spawner.due /\ spawner'.at = spawner.at
      /\ spawner' \in [pc: {"idle", "spawn", "advance"}, due: Seq(Templates!Due), at: Nat]
  BY <1>1, <1>3 DEF TemplateShape
<1>5. /\ last' \in [Template -> Nat \cup {None}]
      /\ \A t \in Template : last'[t] = IF t = h THEN spawner.at ELSE last[t]
  BY <1>1, <1>2, <1>3 DEF TemplateShape
<1>6. TemplateShape'
  BY <1>1, <1>3, <1>4, <1>5 DEF TemplateShape
<1>7. QueueShape'
  BY <1>1, <1>3, <1>4 DEF QueueShape
<1> HIDE DEF h
<1>8. Rests'
  <2>1. h = spawner.due[1].t
    BY DEF h
  <2> QED
    BY <1>1, <1>2, <1>3, <1>4, <1>5, <2>1, QueueRows DEF Rests, Rested, Made, QueueShape
<1> QED
  BY <1>6, <1>7, <1>8 DEF TemplateInv

(* The UPDATE after it: the next task is an interval later than the scan. *)
LEMMA AdvanceInv ==
    ASSUME NoneApart, TemplateInv, Templates!Advance
    PROVE  TemplateInv'
<1> DEFINE d == spawner.due[1]
           h == spawner.due[1].t
           next == Templates!NextRun(d.recurrence, spawner.at)
<1>1. /\ TemplateShape /\ QueueShape /\ Rests /\ spawner.pc = "advance" /\ clock \in Nat
      /\ spawner.due # <<>>
  BY DEF TemplateInv, TemplateShape, Templates!Advance, QueueShape
<1>2. /\ Head(spawner.due) = d /\ 1 \in 1 .. Len(spawner.due) /\ h \in Template
      /\ spawner.at \in Nat /\ spawner.due \in Seq(Templates!Due) /\ Len(spawner.due) \in Nat
      /\ d.recurrence \in {"daily", "weekly"}
  BY <1>1, QueueRows DEF QueueShape
<1>3. /\ template' = IF template[h].row = "live" THEN [template EXCEPT ![h].next = next]
                     ELSE template
      /\ spawner' = IF Tail(spawner.due) = <<>> THEN Templates!NoJob
                    ELSE [spawner EXCEPT !.pc = "spawn", !.due = Tail(spawner.due)]
      /\ torn' = torn \ {h} /\ UNCHANGED <<clock, project, last>>
  BY <1>2 DEF Templates!Advance, Templates!Live, Templates!NextAfter
<1>4. next \in Nat /\ next >= spawner.at + 1
  BY <1>2, NextIsLater
<1> HIDE DEF next
<1>5. /\ \A t \in Template : /\ template'[t].row = template[t].row
                             /\ t # h => template'[t].next = template[t].next
                             /\ t = h /\ template[t].row = "live" => template'[t].next = next
                             /\ template'[t].project = template[t].project
                             /\ template'[t] \in [row: {"absent", "live"}, next: Nat \cup {None},
                                  project: {template[t].project},
                                  recurrence: {"none", "daily", "weekly"}]
      /\ template' = [t \in Template |-> template'[t]]
  <2>1. \A t \in Template :
          template[t] \in [row: {"absent", "live"}, project: {template[t].project},
                           recurrence: {"none", "daily", "weekly"}, next: Nat \cup {None}]
    BY <1>1 DEF TemplateShape
  <2>2. template = [t \in Template |-> template[t]]
    BY <1>1 DEF TemplateShape
  <2>3. CASE template[h].row = "live"
    <3>1. /\ template' = [t \in Template |-> template'[t]]
          /\ \A t \in Template : t # h => template'[t] = template[t]
          /\ template'[h] = [template[h] EXCEPT !.next = next]
      BY <1>2, <1>3, <2>2, <2>3
    <3>2. /\ template'[h].row = template[h].row /\ template'[h].next = next
          /\ template'[h].project = template[h].project
          /\ template'[h] \in [row: {"absent", "live"}, next: Nat \cup {None},
                                project: {template[h].project},
                                recurrence: {"none", "daily", "weekly"}]
      BY <1>2, <1>4, <2>1, <3>1
    <3> QED
      BY <2>1, <3>1, <3>2
  <2>4. CASE template[h].row # "live"
    BY <1>3, <2>1, <2>2, <2>4
  <2> QED
    BY <2>3, <2>4
<1>6. /\ spawner' \in [pc: {"idle", "spawn", "advance"}, due: Seq(Templates!Due), at: Nat]
      /\ spawner'.pc \in {"idle", "spawn"} /\ spawner'.at <= clock
      /\ spawner'.pc # "idle" => spawner'.due = Tail(spawner.due) /\ spawner'.due # <<>>
                                 /\ spawner'.at = spawner.at
      /\ spawner'.pc = "idle" => spawner'.due = <<>>
  <2>1. Tail(spawner.due) \in Seq(Templates!Due)
    BY <1>1, <1>2
  <2>2. CASE Tail(spawner.due) = <<>>
    BY <1>1, <1>3, <2>2, NoRun
  <2>3. CASE Tail(spawner.due) # <<>>
    <3>1. spawner' = [spawner EXCEPT !.pc = "spawn", !.due = Tail(spawner.due)]
      BY <1>3, <2>3
    <3>2. /\ spawner' \in [pc: {"idle", "spawn", "advance"}, due: Seq(Templates!Due), at: Nat]
          /\ spawner'.pc = "spawn" /\ spawner'.due = Tail(spawner.due)
          /\ spawner'.at = spawner.at
      BY <1>1, <2>1, <3>1 DEF TemplateShape
    <3> QED
      BY <1>1, <2>3, <3>2 DEF QueueShape
  <2> QED
    BY <2>2, <2>3
<1>7. /\ Len(Tail(spawner.due)) = Len(spawner.due) - 1
      /\ \A i \in 1 .. Len(spawner.due) - 1 : /\ Tail(spawner.due)[i] = spawner.due[i + 1]
                                              /\ i + 1 \in 1 .. Len(spawner.due)
  BY <1>1, <1>2
<1>8. TemplateShape'
  <2>1. clock' \in Nat /\ last' \in [Template -> Nat \cup {None}]
    BY <1>1, <1>3 DEF TemplateShape
  <2>2. \A t \in Template : template[t].row = "live" => template[t].project \in Project
    BY <1>1 DEF TemplateShape
  <2>3. \A t \in Template :
          /\ template'[t] \in [row: {"absent", "live"}, project: {template'[t].project},
                               recurrence: {"none", "daily", "weekly"}, next: Nat \cup {None}]
          /\ template'[t].row = "live" => template'[t].project \in Project
    BY <1>5, <2>2
  <2> QED
    BY <1>5, <1>6, <2>1, <2>3 DEF TemplateShape
<1>9. ASSUME NEW i \in 1 .. Len(spawner'.due), spawner'.pc # "idle"
      PROVE  /\ i + 1 \in 1 .. Len(spawner.due) /\ spawner'.due[i] = spawner.due[i + 1]
             /\ spawner.due[i + 1].t # h /\ spawner.due[i + 1].t \in Template
             /\ Rested(spawner.due[i + 1].t, spawner.at)
  <2>1. i + 1 \in 1 .. Len(spawner.due) /\ spawner'.due[i] = spawner.due[i + 1]
    BY <1>6, <1>7, <1>9
  <2>2. spawner.due[i + 1].t # h /\ spawner.due[i + 1].t \in Template
    BY <1>1, <1>2, <1>9, <2>1, QueueRows DEF QueueShape
  <2> QED
    BY <1>1, <2>1, <2>2 DEF Rests, Made
<1>10. QueueShape'
  <2>1. ASSUME NEW i \in 1 .. Len(spawner'.due), spawner'.pc # "idle"
        PROVE  /\ spawner'.due[i].recurrence # "none"
               /\ \A j \in 1 .. Len(spawner'.due) : spawner'.due[i].t = spawner'.due[j].t => i = j
    <3>1. \A k \in 1 .. Len(spawner'.due) : /\ k + 1 \in 1 .. Len(spawner.due)
                                             /\ spawner'.due[k] = spawner.due[k + 1]
      BY <1>9, <2>1
    <3>2. spawner'.due[i].recurrence # "none"
      BY <1>1, <3>1 DEF QueueShape
    <3>3. ASSUME NEW j \in 1 .. Len(spawner'.due), spawner'.due[i].t = spawner'.due[j].t
          PROVE  i = j
      <4>1. /\ i + 1 \in 1 .. Len(spawner.due) /\ j + 1 \in 1 .. Len(spawner.due)
            /\ spawner.due[i + 1].t = spawner.due[j + 1].t
        BY <3>1, <3>3
      <4>2. i + 1 = j + 1
        BY <1>1, <4>1 DEF QueueShape
      <4> QED
        BY <4>2
    <3> QED
      BY <3>2, <3>3
  <2>2. spawner'.pc = "idle" => 1 .. Len(spawner'.due) = {}
    BY <1>6
  <2>3. /\ spawner'.pc # "idle" => spawner'.due # <<>>
        /\ spawner'.at <= clock'
    BY <1>3, <1>6
  <2>4. \A i \in 1 .. Len(spawner'.due) : spawner'.due[i].recurrence # "none"
    BY <2>1, <2>2
  <2>5. \A i, j \in 1 .. Len(spawner'.due) : spawner'.due[i].t = spawner'.due[j].t => i = j
    BY <2>1, <2>2
  <2> QED
    BY <2>3, <2>4, <2>5 DEF QueueShape
<1>11. Rests'
  <2>1. last[h] \in {spawner.at, None} /\ spawner.at \in Nat
    BY <1>1, <1>2 DEF Rests
  <2>2. (\A t \in Template : template[t].row = "live" /\ template[t].next # None =>
            Rested(t, template[t].next))'
    <3>1. ASSUME NEW t \in Template, t # h, template[t].row = "live", template[t].next # None
          PROVE  Rested(t, template[t].next)
      BY <1>1, <3>1 DEF Rests, Made
    <3>2. ASSUME NEW t \in Template, t # h, template'[t].row = "live", template'[t].next # None
          PROVE  Rested(t, template[t].next)'
      BY <1>3, <1>5, <3>1, <3>2 DEF Rested
    <3>3. ASSUME NEW t \in Template, t = h, template'[t].row = "live", template'[t].next # None
          PROVE  Rested(t, template[t].next)'
      <4>1. template'[t].next = next /\ last'[t] = last[h]
        BY <1>2, <1>3, <1>5, <3>3
      <4>2. last[h] # None => next >= last[h] + 1
        BY <1>4, <2>1
      <4>3. last'[t] # None => template'[t].next >= last'[t] + 1
        BY <4>1, <4>2
      <4> QED
        BY <4>3 DEF Rested
    <3>4. ASSUME NEW t \in Template, template'[t].row = "live", template'[t].next # None
          PROVE  Rested(t, template[t].next)'
      BY <3>2, <3>3, <3>4
    <3> QED
      <4>1. \A t \in Template : template'[t].row = "live" /\ template'[t].next # None =>
                Rested(t, template[t].next)'
        BY <3>4
      <4> QED
        BY <4>1
  <2>3. \A i \in 1 .. Len(spawner'.due) :
            spawner'.pc # "idle" =>
              LET t == spawner.due[i + 1].t IN
              last'[t] # None /\ t \notin torn' => spawner.at >= last'[t] + 1
    BY <1>3, <1>9 DEF Rested
  <2>4. \A i \in 1 .. Len(spawner'.due) :
            spawner'.pc # "idle" => (Rested(spawner.due[i].t, spawner.at))'
    <3> SUFFICES ASSUME NEW i \in 1 .. Len(spawner'.due), spawner'.pc # "idle"
                 PROVE  (Rested(spawner.due[i].t, spawner.at))'
      OBVIOUS
    <3>1. spawner'.due[i].t = spawner.due[i + 1].t /\ spawner'.at = spawner.at
      BY <1>6, <1>9
    <3> QED
      BY <2>3, <3>1 DEF Rested
  <2>5. /\ \A t \in Template : last'[t] # None => last'[t] <= clock'
        /\ spawner'.pc # "advance"
    BY <1>1, <1>3, <1>6 DEF Rests
  <2> QED
    BY <2>2, <2>4, <2>5 DEF Rests
<1> QED
  BY <1>8, <1>10, <1>11 DEF TemplateInv

(* A run that ends before its time: the template it was at may have made a task. *)
LEMMA StopInv ==
    ASSUME NoneApart, TemplateInv, Templates!SpawnFails \/ Templates!Crash
    PROVE  TemplateInv'
<1>1. /\ TemplateShape /\ QueueShape /\ Rests /\ spawner' = Templates!NoJob
      /\ UNCHANGED <<clock, template, project, last>>
  BY DEF TemplateInv, Templates!SpawnFails, Templates!Crash
<1>2. /\ torn \subseteq torn'
      /\ \A t \in Template : Made(t) => t \in torn'
  <2>1. CASE Templates!SpawnFails
    BY <2>1 DEF Templates!SpawnFails, Made
  <2>2. CASE Templates!Crash
    <3>1. spawner.pc = "advance" => Head(spawner.due) = spawner.due[1]
      BY <1>1, QueueRows DEF QueueShape
    <3> QED
      BY <2>2, <3>1 DEF Templates!Crash, Made
  <2> QED
    BY <2>1, <2>2
<1>3. TemplateShape' /\ QueueShape'
  BY <1>1, NoRun DEF TemplateShape, QueueShape
<1>4. Rests'
  BY <1>1, <1>2, NoRun DEF Rests, Rested, Made
<1> QED
  BY <1>3, <1>4 DEF TemplateInv

(* Whoever writes a row gives it an interval from now, and a new row has made no task. *)
LEMMA TemplateRowInv ==
    ASSUME NoneApart, TemplateInv, NEW t \in Template, NEW row,
           template' = [template EXCEPT ![t] = row], UNCHANGED <<clock, project, spawner>>,
           row \in [row: {"absent", "live"}, project: {row.project},
                    recurrence: {"none", "daily", "weekly"}, next: Nat \cup {None}],
           row.row = "live" => row.project \in Project,
           row.row = "live" /\ row.next # None => row.next >= clock + 1,
           \/ UNCHANGED <<last, torn>>
           \/ last' = [last EXCEPT ![t] = None] /\ torn' = torn \ {t}
    PROVE  TemplateInv'
<1>1. TemplateShape /\ QueueShape /\ Rests /\ clock \in Nat
  BY DEF TemplateInv, TemplateShape
<1>2. /\ \A u \in Template : template'[u] = IF u = t THEN row ELSE template[u]
      /\ template' = [u \in Template |-> template'[u]]
  BY <1>1 DEF TemplateShape
<1>3. /\ last' \in [Template -> Nat \cup {None}] /\ last \in [Template -> Nat \cup {None}]
      /\ \A u \in Template : /\ last'[u] \in {last[u], None}
                             /\ last'[u] # None /\ u \notin torn' => u \notin torn
  BY <1>1 DEF TemplateShape
<1>4. TemplateShape'
  BY <1>1, <1>2, <1>3 DEF TemplateShape
<1>5. QueueShape'
  BY <1>1 DEF QueueShape
<1>6. \A u \in Template : \A time : Rested(u, time) => Rested(u, time)'
  BY <1>3 DEF Rested
<1>7. \A u \in Template : last'[u] # None => last'[u] <= clock
  BY <1>1, <1>3 DEF Rests
<1>8. (\A u \in Template : template[u].row = "live" /\ template[u].next # None =>
         Made(u) \/ Rested(u, template[u].next))'
  <2> SUFFICES ASSUME NEW u \in Template, template'[u].row = "live", template'[u].next # None
               PROVE  Made(u) \/ (Rested(u, template[u].next))'
    BY DEF Made
  <2>1. CASE u = t
    BY <1>1, <1>2, <1>3, <1>7, <2>1 DEF Rested
  <2>2. CASE u # t
    BY <1>1, <1>2, <1>6, <2>2 DEF Rests, Rested
  <2> QED
    BY <2>1, <2>2
<1>9. \A i \in 1 .. Len(spawner.due) : spawner.pc # "idle" =>
         Made(spawner.due[i].t) \/ (Rested(spawner.due[i].t, spawner.at))'
  BY <1>1, <1>3, QueueRows DEF Rests, Rested
<1>10. spawner.pc = "advance" => last'[spawner.due[1].t] \in {spawner.at, None}
  <2>1. spawner.pc = "advance" => 1 \in 1 .. Len(spawner.due)
    BY <1>1, QueueRows DEF QueueShape
  <2> QED
    BY <1>1, <1>3, <2>1, QueueRows DEF Rests
<1>11. Rests'
  BY <1>7, <1>8, <1>9, <1>10 DEF Rests, Made, Rested
<1> QED
  BY <1>4, <1>5, <1>11 DEF TemplateInv

LEMMA TemplateEditInv ==
    ASSUME NoneApart, TemplateInv, NEW t \in Template,
           \/ \E p \in Project, recurrence \in Templates!Recurrence :
                Templates!Create(t, p, recurrence)
           \/ \E recurrence \in Templates!Recurrence : Templates!Update(t, recurrence)
           \/ Templates!Discard(t)
    PROVE  TemplateInv'
<1>1. TemplateShape /\ clock \in Nat
  BY DEF TemplateInv, TemplateShape
<1>2. ASSUME NEW recurrence \in Templates!Recurrence
      PROVE  LET next == Templates!NextRun(recurrence, clock)
             IN  /\ recurrence \in {"none", "daily", "weekly"} /\ next \in Nat \cup {None}
                 /\ next # None => next >= clock + 1
  BY <1>1, <1>2, Recurrences, NextIsLater
<1>3. ASSUME NEW p \in Project, NEW recurrence \in Templates!Recurrence,
             Templates!Create(t, p, recurrence)
      PROVE  TemplateInv'
  <2> DEFINE row == [row |-> "live", project |-> p, recurrence |-> recurrence,
                     next |-> Templates!NextRun(recurrence, clock)]
  <2>1. /\ template' = [template EXCEPT ![t] = row] /\ UNCHANGED <<clock, project, spawner>>
        /\ last' = [last EXCEPT ![t] = None] /\ torn' = torn \ {t}
    BY <1>3 DEF Templates!Create
  <2> QED
    BY <1>2, <2>1, TemplateRowInv
<1>4. ASSUME NEW recurrence \in Templates!Recurrence, Templates!Update(t, recurrence)
      PROVE  TemplateInv'
  <2> DEFINE next == Templates!NextRun(recurrence, clock)
             row == [template[t] EXCEPT !.recurrence = recurrence, !.next = next]
  <2>1. /\ template' = [template EXCEPT ![t] = row]
        /\ UNCHANGED <<clock, project, spawner, last, torn>>
    BY <1>1, <1>4 DEF Templates!Update, TemplateShape
  <2>2. /\ recurrence \in {"none", "daily", "weekly"} /\ next \in Nat \cup {None}
        /\ next # None => next >= clock + 1
    BY <1>2
  <2> HIDE DEF next
  <2>3. /\ row \in [row: {"absent", "live"}, project: {row.project},
                    recurrence: {"none", "daily", "weekly"}, next: Nat \cup {None}]
        /\ row.next = next
        /\ row.row = "live" => row.project \in Project
    BY <1>1, <2>2 DEF TemplateShape
  <2> HIDE DEF row
  <2> QED
    BY <2>1, <2>2, <2>3, TemplateRowInv
<1>5. CASE Templates!Discard(t)
  <2> DEFINE row == Templates!NoTemplate(template[t].project)
  <2>1. /\ template' = [template EXCEPT ![t] = row]
        /\ UNCHANGED <<clock, project, spawner, last, torn>>
    BY <1>5 DEF Templates!Discard
  <2>2. row.row = "absent" /\ row \in [row: {"absent", "live"}, project: {row.project},
                    recurrence: {"none", "daily", "weekly"}, next: Nat \cup {None}]
    BY DEF Templates!NoTemplate
  <2> HIDE DEF row
  <2> QED
    BY <2>1, <2>2, TemplateRowInv
<1> QED
  BY <1>3, <1>4, <1>5

LEMMA TemplateClockInv ==
    ASSUME TemplateInv, Templates!Tick \/ \E p \in Project : Templates!ProjectGoes(p)
    PROVE  TemplateInv'
<1>1. /\ TemplateShape /\ QueueShape /\ Rests
      /\ clock \in Nat /\ clock' \in Nat /\ clock' >= clock
      /\ UNCHANGED <<template, spawner, last, torn>>
  BY DEF TemplateInv, TemplateShape, Templates!Tick, Templates!ProjectGoes
<1>2. TemplateShape'
  BY <1>1 DEF TemplateShape
<1>3. QueueShape'
  BY <1>1, QueueRows DEF QueueShape
<1>4. \A t \in Template : last[t] \in Nat \cup {None}
  BY <1>1 DEF TemplateShape
<1>5. Rests'
  BY <1>1, <1>4 DEF Rests, Made, Rested
<1> QED
  BY <1>2, <1>3, <1>5 DEF TemplateInv

LEMMA TemplatesKeep == ASSUME NoneApart, Countable PROVE WorkSpec => []TemplateInv
<1>1. WorkInit => TemplateInv
  BY TemplateInitInv DEF WorkInit
<1>2. ASSUME TemplateInv, [WorkNext]_workVars
      PROVE  TemplateInv'
  <2>1. Templates!Next \/ UNCHANGED templateVars
    BY <1>2 DEF WorkNext, workVars
  <2>2. CASE UNCHANGED templateVars
    BY <1>2, <2>2
       DEF templateVars, TemplateInv, TemplateShape, QueueShape, Rests, Made, Rested
  <2>3. CASE Templates!Next
    BY <1>2, <2>3, ScanInv, SpawnInv, AdvanceInv, StopInv, TemplateEditInv, TemplateClockInv
       DEF Templates!Next, Templates!Work
  <2> QED
    BY <2>1, <2>2, <2>3
<1> QED
  BY <1>1, <1>2, PTL DEF WorkSpec

(* A template that fell behind makes no burst: an interval lies between any two of its
   tasks, but for one that a stop repeats (materialise_due() in domain/templates.rs). *)
THEOREM NeverABurst == ASSUME NoneApart, Countable PROVE WorkSpec => NoBurst
<1> DEFINE Gentle == \A t \in Template :
                       Templates!MakesTask(t) /\ last[t] # None /\ t \notin torn =>
                         \E recurrence \in DOMAIN [daily |-> 1, weekly |-> 2] :
                           spawner.at >= last[t] + [daily |-> 1, weekly |-> 2][recurrence]
<1>1. ASSUME TemplateInv
      PROVE  Gentle
  <2> SUFFICES ASSUME NEW t \in Template, Templates!MakesTask(t), last[t] # None, t \notin torn
               PROVE  \E recurrence \in DOMAIN [daily |-> 1, weekly |-> 2] :
                        spawner.at >= last[t] + [daily |-> 1, weekly |-> 2][recurrence]
    OBVIOUS
  <2>1. /\ TemplateShape /\ QueueShape /\ Rests /\ spawner.pc = "spawn"
        /\ t = Head(spawner.due).t
    BY <1>1 DEF TemplateInv, Templates!MakesTask
  <2>2. Head(spawner.due) = spawner.due[1] /\ 1 \in 1 .. Len(spawner.due)
    BY <2>1, QueueRows DEF QueueShape
  <2>3. spawner.at >= last[t] + 1
    BY <2>1, <2>2 DEF Rests, Made, Rested
  <2>4. /\ "daily" \in DOMAIN [daily |-> 1, weekly |-> 2]
        /\ [daily |-> 1, weekly |-> 2]["daily"] = 1
    OBVIOUS
  <2> QED
    BY <2>3, <2>4
<1>2. TemplateInv /\ [WorkNext]_workVars => [Gentle]_<<clock, template, project, spawner, last, torn>>
  BY <1>1
<1> QED
  BY <1>2, TemplatesKeep, PTL DEF WorkSpec, NoBurst, Templates!NoBurst, Templates!vars

----------------------------------------------------------------------------
(* Places in a list *)

(* The ids of a list can be counted. *)
Listable == IsFiniteSet(Task)

OrderShape ==
    /\ item \in [Task -> [row: {"absent", "live", "deleted"}, place: Int]]
    /\ itemReq \in [Request -> [pc: {"idle", "place"}, i: Task \cup {None},
                                side: {"after", "before", "end"}, anchor: Task \cup {None},
                                place: Int]]
    /\ \E m \in Nat : \A i \in Task : item[i].place <= m /\ -m <= item[i].place

Others(i) == {item[j].place : j \in {k \in Task \ {i} : item[k].row = "live"}}

(* What a request computed of the list is still so when it writes. *)
PlaceStands(q) ==
    /\ q.i \in Task
    /\ q.side = "end" => \A p \in Others(q.i) : p < q.place
    /\ q.side = "after" =>
         /\ q.anchor \in Task /\ item[q.anchor].place < q.place
         /\ ~\E p \in Others(q.i) : item[q.anchor].place < p /\ p <= q.place
    /\ q.side = "before" =>
         /\ q.anchor \in Task /\ q.place < item[q.anchor].place
         /\ ~\E p \in Others(q.i) : q.place <= p /\ p < item[q.anchor].place

OrderInv ==
    /\ OrderShape
    /\ \A r \in Request : itemReq[r].pc = "place" =>
         /\ PlaceStands(itemReq[r])
         /\ \A q \in Request \ {r} : itemReq[q].pc = "idle"

(* A set of integers that is bounded has an end. *)
LEMMA LeastInt ==
    ASSUME NEW S \in SUBSET Int, S # {}, NEW m \in Int, \A x \in S : m <= x
    PROVE  \E x \in S : \A y \in S : x <= y
<1> DEFINE T == {x - m : x \in S}
<1>1. T \subseteq Nat /\ T # {}
  <2>1. \A x \in S : x - m \in Nat
    OBVIOUS
  <2> QED
    BY <2>1
<1>2. PICK t \in T : \A u \in T : ~(<<u, t>> \in OpToRel(<, Nat))
  <2> HIDE DEF T
  <2> QED
    BY <1>1, WFMin, NatLessThanWellFounded
<1>3. \A u \in T : ~(u < t)
  BY <1>1, <1>2 DEF OpToRel
<1>4. PICK x \in S : t = x - m
  OBVIOUS
<1>5. \A y \in S : ~(y - m < x - m)
  BY <1>3, <1>4
<1> QED
  BY <1>5

LEMMA OrderMin ==
    ASSUME NEW S \in SUBSET Int, S # {}, NEW m \in Int, \A x \in S : m <= x
    PROVE  Order!Min(S) \in S /\ \A y \in S : Order!Min(S) <= y
  BY LeastInt DEF Order!Min

LEMMA OrderMax ==
    ASSUME NEW S \in SUBSET Int, S # {}, NEW m \in Int, \A x \in S : x <= m
    PROVE  Order!Max(S) \in S /\ \A y \in S : y <= Order!Max(S)
<1> DEFINE T == {-x : x \in S}
<1>1. T \in SUBSET Int /\ T # {} /\ -m \in Int /\ \A t \in T : -m <= t
  <2>1. -m \in Int
    OBVIOUS
  <2>2. ASSUME NEW t \in T
        PROVE  t \in Int /\ -m <= t
    <3>1. PICK x \in S : t = -x
      OBVIOUS
    <3>2. x \in Int /\ x <= m
      OBVIOUS
    <3> QED
      BY <3>1, <3>2
  <2>3. T # {}
    OBVIOUS
  <2> HIDE DEF T
  <2> QED
    BY <2>1, <2>2, <2>3
<1>2. PICK t \in T : \A u \in T : t <= u
  <2> HIDE DEF T
  <2> QED
    BY <1>1, LeastInt
<1>3. PICK x \in S : t = -x
  OBVIOUS
<1>4. \A y \in S : -x <= -y
  BY <1>2, <1>3
<1>5. \E z \in S : \A y \in S : z >= y
  BY <1>4
<1> QED
  BY <1>5 DEF Order!Max

LEMMA LeastAbove ==
    ASSUME NEW S \in SUBSET Int, NEW c \in Int, {p \in S : p > c} # {}
    PROVE  LET b == Order!Min({p \in S : p > c})
           IN  b \in S /\ b > c /\ \A p \in S : c < p => b <= p
<1> DEFINE above == {p \in S : p > c}
<1>1. above \subseteq Int
  OBVIOUS
<1>2. \A x : x \in above <=> x \in S /\ x > c
  OBVIOUS
<1>3. \A x \in above : c <= x
  BY <1>2
<1>4. above # {}
  OBVIOUS
<1> HIDE DEF above
<1>5. Order!Min(above) \in above /\ \A y \in above : Order!Min(above) <= y
  BY <1>1, <1>3, <1>4, OrderMin
<1>6. /\ Order!Min(above) \in S /\ Order!Min(above) > c
      /\ \A p \in S : c < p => Order!Min(above) <= p
  BY <1>2, <1>5
<1> QED
  BY <1>6 DEF above

LEMMA GreatestBelow ==
    ASSUME NEW S \in SUBSET Int, NEW c \in Int, {p \in S : p < c} # {}
    PROVE  LET b == Order!Max({p \in S : p < c})
           IN  b \in S /\ b < c /\ \A p \in S : p < c => p <= b
<1> DEFINE below == {p \in S : p < c}
<1>1. below \subseteq Int
  OBVIOUS
<1>2. \A x : x \in below <=> x \in S /\ x < c
  OBVIOUS
<1>3. \A x \in below : x <= c
  BY <1>2
<1>4. below # {}
  OBVIOUS
<1> HIDE DEF below
<1>5. Order!Max(below) \in below /\ \A y \in below : y <= Order!Max(below)
  BY <1>1, <1>3, <1>4, OrderMax
<1>6. /\ Order!Max(below) \in S /\ Order!Max(below) < c
      /\ \A p \in S : p < c => p <= Order!Max(below)
  BY <1>2, <1>5
<1> QED
  BY <1>6 DEF below

(* Where create_task() and a move without an anchor put an item. *)
LEMMA EndIsLast ==
    ASSUME OrderShape
    PROVE  /\ Order!Places \in SUBSET Int
           /\ Order!AtEnd \in Int /\ \A p \in Order!Places : p < Order!AtEnd
<1>1. PICK m \in Nat : \A i \in Task : item[i].place <= m /\ -m <= item[i].place
  BY DEF OrderShape
<1>2. Order!Places \in SUBSET Int /\ \A p \in Order!Places : p <= m
  BY <1>1 DEF OrderShape, Order!Places
<1>3. CASE Order!Places = {}
  BY <1>2, <1>3 DEF Order!AtEnd
<1>4. CASE Order!Places # {}
  <2>1. Order!Max(Order!Places) \in Int /\ \A p \in Order!Places : p <= Order!Max(Order!Places)
    <3>1. m \in Int
      BY <1>1
    <3>2. Order!Max(Order!Places) \in Order!Places
          /\ \A p \in Order!Places : p <= Order!Max(Order!Places)
      BY <1>2, <1>4, <3>1, OrderMax
    <3> QED
      BY <1>2, <3>2
  <2>2. Order!AtEnd = Order!Max(Order!Places) + 2
    BY <1>4 DEF Order!AtEnd
  <2> QED
    BY <1>2, <2>1, <2>2
<1> QED
  BY <1>3, <1>4

(* Where resolve_position() puts it next to an anchor that has room. *)
LEMMA PlaceAfter ==
    ASSUME OrderShape, NEW a \in Task, Order!Room(item[a].place)
    PROVE  LET here == item[a].place IN
           /\ here \in Int /\ Order!After(here) \in Int /\ here < Order!After(here)
           /\ \A p \in Order!Places : here < p => Order!After(here) < p
<1> DEFINE here == item[a].place
           above == {p \in Order!Places : p > here}
<1>1. here \in Int /\ Order!Places \in SUBSET Int /\ here + 1 \notin Order!Places
  BY EndIsLast DEF OrderShape, Order!Room
<1>2. Order!After(here) = IF above = {} THEN here + 2 ELSE Order!Between(here, Order!Min(above))
  BY DEF Order!After
<1>3. CASE above = {}
  BY <1>1, <1>2, <1>3
<1>4. CASE above # {}
  <2> DEFINE b == Order!Min(above)
  <2>2. b \in Order!Places /\ b > here /\ \A p \in Order!Places : here < p => b <= p
    <3> HIDE DEF here
    <3> QED
      BY <1>1, <1>4, LeastAbove
  <2> HIDE DEF b, here
  <2>3. b \in Int /\ b >= here + 2
    BY <1>1, <2>2
  <2> USE DEF b, here
  <2>4. Order!After(here) = (here + b) \div 2
    BY <1>2, <1>4 DEF Order!Between
  <2> HIDE DEF b
  <2>5. here < (here + b) \div 2 /\ (here + b) \div 2 < b /\ (here + b) \div 2 \in Int
    BY <1>1, <2>3
  <2> QED
    BY <1>1, <2>2, <2>3, <2>4, <2>5
<1> QED
  BY <1>3, <1>4

LEMMA PlaceBefore ==
    ASSUME OrderShape, NEW a \in Task, Order!Room(item[a].place)
    PROVE  LET here == item[a].place IN
           /\ here \in Int /\ Order!Before(here) \in Int /\ Order!Before(here) < here
           /\ \A p \in Order!Places : p < here => p < Order!Before(here)
<1> DEFINE here == item[a].place
           below == {p \in Order!Places : p < here}
<1>1. here \in Int /\ Order!Places \in SUBSET Int /\ here - 1 \notin Order!Places
  BY EndIsLast DEF OrderShape, Order!Room
<1>2. Order!Before(here) = IF below = {} THEN here - 2 ELSE Order!Between(Order!Max(below), here)
  BY DEF Order!Before
<1>3. CASE below = {}
  BY <1>1, <1>2, <1>3
<1>4. CASE below # {}
  <2> DEFINE b == Order!Max(below)
  <2>2. b \in Order!Places /\ b < here /\ \A p \in Order!Places : p < here => p <= b
    <3> HIDE DEF here
    <3> QED
      BY <1>1, <1>4, GreatestBelow
  <2> HIDE DEF b, here
  <2>3. b \in Int /\ b <= here - 2
    BY <1>1, <2>2
  <2> USE DEF b, here
  <2>4. Order!Before(here) = (b + here) \div 2
    BY <1>2, <1>4 DEF Order!Between
  <2> HIDE DEF b
  <2>5. b < (b + here) \div 2 /\ (b + here) \div 2 < here /\ (b + here) \div 2 \in Int
    BY <1>1, <2>3
  <2> QED
    BY <1>1, <2>2, <2>3, <2>4, <2>5
<1> QED
  BY <1>3, <1>4

LEMMA OrderInit == Order!Init => OrderInv
<1> SUFFICES ASSUME Order!Init PROVE OrderInv
  OBVIOUS
<1>1. /\ item \in [Task -> [row: {"absent", "live", "deleted"}, place: Int]]
      /\ \A i \in Task : item[i].place = 0
  BY DEF Order!Init, Order!NoItem
<1>2. /\ itemReq \in [Request -> [pc: {"idle", "place"}, i: Task \cup {None},
                      side: {"after", "before", "end"}, anchor: Task \cup {None}, place: Int]]
      /\ \A r \in Request : itemReq[r].pc = "idle"
  BY DEF Order!Init, Order!Idle
<1>3. \E m \in Nat : \A i \in Task : item[i].place <= m /\ -m <= item[i].place
  BY <1>1
<1> QED
  BY <1>1, <1>2, <1>3 DEF OrderInv, OrderShape

(* A place computed for an item stands. *)
LEMMA ComputeInv ==
    ASSUME NoneApart, OrderInv, NEW r \in Request, NEW i \in Task,
           \/ Order!ComputeEnd(r, i)
           \/ \E a \in Task : Order!ComputeAfter(r, i, a) \/ Order!ComputeBefore(r, i, a)
    PROVE  OrderInv'
<1>1. OrderShape /\ Others(i) \subseteq Order!Places /\ Order!Places \in SUBSET Int
  BY EndIsLast DEF OrderInv, Others, Order!Places, Order!Live
<1>2. ASSUME NEW side \in {"after", "before", "end"}, NEW anchor \in Task \cup {None}, NEW place,
             Order!Compute(r, i, side, anchor, place), place \in Int,
             PlaceStands([pc |-> "place", i |-> i, side |-> side, anchor |-> anchor,
                          place |-> place])
      PROVE  OrderInv'
  <2> DEFINE n == [pc |-> "place", i |-> i, side |-> side, anchor |-> anchor, place |-> place]
  <2>1. /\ itemReq' = [itemReq EXCEPT ![r] = n] /\ item' = item
        /\ \A q \in Request : itemReq[q].pc = "idle"
    BY <1>2 DEF Order!Compute, Order!Ready
  <2>2. n \in [pc: {"idle", "place"}, i: Task \cup {None}, side: {"after", "before", "end"},
               anchor: Task \cup {None}, place: Int]
    BY <1>2
  <2>3. PlaceStands(n)
    BY <1>2
  <2> HIDE DEF n
  <2>4. /\ OrderShape'
        /\ \A q \in Request : itemReq'[q] = IF q = r THEN n ELSE itemReq[q]
    BY <1>1, <2>1, <2>2 DEF OrderShape
  <2>5. PlaceStands(n)'
    BY <2>1, <2>3 DEF PlaceStands, Others
  <2>6. (\A q \in Request : itemReq[q].pc = "place" =>
           PlaceStands(itemReq[q]) /\ \A s \in Request \ {q} : itemReq[s].pc = "idle")'
    BY <2>1, <2>4, <2>5
  <2> QED
    BY <2>4, <2>6 DEF OrderInv
<1>3. CASE Order!ComputeEnd(r, i)
  <2>1. Order!AtEnd \in Int /\ \A p \in Others(i) : p < Order!AtEnd
    BY <1>1, EndIsLast
  <2> DEFINE place == Order!AtEnd
  <2>2. place \in Int /\ Order!Compute(r, i, "end", None, place)
    BY <1>3, <2>1 DEF Order!ComputeEnd
  <2>3. \A p \in Others(i) : p < place
    BY <2>1
  <2> HIDE DEF place
  <2>4. PlaceStands([pc |-> "place", i |-> i, side |-> "end", anchor |-> None, place |-> place])
    BY <2>3 DEF PlaceStands
  <2> QED
    BY <1>2, <2>2, <2>4
<1>4. ASSUME NEW a \in Task, Order!ComputeAfter(r, i, a)
      PROVE  OrderInv'
  <2> DEFINE place == Order!After(item[a].place)
  <2>1. Order!Room(item[a].place) /\ Order!Compute(r, i, "after", a, place)
    BY <1>4 DEF Order!ComputeAfter
  <2>2. /\ place \in Int /\ item[a].place \in Int /\ item[a].place < place
        /\ \A p \in Others(i) : item[a].place < p => place < p
    BY <1>1, <2>1, PlaceAfter
  <2> HIDE DEF place
  <2>3. ASSUME NEW p \in Others(i)
        PROVE  ~(item[a].place < p /\ p <= place)
    <3>1. p \in Int
      BY <1>1
    <3> QED
      BY <2>2, <3>1
  <2>4. PlaceStands([pc |-> "place", i |-> i, side |-> "after", anchor |-> a, place |-> place])
    BY <2>2, <2>3 DEF PlaceStands
  <2> QED
    BY <1>2, <2>1, <2>2, <2>4
<1>5. ASSUME NEW a \in Task, Order!ComputeBefore(r, i, a)
      PROVE  OrderInv'
  <2> DEFINE place == Order!Before(item[a].place)
  <2>1. Order!Room(item[a].place) /\ Order!Compute(r, i, "before", a, place)
    BY <1>5 DEF Order!ComputeBefore
  <2>2. /\ place \in Int /\ item[a].place \in Int /\ place < item[a].place
        /\ \A p \in Others(i) : p < item[a].place => p < place
    BY <1>1, <2>1, PlaceBefore
  <2> HIDE DEF place
  <2>3. ASSUME NEW p \in Others(i)
        PROVE  ~(place <= p /\ p < item[a].place)
    <3>1. p \in Int
      BY <1>1
    <3>2. place \in Int /\ (p < item[a].place => p < place)
      BY <2>2
    <3> QED
      BY <3>1, <3>2
  <2>4. PlaceStands([pc |-> "place", i |-> i, side |-> "before", anchor |-> a, place |-> place])
    BY <2>2, <2>3 DEF PlaceStands
  <2> QED
    BY <1>2, <2>1, <2>2, <2>4
<1> QED
  BY <1>3, <1>4, <1>5

LEMMA PlaceWriteInv ==
    ASSUME NoneApart, OrderInv, NEW r \in Request, Order!Write(r)
    PROVE  OrderInv'
<1> DEFINE i == itemReq[r].i
           row == [row |-> "live", place |-> itemReq[r].place]
<1>1. /\ OrderShape /\ i \in Task /\ itemReq[r].place \in Int
      /\ \A q \in Request \ {r} : itemReq[q].pc = "idle"
  BY DEF OrderInv, OrderShape, PlaceStands, Order!Write
<1>2. item' = [item EXCEPT ![i] = row] /\ itemReq' = [itemReq EXCEPT ![r] = Order!Idle]
  BY DEF Order!Write
<1>3. row \in [row: {"absent", "live", "deleted"}, place: Int] /\ row.place = itemReq[r].place
  BY <1>1
<1> HIDE DEF i, row
<1>4. Order!Idle \in [pc: {"idle", "place"}, i: Task \cup {None}, place: Int,
                      side: {"after", "before", "end"}, anchor: Task \cup {None}]
      /\ Order!Idle.pc = "idle"
  BY DEF Order!Idle
<1>5. PICK m \in Nat : \A j \in Task : item[j].place <= m /\ -m <= item[j].place
  BY <1>1 DEF OrderShape
<1>6. \E k \in Nat : m <= k /\ row.place <= k /\ -k <= row.place
  <2>1. CASE row.place >= 0
    BY <1>1, <1>3, <2>1
  <2>2. CASE row.place < 0
    BY <1>1, <1>3, <2>2
  <2> QED
    BY <1>1, <1>3, <2>1, <2>2
<1>7. PICK k \in Nat : m <= k /\ row.place <= k /\ -k <= row.place
  BY <1>6
<1>8. /\ \A j \in Task : item'[j] = IF j = i THEN row ELSE item[j]
      /\ \A j \in Task : item[j].place \in Int
  BY <1>1, <1>2 DEF OrderShape
<1>9. \A j \in Task : item'[j].place <= k /\ -k <= item'[j].place
  BY <1>5, <1>7, <1>8
<1>10. OrderShape'
  BY <1>1, <1>2, <1>3, <1>4, <1>9 DEF OrderShape
<1>11. \A q \in Request : itemReq'[q].pc = "idle"
  BY <1>1, <1>2, <1>4 DEF OrderShape
<1> QED
  BY <1>10, <1>11 DEF OrderInv

(* Items that leave, come back or are put at clean spacing, while no request waits. *)
LEMMA ListInv ==
    ASSUME Listable, OrderInv,
           \/ \E i \in Task : Order!Leave(i) \/ Order!Restore(i)
           \/ \E order \in Order!SetToSeqs({i \in Task : Order!Live(i)}) : Order!Rebalance(order)
    PROVE  OrderInv'
<1>1. OrderShape /\ itemReq' = itemReq /\ \A r \in Request : itemReq[r].pc = "idle"
  BY DEF OrderInv, Order!Leave, Order!Restore, Order!Rebalance, Order!Ready
<1>2. PICK m \in Nat : \A i \in Task : item[i].place <= m /\ -m <= item[i].place
  BY <1>1 DEF OrderShape
<1>3. ASSUME item' \in [Task -> [row: {"absent", "live", "deleted"}, place: Int]],
             \E k \in Nat : \A i \in Task : item'[i].place <= k /\ -k <= item'[i].place
      PROVE  OrderInv'
  BY <1>1, <1>3 DEF OrderInv, OrderShape
<1>4. ASSUME NEW i \in Task, Order!Leave(i) \/ Order!Restore(i)
      PROVE  OrderInv'
  <2>1. /\ item' \in [Task -> [row: {"absent", "live", "deleted"}, place: Int]]
        /\ \A j \in Task : item'[j].place = item[j].place
    BY <1>1, <1>4 DEF OrderShape, Order!Leave, Order!Restore
  <2> QED
    BY <1>2, <1>3, <2>1
<1>5. ASSUME NEW order \in Order!SetToSeqs({i \in Task : Order!Live(i)}), Order!Rebalance(order)
      PROVE  OrderInv'
  <2> DEFINE live == {i \in Task : Order!Live(i)}
             n == Cardinality(live)
             at(i) == CHOOSE k \in DOMAIN order : order[k] = i
  <2>1. IsFiniteSet(live) /\ n \in Nat
    BY FS_Subset, FS_CardinalityType DEF Listable
  <2>2. order \in [1 .. n -> live] /\ \A k, l \in 1 .. n : k # l => order[k] # order[l]
    BY <1>5 DEF Order!SetToSeqs, Order!Cardinality, Cardinality
  <2>3. \A i \in live : at(i) \in 1 .. n
    <3> HIDE DEF n, live
    <3>1. order \in Injection(1 .. n, live)
      BY <2>2 DEF Injection, IsInjective
    <3>2. IsFiniteSet(1 .. n) /\ Cardinality(1 .. n) = n
      BY <2>1, FS_Interval
    <3>3. order \in Surjection(1 .. n, live)
      BY <2>1, <3>1, <3>2, FS_Injection DEF n
    <3>4. \A i \in live : \E k \in 1 .. n : order[k] = i
      BY <3>3 DEF Surjection
    <3> QED
      BY <2>2, <3>4
  <2>4. /\ item' \in [Task -> [row: {"absent", "live", "deleted"}, place: Int]]
        /\ \A i \in Task : item'[i].place = IF i \in live THEN 2 * at(i) ELSE item[i].place
    <3>1. item' = [i \in Task |-> IF i \in live THEN [item[i] EXCEPT !.place = 2 * at(i)]
                                  ELSE item[i]]
      BY <1>5 DEF Order!Rebalance
    <3> HIDE DEF live, at, n
    <3>2. \A i \in live : 2 * at(i) \in Int
      BY <2>3
    <3> QED
      BY <1>1, <3>1, <3>2 DEF OrderShape
  <2> HIDE DEF live, n, at
  <2>5. \A i \in Task : item'[i].place <= m + 2 * n /\ -(m + 2 * n) <= item'[i].place
    <3>1. \A i \in Task : item[i].place \in Int
      BY <1>1 DEF OrderShape
    <3> QED
      BY <1>2, <2>1, <2>3, <2>4, <3>1
  <2>6. m + 2 * n \in Nat
    BY <2>1
  <2> QED
    BY <1>3, <2>4, <2>5, <2>6
<1> QED
  BY <1>4, <1>5

LEMMA OrderKeeps == ASSUME NoneApart, Listable PROVE WorkSpec => []OrderInv
<1>1. WorkInit => OrderInv
  BY OrderInit DEF WorkInit
<1>2. ASSUME OrderInv, [WorkNext]_workVars
      PROVE  OrderInv'
  <2>1. Order!Next \/ UNCHANGED orderVars
    BY <1>2 DEF WorkNext, workVars
  <2>2. CASE UNCHANGED orderVars
    BY <1>2, <2>2 DEF orderVars, OrderInv, OrderShape, PlaceStands, Others
  <2>3. CASE Order!Next
    BY <1>2, <2>3, ComputeInv, PlaceWriteInv, ListInv DEF Order!Next
  <2> QED
    BY <2>1, <2>2, <2>3
<1> QED
  BY <1>1, <1>2, PTL DEF WorkSpec

(* An item lands next to its anchor, or at the end, whatever happened to the list before
   (resolve_position() in domain/tasks.rs, reorder_columns() in routes/boards.rs). *)
THEOREM ItemsLandWhereDropped ==
    ASSUME NoneApart, Listable PROVE WorkSpec => LandsWhereDropped
<1> DEFINE Lands(r) ==
             LET i == itemReq[r].i
                 a == itemReq[r].anchor
                 here == item'[i].place
                 others == {item'[j].place : j \in {k \in Task \ {i} : item'[k].row = "live"}}
             IN CASE itemReq[r].side = "end" -> \A p \in others : p < here
                  [] itemReq[r].side = "after" /\ i # a ->
                       item'[a].place < here
                       /\ ~\E p \in others : item'[a].place < p /\ p <= here
                  [] itemReq[r].side = "before" /\ i # a ->
                       here < item'[a].place
                       /\ ~\E p \in others : here <= p /\ p < item'[a].place
                  [] OTHER -> TRUE
           Landing == \A r \in Request :
                        itemReq[r].pc = "place" /\ itemReq'[r].pc = "idle" => Lands(r)
<1>1. ASSUME OrderInv, NEW r \in Request, Order!Write(r)
      PROVE  Lands(r)
  <2> DEFINE q == itemReq[r]
             others == {item'[j].place : j \in {k \in Task \ {q.i} : item'[k].row = "live"}}
  <2>1. /\ PlaceStands(q) /\ q.i \in Task /\ OrderShape
        /\ item' = [item EXCEPT ![q.i] = [row |-> "live", place |-> q.place]]
    BY <1>1 DEF OrderInv, Order!Write, PlaceStands
  <2>2. /\ item'[q.i].place = q.place
        /\ \A j \in Task : j # q.i => item'[j] = item[j]
    BY <2>1 DEF OrderShape
  <2>3. others = Others(q.i)
    BY <2>2 DEF Others
  <2>4. /\ q.side = "end" => \A p \in others : p < item'[q.i].place
        /\ q.side = "after" /\ q.i # q.anchor =>
             /\ item'[q.anchor].place < item'[q.i].place
             /\ ~\E p \in others : item'[q.anchor].place < p /\ p <= item'[q.i].place
        /\ q.side = "before" /\ q.i # q.anchor =>
             /\ item'[q.i].place < item'[q.anchor].place
             /\ ~\E p \in others : item'[q.i].place <= p /\ p < item'[q.anchor].place
    <3> HIDE DEF others
    <3> QED
      BY <2>1, <2>2, <2>3 DEF PlaceStands
  <2> HIDE DEF q
  <2>5. q = itemReq[r]
    BY DEF q
  <2> QED
    BY <2>4, <2>5, Zenon
<1>2. ASSUME OrderInv, Order!Next \/ UNCHANGED orderVars
      PROVE  Landing
  <2> SUFFICES ASSUME NEW r \in Request, itemReq[r].pc = "place", itemReq'[r].pc = "idle"
               PROVE  Lands(r)
    OBVIOUS
  <2>1. Order!Write(r)
    <3>1. \A s \in Request : Order!Write(s) => s = r
      BY <1>2 DEF OrderInv, Order!Write
    <3>2. ~Order!Ready
      BY DEF Order!Ready
    <3>3. itemReq' # itemReq
      OBVIOUS
    <3> QED
      BY <1>2, <3>1, <3>2, <3>3
         DEF Order!Next, Order!ComputeEnd, Order!ComputeAfter, Order!ComputeBefore,
             Order!Compute, Order!Leave, Order!Restore, Order!Rebalance, orderVars
  <2> QED
    BY <1>1, <1>2, <2>1
<1> HIDE DEF Landing
<1>3. OrderInv /\ [WorkNext]_workVars => [Landing]_<<item, itemReq>>
  BY <1>2 DEF WorkNext, workVars
<1>4. WorkSpec => [][Landing]_<<item, itemReq>>
  BY <1>3, OrderKeeps, PTL DEF WorkSpec
<1> USE DEF Landing
<1> QED
  BY <1>4, PTL DEF LandsWhereDropped, Order!LandsWhereDropped, Order!vars


----------------------------------------------------------------------------
(* The types of the parts *)

LEMMA TimeTyped == WorkSpec => []TypeOK
<1>1. WorkInit => Init
  BY DEF WorkInit
<1>2. [WorkNext]_workVars => [Next]_vars
  BY DEF WorkNext, workVars
<1> QED
  BY <1>1, <1>2, TypeCorrect, PTL DEF WorkSpec, Spec

LEMMA RetroTyped == WorkSpec => []Wall!TypeOK
<1>1. WallFacts!Countable
  BY FS_Singleton DEF WallFacts!Countable, WallFacts!IsFiniteSet, IsFiniteSet
<1>2. WallFacts!Spec => []WallFacts!TypeOK
  BY <1>1, WallFacts!TypeCorrect
<1>3. WallFacts!TypeOK => Wall!TypeOK
  BY DEF Wall!TypeOK, Wall!NoteRow, Wall!RetroRow, Wall!Bullet, Wall!Kind, Wall!Cardinality,
         WallFacts!TypeOK, WallFacts!NoteRow, WallFacts!RetroRow, WallFacts!Bullet,
         WallFacts!Kind, WallFacts!Cardinality
<1> QED
  BY <1>2, <1>3, WallRuns, PTL

LEMMA ShopTyped == ASSUME NoneApart PROVE WorkSpec => []Shop!TypeOK
<1>1. ShopFacts!NoneApart
  BY DEF NoneApart, ShopFacts!NoneApart
<1>2. ShopFacts!Spec => []ShopFacts!TypeOK
  BY <1>1, ShopFacts!TypeCorrect
<1>3. ShopFacts!TypeOK => Shop!TypeOK
  BY DEF Shop!TypeOK, Shop!ProjectRow, Shop!TaskRow, Shop!Time,
         ShopFacts!TypeOK, ShopFacts!ProjectRow, ShopFacts!TaskRow, ShopFacts!Time
<1> QED
  BY <1>2, <1>3, ShopRuns, PTL

LEMMA MembersTyped == WorkSpec => []Members!TypeOK
<1>1. ShopFacts!Members!Spec => []ShopFacts!Members!TypeOK
  BY ShopFacts!MembersTypeCorrect
<1>2. ShopFacts!Members!TypeOK => Members!TypeOK
  BY DEF Members!TypeOK, Members!User, Members!ProjectRole,
         ShopFacts!Members!TypeOK, ShopFacts!Members!User, ShopFacts!Members!ProjectRole
<1> QED
  BY <1>1, <1>2, MembersRun, PTL

LEMMA BoardTyped == WorkSpec => [](part \in {"board", "columns"} => Board!TypeOK)
<1>1. BoardFacts!TypeOK => Board!TypeOK
  BY DEF Board!TypeOK, Board!ColumnRow, Board!TaskRow, Board!RequestRecord, Board!RowState, Board!Category,
         BoardFacts!TypeOK, BoardFacts!ColumnRow, BoardFacts!TaskRow, BoardFacts!RequestRecord,
         BoardFacts!RowState, BoardFacts!Category
<1>2. ColumnsFacts!TypeOK => Board!TypeOK
  BY DEF Board!TypeOK, Board!ColumnRow, Board!TaskRow, Board!RequestRecord, Board!RowState, Board!Category,
         ColumnsFacts!TypeOK, ColumnsFacts!ColumnRow, ColumnsFacts!TaskRow, ColumnsFacts!RequestRecord,
         ColumnsFacts!RowState, ColumnsFacts!Category
<1>3. BoardInv => (part \in {"board", "columns"} => Board!TypeOK)
  BY <1>1, <1>2 DEF BoardInv, BoardFacts!Inv, ColumnsFacts!SerialInv, ColumnsFacts!Inv
<1> QED
  BY <1>3, BoardRuns, PTL

LEMMA TalkTyped == ASSUME NoneApart PROVE WorkSpec => []Talk!TypeOK
<1>1. TalkInv => Talk!TypeOK
  BY DEF TalkInv
<1> QED
  BY <1>1, TalkKeeps, PTL

LEMMA OrderTyped == ASSUME NoneApart, Listable PROVE WorkSpec => []Order!TypeOK
<1>1. OrderInv => Order!TypeOK
  BY DEF OrderInv, OrderShape, Order!TypeOK, Order!ItemRow, Order!RequestRecord
<1> QED
  BY <1>1, OrderKeeps, PTL

(* Places are numbers, and what a drag lists are tasks. *)
FamilyTyped ==
    /\ \A t \in Task : family[t].position \in Nat
    /\ \A r \in Request : familyReq[r].order \in Seq(Task)

LEMMA FamilyRowStep ==
    ASSUME FamilyShape, FamilyTyped,
           \/ \E p \in Task \cup {None} : Family!CreateTask(p) \/ Drag!CreateTask(p)
           \/ \E t \in Task : \/ Family!DeleteTask(t) \/ Family!RestoreTask(t) \/ Family!Promote(t)
                              \/ Drag!DeleteTask(t) \/ Drag!RestoreTask(t) \/ Drag!Promote(t)
    PROVE  FamilyTyped'
<1>1. ASSUME NEW p, Family!CreateTask(p)
      PROVE  FamilyTyped'
  <2> DEFINE place == IF p = None THEN 0 ELSE Family!NextPosition(p, Family!NewTask)
  <2>1. place \in Nat
    BY <1>1 DEF Family!CreateTask, Family!Position
  <2>2. /\ family' = [family EXCEPT ![Family!NewTask] =
                        [row |-> "live", parent |-> p, position |-> place]]
        /\ familyReq' = familyReq
    BY <1>1 DEF Family!CreateTask
  <2> HIDE DEF place
  <2> QED
    BY <2>1, <2>2 DEF FamilyShape, FamilyTyped
<1>2. ASSUME NEW p, Drag!CreateTask(p)
      PROVE  FamilyTyped'
  <2> DEFINE place == IF p = None THEN 0 ELSE Drag!NextPosition(p, Drag!NewTask)
  <2>1. place \in Nat
    BY <1>2 DEF Drag!CreateTask, Drag!Position
  <2>2. /\ family' = [family EXCEPT ![Drag!NewTask] =
                        [row |-> "live", parent |-> p, position |-> place]]
        /\ familyReq' = familyReq
    BY <1>2 DEF Drag!CreateTask
  <2> HIDE DEF place
  <2> QED
    BY <2>1, <2>2 DEF FamilyShape, FamilyTyped
<1>3. ASSUME NEW t \in Task, Family!DeleteTask(t) \/ Family!RestoreTask(t)
                             \/ Drag!DeleteTask(t) \/ Drag!RestoreTask(t)
      PROVE  FamilyTyped'
  <2>1. PICK row \in {"live", "deleted"} :
          family' = [family EXCEPT ![t].row = row] /\ familyReq' = familyReq
    BY <1>3 DEF Family!DeleteTask, Family!RestoreTask, Drag!DeleteTask, Drag!RestoreTask
  <2>2. \A s \in Task : family[s] \in [row: {"absent", "live", "deleted"},
                                       parent: Task \cup {None}, position: Nat]
    BY DEF FamilyShape, FamilyTyped
  <2>3. \A s \in Task : family'[s] = IF s = t THEN [family[s] EXCEPT !.row = row] ELSE family[s]
    BY <2>1 DEF FamilyShape
  <2>4. \A s \in Task : family'[s].position = family[s].position
    BY <2>2, <2>3
  <2> QED
    BY <2>1, <2>4 DEF FamilyTyped
<1>4. ASSUME NEW t \in Task, Family!Promote(t) \/ Drag!Promote(t)
      PROVE  FamilyTyped'
  <2>1. /\ family' = [family EXCEPT ![t].parent = None, ![t].position = 0]
        /\ familyReq' = familyReq
    BY <1>4 DEF Family!Promote, Drag!Promote
  <2>2. \A s \in Task : family[s] \in [row: {"absent", "live", "deleted"},
                                       parent: Task \cup {None}, position: Nat]
    BY DEF FamilyShape, FamilyTyped
  <2>3. \A s \in Task : family'[s] = IF s = t THEN [family[s] EXCEPT !.parent = None, !.position = 0]
                                              ELSE family[s]
    BY <2>1, <2>2 DEF FamilyShape
  <2>4. \A s \in Task : family'[s].position = IF s = t THEN 0 ELSE family[s].position
    BY <2>2, <2>3
  <2>5. \A s \in Task : family'[s].position \in Nat
    BY <2>4 DEF FamilyTyped
  <2> QED
    BY <2>1, <2>5 DEF FamilyTyped
<1> QED
  BY <1>1, <1>2, <1>3, <1>4

LEMMA FamilyRequestStep ==
    ASSUME Listable, FamilyShape, FamilyTyped, NEW r \in Request,
           \/ \E t, p \in Task : Family!SetParentResolve(r, t, p) \/ Drag!SetParentResolve(r, t, p)
           \/ \E p \in Task : \E order \in Drag!SetToSeqs(Drag!Children(p)) : Drag!ReorderLock(r, p, order)
           \/ Family!ParentRead(r) \/ Family!ChildrenCount(r)
           \/ Drag!ParentRead(r) \/ Drag!ChildrenCount(r)
    PROVE  FamilyTyped'
<1>1. family' = family
  BY DEF Family!SetParentResolve, Drag!SetParentResolve, Drag!ReorderLock, Family!ParentRead,
         Family!ChildrenCount, Drag!ParentRead, Drag!ChildrenCount
<1>2. ASSUME NEW q, familyReq' = [familyReq EXCEPT ![r] = q], q.order \in Seq(Task)
      PROVE  FamilyTyped'
  BY <1>1, <1>2 DEF FamilyShape, FamilyTyped
<1>3. ASSUME NEW t \in Task, NEW p \in Task,
             Family!SetParentResolve(r, t, p) \/ Drag!SetParentResolve(r, t, p)
      PROVE  FamilyTyped'
  <2> DEFINE q == [pc |-> "parent", t |-> t, p |-> p, order |-> <<>>]
  <2>1. familyReq' = [familyReq EXCEPT ![r] = q]
    BY <1>3 DEF Family!SetParentResolve, Drag!SetParentResolve, Family!Idle, Drag!Idle
  <2>2. q.order \in Seq(Task)
    OBVIOUS
  <2> HIDE DEF q
  <2> QED
    BY <1>2, <2>1, <2>2
<1>4. ASSUME NEW p \in Task, NEW order \in Drag!SetToSeqs(Drag!Children(p)), Drag!ReorderLock(r, p, order)
      PROVE  FamilyTyped'
  <2> DEFINE q == [Drag!Idle EXCEPT !.pc = "reorder", !.t = p, !.order = order]
  <2>1. familyReq' = [familyReq EXCEPT ![r] = q]
    BY <1>4 DEF Drag!ReorderLock
  <2>2. Drag!Children(p) \subseteq Task
    BY DEF Drag!Children
  <2>3. IsFiniteSet(Drag!Children(p)) /\ Cardinality(Drag!Children(p)) \in Nat
    BY <2>2, FS_Subset, FS_CardinalityType DEF Listable
  <2>4. order \in Seq(Task)
    <3> DEFINE n == Cardinality(Drag!Children(p))
    <3>1. order \in [1 .. n -> Drag!Children(p)]
      BY DEF Drag!SetToSeqs, Drag!Cardinality, Cardinality
    <3> HIDE DEF n
    <3>2. order \in [1 .. n -> Task] /\ n \in Nat
      BY <2>2, <2>3, <3>1 DEF n
    <3> QED
      BY <3>2
  <2>5. q.order \in Seq(Task)
    <3>1. q.order = order
      BY DEF Drag!Idle
    <3> QED
      BY <2>4, <3>1
  <2> HIDE DEF q
  <2> QED
    BY <1>2, <2>1, <2>5
<1>5. ASSUME Family!ParentRead(r) \/ Family!ChildrenCount(r) \/ Drag!ParentRead(r) \/ Drag!ChildrenCount(r)
      PROVE  FamilyTyped'
  <2>1. CASE \E pc \in {"children", "set_parent"} : familyReq' = [familyReq EXCEPT ![r].pc = pc]
    <3>1. PICK pc \in {"children", "set_parent"} : familyReq' = [familyReq EXCEPT ![r].pc = pc]
      BY <2>1
    <3>2. familyReq[r] \in RequestLike(familyReq[r].order) /\ familyReq[r].order \in Seq(Task)
      BY DEF FamilyShape, FamilyTyped
    <3>3. [familyReq[r] EXCEPT !.pc = pc].order = familyReq[r].order
      BY <3>2 DEF RequestLike
    <3> QED
      BY <1>2, <3>1, <3>2, <3>3
  <2>2. CASE familyReq' = [familyReq EXCEPT ![r] = Family!Idle]
    <3>1. Family!Idle.order \in Seq(Task)
      BY DEF Family!Idle
    <3> QED
      BY <1>2, <2>2, <3>1
  <2>3. CASE familyReq' = [familyReq EXCEPT ![r] = Drag!Idle]
    <3>1. Drag!Idle.order \in Seq(Task)
      BY DEF Drag!Idle
    <3> QED
      BY <1>2, <2>3, <3>1
  <2> QED
    BY <1>5, <2>1, <2>2, <2>3 DEF Family!ParentRead, Family!ChildrenCount, Drag!ParentRead,
                                  Drag!ChildrenCount, Family!Finish, Drag!Finish
<1> QED
  BY <1>3, <1>4, <1>5

LEMMA FamilyWriteStep ==
    ASSUME FamilyShape, FamilyTyped, NEW r \in Request,
           \/ Family!SetParentUpdate(r) \/ Drag!SetParentUpdate(r) \/ Drag!ReorderWrite(r)
    PROVE  FamilyTyped'
<1>1. \A q \in Request : familyReq'[q].order \in Seq(Task)
  <2>1. Family!Idle.order \in Seq(Task) /\ Drag!Idle.order \in Seq(Task)
    BY DEF Family!Idle, Drag!Idle
  <2>2. ASSUME NEW q, familyReq' = [familyReq EXCEPT ![r] = q], q.order \in Seq(Task)
        PROVE  \A s \in Request : familyReq'[s].order \in Seq(Task)
    BY <2>2 DEF FamilyShape, FamilyTyped
  <2>3. \/ familyReq' = [familyReq EXCEPT ![r] = Family!Idle]
        \/ familyReq' = [familyReq EXCEPT ![r] = Drag!Idle]
    BY DEF Family!SetParentUpdate, Drag!SetParentUpdate, Drag!ReorderWrite, Family!Finish, Drag!Finish
  <2> QED
    BY <2>1, <2>2, <2>3
<1>2. \A s \in Task : family[s] \in [row: {"absent", "live", "deleted"},
                                     parent: Task \cup {None}, position: Nat]
  BY DEF FamilyShape, FamilyTyped
<1>3. ASSUME Family!SetParentUpdate(r) \/ Drag!SetParentUpdate(r)
      PROVE  FamilyTyped'
  <2>1. ASSUME NEW t, NEW p, NEW place \in Nat,
               family' = [family EXCEPT ![t].parent = p, ![t].position = place]
        PROVE  FamilyTyped'
    <3>1. \A s \in Task : family'[s] = IF s = t THEN [family[s] EXCEPT !.parent = p, !.position = place]
                                                ELSE family[s]
      BY <1>2, <2>1 DEF FamilyShape
    <3>2. \A s \in Task : family'[s].position = IF s = t THEN place ELSE family[s].position
      BY <1>2, <3>1
    <3>3. \A s \in Task : family'[s].position \in Nat
      BY <1>2, <3>2
    <3> QED
      BY <1>1, <3>3 DEF FamilyTyped
  <2>2. CASE Family!SetParentUpdate(r)
    <3> DEFINE t == familyReq[r].t
               p == familyReq[r].p
               place == Family!NextPosition(p, t)
    <3>1. place \in Nat /\ family' = [family EXCEPT ![t].parent = p, ![t].position = place]
      BY <2>2 DEF Family!SetParentUpdate, Family!Position
    <3> HIDE DEF t, p, place
    <3> QED
      BY <2>1, <3>1
  <2>3. CASE Drag!SetParentUpdate(r)
    <3> DEFINE t == familyReq[r].t
               p == familyReq[r].p
               place == Drag!NextPosition(p, t)
    <3>1. place \in Nat /\ family' = [family EXCEPT ![t].parent = p, ![t].position = place]
      BY <2>3 DEF Drag!SetParentUpdate, Drag!Position
    <3> HIDE DEF t, p, place
    <3> QED
      BY <2>1, <3>1
  <2> QED
    BY <1>3, <2>2, <2>3
<1>4. ASSUME Drag!ReorderWrite(r)
      PROVE  FamilyTyped'
  <2> DEFINE p == familyReq[r].t
             order == familyReq[r].order
             At(t) == CHOOSE i \in 1 .. Len(order) : order[i] = t
  <2>1. order \in Seq(Task)
    BY DEF FamilyTyped
  <2>2. \A t \in Task : family'[t] = IF t \in Drag!ToSet(order) /\ t \in Drag!Children(p)
                                       THEN [family[t] EXCEPT !.position = At(t)] ELSE family[t]
    BY <1>4 DEF Drag!ReorderWrite, Drag!Placed
  <2>3. ASSUME NEW t \in Drag!ToSet(order)
        PROVE  At(t) \in Nat
    <3>1. \E i \in 1 .. Len(order) : order[i] = t
      BY <2>1 DEF Drag!ToSet
    <3>2. At(t) \in 1 .. Len(order)
      BY <3>1
    <3>3. Len(order) \in Nat
      BY <2>1
    <3> QED
      BY <3>2, <3>3
  <2> HIDE DEF At, order, p
  <2>4. \A t \in Task : family'[t].position \in {At(t), family[t].position}
                        /\ (family'[t].position # family[t].position => t \in Drag!ToSet(order))
    BY <1>2, <2>2
  <2> QED
    BY <1>1, <2>3, <2>4 DEF FamilyTyped
<1> QED
  BY <1>3, <1>4

LEMMA FamiliesTyped == ASSUME NoneApart, Listable PROVE WorkSpec => []Drag!TypeOK
<1> DEFINE Kept == (part = "family" => FamilyInv) /\ (part # "family" => DragInv)
<1>1. WorkInit => FamilyTyped
  <2>1. Drag!Idle.order \in Seq(Task) /\ Drag!NoTask.position \in Nat
    BY DEF Drag!Idle, Drag!NoTask
  <2> QED
    BY <2>1 DEF WorkInit, Drag!Init, FamilyTyped
<1>2. Kept => FamilyShape
  BY DEF FamilyInv, DragInv
<1>3. ASSUME FamilyShape, FamilyTyped, Kept, [WorkNext]_workVars
      PROVE  FamilyTyped'
  <2>1. (Family!Next /\ part = "family") \/ Drag!Next \/ UNCHANGED familyVars
    BY <1>3 DEF WorkNext, workVars
  <2>2. ASSUME NEW r \in Request, Family!ReorderWrite(r), part = "family"
        PROVE  FALSE
    BY <1>3, <2>2 DEF Family!ReorderWrite, FamilyInv, ParentChecked
  <2>3. ASSUME NEW r \in Request, NEW p \in Task, NEW order, Family!ReorderLock(r, p, order)
        PROVE  FALSE
    BY <2>3 DEF Family!ReorderLock
  <2>4. CASE Family!Next /\ part = "family"
    BY <1>3, <2>2, <2>3, <2>4, FamilyRowStep, FamilyRequestStep, FamilyWriteStep DEF Family!Next
  <2>5. CASE Drag!Next
    BY <1>3, <2>5, FamilyRowStep, FamilyRequestStep, FamilyWriteStep DEF Drag!Next
  <2>6. CASE UNCHANGED familyVars
    BY <1>3, <2>6 DEF familyVars, FamilyTyped
  <2> QED
    BY <2>1, <2>4, <2>5, <2>6
<1>4. FamilyShape /\ FamilyTyped => Drag!TypeOK
  <2> SUFFICES ASSUME FamilyShape, FamilyTyped PROVE Drag!TypeOK
    OBVIOUS
  <2>1. family \in [Task -> Drag!TaskRow]
    <3>1. \A t \in Task : family[t] \in Drag!TaskRow
      BY DEF FamilyShape, FamilyTyped, Drag!TaskRow
    <3> QED
      BY <3>1 DEF FamilyShape
  <2>2. ASSUME NEW r \in Request
        PROVE  /\ familyReq[r].pc \in {"idle", "parent", "children", "set_parent", "reorder"}
               /\ {familyReq[r].t, familyReq[r].p} \subseteq Task \cup {None}
               /\ Drag!ToSet(familyReq[r].order) \subseteq Task
    <3>1. familyReq[r] \in RequestLike(familyReq[r].order) /\ familyReq[r].order \in Seq(Task)
      BY DEF FamilyShape, FamilyTyped
    <3>2. Drag!ToSet(familyReq[r].order) \subseteq Task
      BY <3>1 DEF Drag!ToSet
    <3> QED
      BY <3>1, <3>2 DEF RequestLike
  <2> QED
    BY <2>1, <2>2 DEF Drag!TypeOK
<1> QED
  BY <1>1, <1>2, <1>3, <1>4, FamiliesKeep, PTL DEF WorkSpec

(* Templates are made in projects: there is one. *)
Populated == Project # {}

TemplatesTyped ==
    /\ clock <= 2
    /\ \A t \in Template : template[t].project \in Project
    /\ project \in [Project -> {"live", "unusable"}]
    /\ torn \subseteq Template

LEMMA TemplatesStep ==
    ASSUME TemplateInv, TemplatesTyped, Templates!Next
    PROVE  TemplatesTyped'
<1>0. /\ clock \in Nat /\ template = [t \in Template |-> template[t]]
      /\ \A t \in Template : template[t] \in [row: {"absent", "live"}, project: Project,
                               recurrence: {"none", "daily", "weekly"}, next: Nat \cup {None}]
  BY DEF TemplateInv, TemplateShape, TemplatesTyped
<1>1. ASSUME NEW t \in Template, NEW p \in Project, NEW recurrence, Templates!Create(t, p, recurrence)
      PROVE  TemplatesTyped'
  <2> DEFINE row == [row |-> "live", project |-> p, recurrence |-> recurrence,
                     next |-> Templates!NextRun(recurrence, clock)]
  <2>1. row.project = p
    OBVIOUS
  <2>2. /\ template' = [template EXCEPT ![t] = row] /\ torn' = torn \ {t}
        /\ clock' = clock /\ project' = project
    BY <1>1 DEF Templates!Create
  <2> HIDE DEF row
  <2>3. \A s \in Template : template'[s].project \in Project
    BY <1>0, <2>1, <2>2 DEF TemplatesTyped
  <2> QED
    BY <2>2, <2>3 DEF TemplatesTyped
<1>2. ASSUME NEW t \in Template, NEW recurrence, Templates!Update(t, recurrence)
      PROVE  TemplatesTyped'
  <2> DEFINE next == Templates!NextRun(recurrence, clock)
  <2>1. /\ template' = [template EXCEPT ![t].recurrence = recurrence, ![t].next = next]
        /\ UNCHANGED <<clock, project, torn>>
    BY <1>2 DEF Templates!Update
  <2> HIDE DEF next
  <2>2. \A s \in Template :
          template'[s] = IF s = t THEN [template[s] EXCEPT !.recurrence = recurrence, !.next = next]
                                  ELSE template[s]
    BY <1>0, <2>1
  <2>3. \A s \in Template : template'[s].project = template[s].project
    BY <1>0, <2>2
  <2> QED
    BY <2>1, <2>3 DEF TemplatesTyped
<1>3. ASSUME NEW t \in Template, Templates!Discard(t)
      PROVE  TemplatesTyped'
  <2> DEFINE row == Templates!NoTemplate(template[t].project)
  <2>1. row.project = template[t].project
    BY DEF Templates!NoTemplate
  <2>2. template' = [template EXCEPT ![t] = row] /\ UNCHANGED <<clock, project, torn>>
    BY <1>3 DEF Templates!Discard
  <2> HIDE DEF row
  <2>3. \A s \in Template : template'[s].project \in Project
    BY <1>0, <2>1, <2>2 DEF TemplatesTyped
  <2> QED
    BY <2>2, <2>3 DEF TemplatesTyped
<1>4. ASSUME NEW p \in Project, Templates!ProjectGoes(p)
      PROVE  TemplatesTyped'
  BY <1>4 DEF Templates!ProjectGoes, TemplatesTyped
<1>5. ASSUME Templates!Tick
      PROVE  TemplatesTyped'
  BY <1>0, <1>5 DEF Templates!Tick, TemplatesTyped
<1>6. ASSUME Templates!Scan \/ Templates!Spawn \/ Templates!SpawnFails
      PROVE  TemplatesTyped'
  BY <1>6 DEF Templates!Scan, Templates!Spawn, Templates!SpawnFails, TemplatesTyped
<1>7. ASSUME Templates!Advance
      PROVE  TemplatesTyped'
  <2> DEFINE t == Head(spawner.due).t
             next == Templates!NextAfter(Head(spawner.due), spawner.at)
  <2>1. /\ template' \in {template, [template EXCEPT ![t].next = next]}
        /\ torn' = torn \ {t} /\ clock' = clock /\ project' = project
    BY <1>7 DEF Templates!Advance
  <2> HIDE DEF t, next
  <2>2. \A s \in Template : template'[s] \in {template[s], [template[s] EXCEPT !.next = next]}
    BY <1>0, <2>1
  <2>3. \A s \in Template : template'[s].project = template[s].project
    BY <1>0, <2>2
  <2> QED
    BY <2>1, <2>3 DEF TemplatesTyped
<1>8. ASSUME Templates!Crash
      PROVE  TemplatesTyped'
  <2>1. Head(spawner.due).t \in Template
    <3>1. spawner.due # <<>>
      BY <1>8 DEF Templates!Crash, TemplateInv, QueueShape
    <3>2. 1 \in 1 .. Len(spawner.due) /\ Head(spawner.due) = spawner.due[1]
      BY <3>1, QueueRows DEF TemplateInv
    <3> QED
      BY <3>2, QueueRows DEF TemplateInv
  <2> QED
    BY <1>8, <2>1 DEF Templates!Crash, TemplatesTyped
<1> QED
  BY <1>1, <1>2, <1>3, <1>4, <1>5, <1>6, <1>7, <1>8 DEF Templates!Next, Templates!Work

LEMMA TemplatesAreTyped ==
    ASSUME NoneApart, Countable, Populated PROVE WorkSpec => []Templates!TypeOK
<1>1. WorkInit => TemplatesTyped
  <2>1. (CHOOSE p \in Project : TRUE) \in Project
    BY DEF Populated
  <2> QED
    BY <2>1 DEF WorkInit, Templates!Init, Templates!NoTemplate, TemplatesTyped
<1>2. TemplateInv /\ TemplatesTyped /\ [WorkNext]_workVars => TemplatesTyped'
  <2> SUFFICES ASSUME TemplateInv, TemplatesTyped, [WorkNext]_workVars PROVE TemplatesTyped'
    OBVIOUS
  <2>1. Templates!Next \/ UNCHANGED templateVars
    BY DEF WorkNext, workVars
  <2>2. CASE UNCHANGED templateVars
    BY <2>2 DEF templateVars, TemplatesTyped
  <2> QED
    BY <2>1, <2>2, TemplatesStep
<1>3. TemplateInv /\ TemplatesTyped => Templates!TypeOK
  <2> SUFFICES ASSUME TemplateInv, TemplatesTyped PROVE Templates!TypeOK
    OBVIOUS
  <2>1. clock \in 0 .. 2
    BY DEF TemplateInv, TemplateShape, TemplatesTyped
  <2>2. template \in [Template -> Templates!TemplateRow]
    <3>1. \A t \in Template : template[t] \in Templates!TemplateRow
      BY Recurrences DEF TemplateInv, TemplateShape, TemplatesTyped, Templates!TemplateRow
    <3> QED
      BY <3>1 DEF TemplateInv, TemplateShape
  <2>3. /\ spawner.pc \in {"idle", "spawn", "advance"}
        /\ \A d \in Templates!ToSet(spawner.due) : d \in Templates!Due
    <3>1. spawner.pc \in {"idle", "spawn", "advance"} /\ spawner.due \in Seq(Templates!Due)
      BY QueueRows DEF TemplateInv
    <3> QED
      BY <3>1 DEF Templates!ToSet
  <2>4. last \in [Template -> Nat \cup {None}]
    BY DEF TemplateInv, TemplateShape
  <2> QED
    BY <2>1, <2>2, <2>3, <2>4 DEF TemplatesTyped, Templates!TypeOK
<1> QED
  BY <1>1, <1>2, <1>3, TemplatesKeep, PTL DEF WorkSpec

(* Whatever part a behaviour moves, its rows and its requests keep their types: time,
   boards, families, lists, retros, templates, members, projects and conversations
   (routes/tasks.rs, routes/task_detail.rs, routes/boards.rs, routes/retros.rs,
   routes/templates.rs, routes/projects.rs). *)
THEOREM ItemsTyped ==
    ASSUME NoneApart, Countable, Listable, Populated
    PROVE  WorkSpec => []TypesOK
<1> DEFINE Part == part \in {"time", "board", "columns", "family", "drag", "order", "retro", "templates",
                             "members", "projects", "talk"}
           OnBoard == part \in {"board", "columns"} => Board!TypeOK
<1>1. WorkInit => Part
  BY DEF WorkInit
<1>2. Part /\ [WorkNext]_workVars => Part'
  BY DEF WorkNext, workVars
<1>3. WorkSpec => []Part
  BY <1>1, <1>2, PTL DEF WorkSpec
<1>4. Part /\ TypeOK /\ OnBoard /\ Drag!TypeOK /\ Order!TypeOK /\ Wall!TypeOK /\ Templates!TypeOK
        /\ Members!TypeOK /\ Shop!TypeOK /\ Talk!TypeOK
        => TypesOK
  BY DEF TypesOK
<1> QED
  BY <1>3, <1>4, TimeTyped, BoardTyped, FamiliesTyped, OrderTyped, RetroTyped, TemplatesAreTyped,
     MembersTyped, ShopTyped, TalkTyped, PTL
=============================================================================
