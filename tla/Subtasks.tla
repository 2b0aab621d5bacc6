------------------------------- MODULE Subtasks -------------------------------
(***************************************************************************)
(* Which task is a subtask of which, and in what order:                    *)
(* set_parent() and reorder_subtasks() of                                  *)
(* apps/api/src/routes/task_detail.rs, with create_task(), delete_task()   *)
(* and restore_task() of apps/api/src/routes/tasks.rs.                     *)
(***************************************************************************)
EXTENDS Naturals, FiniteSets, SequencesExt, FiniteSetsExt

CONSTANTS
    Task,         \* ids a row of tasks may take: bounds the rows
    Request,      \* slots for handlers in flight: the bound on concurrency
    Handlers,     \* which of the handlers in HandlerName run
    Overlap,      \* whether handlers overlap, or run one request at a time
    MaxPosition,  \* bounds tasks.subtask_position
    None          \* no value

HandlerName == {"set_parent", "promote", "reorder", "delete", "restore"}

VARIABLES
    task,  \* table tasks
    req    \* the handlers in flight

vars == <<task, req>>

----------------------------------------------------------------------------
Position == 0 .. MaxPosition

(* position 0 stands for NULL. *)
TaskRow == [row: {"absent", "live", "deleted"}, parent: Task \cup {None}, position: Nat]

(* order is the body of a reorder: the keys in the wanted order. *)
RequestRecord ==
    [pc: {"idle", "parent", "children", "set_parent", "reorder"},
     t: Task \cup {None}, p: Task \cup {None}, order: Seq(Task)]

NoTask == [row |-> "absent", parent |-> None, position |-> 0]
Idle == [pc |-> "idle", t |-> None, p |-> None, order |-> <<>>]

(* Which unused id a new row takes makes no difference. *)
NewTask == CHOOSE t \in Task : task[t].row = "absent"

Live(t) == task[t].row = "live"
Children(p) == {t \in Task : Live(t) /\ task[t].parent = p}

Init ==
    /\ task = [t \in Task |-> NoTask]
    /\ req = [r \in Request |-> Idle]

Ready == Overlap \/ \A r \in Request : req[r].pc = "idle"

(* SELECT ... FOR UPDATE of a family: writers of its rows wait. *)
NeverLocked(t) == FALSE

FamilyLocked(t) == \E r \in Request : req[r].pc = "reorder" /\ t \in ToSet(req[r].order)

Finish(r) == req' = [req EXCEPT ![r] = Idle]

----------------------------------------------------------------------------
(* COALESCE(MAX(subtask_position), 0) + 1 over the live subtasks but t. *)
NextPosition(p, t) == Max({task[s].position : s \in Children(p) \ {t}} \cup {0}) + 1

(* create_task(): parent_task_id is taken as the body has it, a subtask or a
   deleted task too. *)
CreateTask(p) ==
    /\ Ready /\ \E t \in Task : task[t].row = "absent"
    /\ p # None => task[p].row # "absent" /\ NextPosition(p, NewTask) \in Position
    /\ task' = [task EXCEPT ![NewTask] =
                  [row |-> "live", parent |-> p,
                   position |-> IF p = None THEN 0 ELSE NextPosition(p, NewTask)]]
    /\ UNCHANGED req

(* delete_task(), restore_task(): one row each, whatever its family. *)
DeleteTask(t) ==
    /\ Ready /\ "delete" \in Handlers /\ Live(t) /\ ~FamilyLocked(t)
    /\ task' = [task EXCEPT ![t].row = "deleted"]
    /\ UNCHANGED req

RestoreTask(t) ==
    /\ Ready /\ "restore" \in Handlers /\ task[t].row = "deleted"
    /\ task' = [task EXCEPT ![t].row = "live"]
    /\ UNCHANGED req

----------------------------------------------------------------------------
(* set_parent() without a parent: promote to a top-level task. *)
Promote(t) ==
    /\ Ready /\ "promote" \in Handlers /\ Live(t) /\ ~FamilyLocked(t)
    /\ task' = [task EXCEPT ![t].parent = None, ![t].position = 0]
    /\ UNCHANGED req

(* set_parent(): three reads, each a statement, then the UPDATE by id. *)
SetParentResolve(r, t, p) ==
    /\ Ready /\ "set_parent" \in Handlers /\ req[r].pc = "idle"
    /\ Live(t)
    /\ req' = [req EXCEPT ![r] = [Idle EXCEPT !.pc = "parent", !.t = t, !.p = p]]
    /\ UNCHANGED task

(* The parent is live, another task, and no subtask itself. *)
AcceptableParent(t, p) == Live(p) /\ p # t /\ task[p].parent = None

ParentRead(r) ==
    /\ req[r].pc = "parent"
    /\ IF AcceptableParent(req[r].t, req[r].p)
         THEN req' = [req EXCEPT ![r].pc = "children"]
         ELSE Finish(r)
    /\ UNCHANGED task

(* "this task has subtasks of its own" *)
ChildrenCount(r) ==
    /\ req[r].pc = "children"
    /\ IF Children(req[r].t) = {}
         THEN req' = [req EXCEPT ![r].pc = "set_parent"]
         ELSE Finish(r)
    /\ UNCHANGED task

SetParentUpdate(r) ==
    LET t == req[r].t  p == req[r].p IN
    /\ req[r].pc = "set_parent" /\ ~FamilyLocked(t)
    /\ NextPosition(p, t) \in Position
    /\ task' = [task EXCEPT ![t].parent = p, ![t].position = NextPosition(p, t)]
    /\ Finish(r)

----------------------------------------------------------------------------
(* reorder_subtasks(): the family is locked and compared with the keys of the
   body, then each named row takes its place. *)
ReorderLock(r, p, order) ==
    /\ Ready /\ "reorder" \in Handlers /\ req[r].pc = "idle"
    /\ Live(p) /\ Children(p) # {}
    /\ \A t \in Children(p) : ~FamilyLocked(t)
    /\ ToSet(order) = Children(p) /\ Len(order) = Cardinality(Children(p))
    /\ req' = [req EXCEPT ![r] = [Idle EXCEPT !.pc = "reorder", !.t = p, !.order = order]]
    /\ UNCHANGED task

Placed(p, order) ==
    [t \in Task |->
        IF t \in ToSet(order) /\ t \in Children(p)
          THEN [task[t] EXCEPT !.position = CHOOSE i \in 1 .. Len(order) : order[i] = t]
          ELSE task[t]]

ReorderWrite(r) ==
    /\ req[r].pc = "reorder"
    /\ task' = Placed(req[r].t, req[r].order)
    /\ Finish(r)

----------------------------------------------------------------------------
Next ==
    \/ \E p \in Task \cup {None} : CreateTask(p)
    \/ \E t \in Task : DeleteTask(t) \/ RestoreTask(t) \/ Promote(t)
    \/ \E r \in Request, t, p \in Task : SetParentResolve(r, t, p)
    \/ \E r \in Request : ParentRead(r) \/ ChildrenCount(r) \/ SetParentUpdate(r) \/ ReorderWrite(r)
    \/ \E r \in Request, p \in Task : \E order \in SetToSeqs(Children(p)) : ReorderLock(r, p, order)

Spec == Init /\ [][Next]_vars

----------------------------------------------------------------------------
TypeOK ==
    /\ task \in [Task -> TaskRow]
    /\ \A r \in Request :
         /\ req[r].pc \in {"idle", "parent", "children", "set_parent", "reorder"}
         /\ {req[r].t, req[r].p} \subseteq Task \cup {None}
         /\ ToSet(req[r].order) \subseteq Task

(* A drag holds the family it was shown: between its comparison and its write
   no subtask it names is deleted, promoted or moved to another parent, however
   many drags and moves overlap (reorder_subtasks). *)
DraggedFamilyStays ==
    \A r \in Request : req[r].pc = "reorder" => ToSet(req[r].order) \subseteq Children(req[r].t)

(* Whatever is created, deleted, restored and given another parent, one
   request at a time, no tasks are each other's parents: among any tasks, one has
   its parent elsewhere or none.  A ring of subtasks would be on no board and in
   no panel, with nothing left to promote it from (set_parent). *)
NoFamilyCycle ==
    \A S \in SUBSET Task : S # {} => \E t \in S : task[t].parent \notin S

=============================================================================
