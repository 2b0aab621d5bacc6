----------------------------- MODULE MCWorkItems -----------------------------
(***************************************************************************)
(* The components around a task, for TLC.  They share no rows that their   *)
(* properties are about, so a behaviour moves one of them, the part chosen *)
(* at its start, and leaves the others as they began.  The part "time" is  *)
(* TimeTracking as it stands, one request at a time.                       *)
(***************************************************************************)
EXTENDS TimeTracking

CONSTANTS
    Task, Card, Column, Template, Project,
    Colleague, Comment, Slot  \* of a conversation: who takes part, comments, requests in flight

VARIABLES
    part,
    column, task, seq, boardReq,
    family, familyReq,
    item, itemReq,
    note, retro, made, retroReq,
    clock, template, project, spawner, last, torn,
    role, archived,
    moment, home, work, link, took,
    comment, watching, assignee, desc, notice, ping, talkReq

Board == INSTANCE TaskBoard
    WITH Task <- Card, Handlers <- {"create", "move", "bulk", "edit_column", "restore"},
         Overlap <- TRUE, MaxSeq <- 2, req <- boardReq

Columns == INSTANCE TaskBoard
    WITH Task <- Card, Handlers <- {"create", "move", "bulk", "edit_column", "delete_column"},
         Overlap <- FALSE, MaxSeq <- 2, req <- boardReq

Family == INSTANCE Subtasks
    WITH Handlers <- {"set_parent", "promote", "delete", "restore"}, Overlap <- FALSE,
         MaxPosition <- 2, task <- family, req <- familyReq

Drag == INSTANCE Subtasks
    WITH Handlers <- {"set_parent", "reorder", "delete"}, Overlap <- TRUE,
         MaxPosition <- 2, task <- family, req <- familyReq

Order == INSTANCE BoardOrder
    WITH Item <- Task, Overlap <- FALSE, Gap <- 2, MaxPlace <- 6, req <- itemReq

Wall == INSTANCE Retro
    WITH Note <- Card, User <- {"ann"}, Admin <- {}, Body <- {"a", "b"}, Request <- {"only"},
         Overlap <- FALSE, req <- retroReq

Templates == INSTANCE RecurringTemplates
    WITH Period <- [daily |-> 1, weekly |-> 2], LastTime <- 2, Faults <- {"project", "crash"},
         now <- clock, job <- spawner

Members == INSTANCE ProjectMembers
    WITH Admin <- {"root"}, Member <- {"ann", "bob"}, Viewer <- {"eve"}

Shop == INSTANCE Projects
    WITH Key <- {"A", "B", "C"}, Task <- Card, LastTime <- 3,
         now <- moment, project <- home, task <- work

Talk == INSTANCE Conversation
    WITH User <- Colleague, Request <- Slot, req <- talkReq

boardVars == <<column, task, seq, boardReq>>
familyVars == <<family, familyReq>>
orderVars == <<item, itemReq>>
retroVars == <<note, retro, made, retroReq>>
templateVars == <<clock, template, project, spawner, last, torn>>
memberVars == <<role, archived>>
shopVars == <<moment, home, work, link, took>>
talkVars == <<comment, watching, assignee, desc, notice, ping, talkReq>>
workVars == <<part, vars, boardVars, familyVars, orderVars, retroVars, templateVars, memberVars,
              shopVars, talkVars>>

WorkInit ==
    /\ part \in {"time", "board", "columns", "family", "drag", "order", "retro", "templates",
                "members", "projects", "talk"}
    /\ Init /\ Board!Init /\ Drag!Init /\ Order!Init /\ Wall!Init /\ Templates!Init
    /\ Members!Init /\ (part = "members" \/ role["ann"] = "lead")
    /\ Shop!Init /\ Talk!Init

WorkNext ==
    /\ part' = part
    /\ IF part = "time" THEN Next ELSE UNCHANGED vars
    /\ part = "board" => Board!Next
    /\ part = "columns" => Columns!Next
    /\ part \notin {"board", "columns"} => UNCHANGED boardVars
    /\ part = "family" => Family!Next
    /\ part = "drag" => Drag!Next
    /\ part \notin {"family", "drag"} => UNCHANGED familyVars
    /\ IF part = "order" THEN Order!Next ELSE UNCHANGED orderVars
    /\ IF part = "retro" THEN Wall!Next ELSE UNCHANGED retroVars
    /\ IF part = "templates" THEN Templates!Next ELSE UNCHANGED templateVars
    /\ IF part = "members" THEN Members!Next ELSE UNCHANGED memberVars
    /\ IF part = "projects" THEN Shop!Next ELSE UNCHANGED shopVars
    /\ IF part = "talk" THEN Talk!Next ELSE UNCHANGED talkVars

WorkSpec == WorkInit /\ [][WorkNext]_workVars

(* The type invariants of the parts. *)
TypesOK ==
    CASE part = "time" -> TypeOK
      [] part \in {"board", "columns"} -> Board!TypeOK
      [] part \in {"family", "drag"} -> Drag!TypeOK
      [] part = "order" -> Order!TypeOK
      [] part = "retro" -> Wall!TypeOK
      [] part = "templates" -> Templates!TypeOK
      [] part = "members" -> Members!TypeOK
      [] part = "projects" -> Shop!TypeOK
      [] part = "talk" -> Talk!TypeOK

(* No two tasks share a key, and a reserved key is free when its task is inserted
   (next_key in domain/tasks.rs); a completed task is done, however stale the category a
   move read (move_task in routes/tasks.rs); and one request at a time, with no deleted
   task restored, every live task is in a column of its board (delete_column in
   routes/boards.rs). *)
BoardIsSound ==
    /\ part \in {"board", "columns"} => Board!KeysUnique /\ Board!CompletedOnlyWhenDone
    /\ part = "columns" => Columns!LiveTaskInLiveColumn

(* Tasks are never each other's parents, one request at a time (set_parent), and
   the family a drag names stays its family until the drag is written
   (reorder_subtasks). *)
FamiliesHold ==
    /\ part = "family" => Family!NoFamilyCycle
    /\ part = "drag" => Drag!DraggedFamilyStays

(* An item lands next to its anchor (resolve_position). *)
LandsWhereDropped == Order!LandsWhereDropped

(* The record of a closed retro says what its notes say, and a promoted note has
   made one task, one request at a time (retros.rs). *)
RecordDoesNotLie == part = "retro" => Wall!RecordDoesNotLie

(* A recurring template that fell behind makes no burst of tasks
   (materialise_due). *)
NoBurst == Templates!NoBurst

(* A project loses its only lead when that lead is added again with another
   role, and in no other way (routes/projects.rs). *)
OnlyReaddingTakesTheLastLead == Members!OnlyReaddingTakesTheLastLead

(* The prefix of a task's key leads to the task's own project (edit and restore
   in routes/projects.rs). *)
KeysLeadHome == part = "projects" => Shop!KeysLeadHome

(* Restoring a project brings back what deleting it took, less what was restored
   since (restore_project in routes/projects.rs). *)
RestoreIsExact == Shop!RestoreIsExact

(* Nobody hears of a comment twice, or of a mention that was there already
   (create_comment and edit_task). *)
EachHearsOnce == part = "talk" => Talk!EachHearsOnce
=============================================================================
