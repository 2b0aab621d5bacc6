------------------------------- MODULE Office -------------------------------
(***************************************************************************)
(* The components around people, money and reports.  They share no rows    *)
(* that their properties are about, so a behaviour moves one of them, the  *)
(* part chosen at its start, and leaves the others as they began.  The     *)
(* part "time" is TimeTracking as it stands, the part "sprints"            *)
(* SprintLifecycle one request at a time, and the part "search" is         *)
(* MCBackOffice's matter: none of these moves in it.                       *)
(***************************************************************************)
EXTENDS TimeTracking, Sequences, TLC

CONSTANTS
    Session, Token, Tab, Grace, Lifetime, LastTime,  \* of the sessions of a user
    User, Invite, Secret,                            \* of the accounts
    Worker, Job, JobProject, Wage, Duration, MonthDay,
                                                     \* of the books, Job being the tasks
    Invoice, Amount,                                 \* of the invoices
    Plans, MaxTasks,                                 \* of the imports
    Sprint, Work, Subtask, Backlog,                  \* of the sprints, Work being the tasks
    Story, StoryPoints, StoryDue, StoryBlocks, InstantsADay, Starts, Ends, LastInstant,
                                                     \* of the charts, Story being the tasks
    FieldId, Card, FieldName, FieldType, Spelling, Options, Fold, Numeral
                                                     \* of the custom fields, Card being the tasks

VARIABLES
    part,
    clock, status, session, token, jar, sreq,
    user, invite, phone, areq,
    spent, owned, paid,
    client, owed, invoice, billing, told, deleted,
    task, logs, touched, known, sprint, txn,
    cycle, planned, snap, sprintReq,
    instant, charted, within, doneAt, removed, scope, frozen, was,
    field, value, index, fieldReq

Sessions == INSTANCE RefreshSessions
    WITH now <- clock, req <- sreq

People == INSTANCE Accounts
    WITH OpenSignup <- TRUE, Request <- {"only"}, Overlap <- FALSE, req <- areq

Books == INSTANCE Billing
    WITH User <- Worker, Task <- Job, ProjectOf <- JobProject, Rate <- Wage,
         Minutes <- Duration, Day <- MonthDay, log <- spent

Bills == INSTANCE Invoicing
    WITH MaxDeleted <- 1, req <- billing

Jira == INSTANCE JiraImport WITH MaxTouched <- 1

Sprints == INSTANCE SprintLifecycle
    WITH Task <- Work, Request <- {"only"},
         Handlers <- {"start", "velocity", "delete_tasks", "assign", "insert", "edit"},
         sprint <- cycle, task <- planned, req <- sprintReq

Charts == INSTANCE SprintCharts
    WITH Task <- Story, Points <- StoryPoints, DueDay <- StoryDue, Blocks <- StoryBlocks

Fields == INSTANCE CustomFields
    WITH Field <- FieldId, Task <- Card, Name <- FieldName, Type <- FieldType, req <- fieldReq

sessionVars == <<clock, status, session, token, jar, sreq>>
peopleVars == <<user, invite, phone, areq>>
booksVars == <<spent, owned, paid>>
billsVars == <<client, owed, invoice, billing, told, deleted>>
importVars == <<task, logs, touched, known, sprint, txn>>
sprintVars == <<cycle, planned, snap, sprintReq>>
chartsVars == <<instant, charted, within, doneAt, removed, scope, frozen, was>>
fieldsVars == <<field, value, index, fieldReq>>
officeVars == <<part, vars, sessionVars, peopleVars, booksVars, billsVars, importVars,
               sprintVars, chartsVars, fieldsVars>>

OfficeInit ==
    /\ part \in {"time", "sessions", "people", "books", "bills", "import", "search",
                "sprints", "charts", "fields"}
    /\ Init /\ Sessions!Init /\ People!Init /\ Books!Init /\ Bills!Init
    /\ Jira!Init /\ Sprints!Init /\ Charts!Init /\ Fields!Init

OfficeNext ==
    /\ part' = part
    /\ part # "time" => UNCHANGED vars
    /\ part # "sessions" => UNCHANGED sessionVars
    /\ part # "people" => UNCHANGED peopleVars
    /\ part # "books" => UNCHANGED booksVars
    /\ part # "bills" => UNCHANGED billsVars
    /\ part # "import" => UNCHANGED importVars
    /\ part # "sprints" => UNCHANGED sprintVars
    /\ part # "charts" => UNCHANGED chartsVars
    /\ part # "fields" => UNCHANGED fieldsVars
    /\ CASE part = "time" -> Next
         [] part = "sessions" -> Sessions!Next
         [] part = "people" -> People!Next
         [] part = "books" -> Books!Next
         [] part = "bills" -> Bills!Next
         [] part = "import" -> Jira!Next
         [] part = "sprints" -> Sprints!SerialNext
         [] part = "charts" -> Charts!Next
         [] part = "fields" -> Fields!Next
         [] OTHER -> TRUE

OfficeSpec == OfficeInit /\ [][OfficeNext]_officeVars

(* The type invariants of the parts. *)
PartsTypeOK ==
    CASE part = "time" -> TypeOK
      [] part = "sessions" -> Sessions!TypeOK
      [] part = "people" -> People!TypeOK
      [] part = "books" -> Books!TypeOK
      [] part = "bills" -> Bills!TypeOK
      [] part = "import" -> Jira!TypeOK
      [] part = "sprints" -> Sprints!TypeOK
      [] part = "charts" -> Charts!TypeOK
      [] part = "fields" -> Fields!TypeOK
      [] OTHER -> TRUE

(* No refresh of an honest browser is taken for reuse (rotate in
   domain/sessions.rs). *)
HonestTabsStaySignedIn == Sessions!HonestTabsStaySignedIn

(* Some admin can always act, and a second factor that is on asks for the
   codes its user holds (admin_panel.rs, two_factor.rs). *)
NobodyIsShutOut == People!NobodyIsShutOut

(* Invoices, reports, payroll and burn agree on the same time (invoicing.rs,
   time_report.rs, payroll.rs). *)
BooksAgree == part = "books" => Books!BooksAgree

(* An issued invoice keeps its number, and nothing else takes it (invoicing.rs). *)
IssuedNumbersAreFinal == part = "bills" => Bills!IssuedNumbersAreFinal

(* However imports of one export overlap and whatever the team does meanwhile, what
   was imported is there once (apply_jira_import in domain/import_export.rs) *)
ImportedOnce == part = "import" => Jira!ImportedOnce

(* One request at a time: deleting a sprint loses no work, and the two records of
   a completion agree (delete_sprint and complete in routes/sprints.rs). *)
WorkIsKept == part = "sprints" => Sprints!NoWorkLost /\ Sprints!SnapshotMatchesVelocity

(* One request at a time: a sprint never goes back, its velocity does not drift
   and what is completed is frozen (domain/sprints.rs). *)
ClosedSprintStays ==
    Sprints!NoGoingBack /\ Sprints!VelocityDoesNotDrift /\ Sprints!CompletedIsFrozen

(* One request at a time: work that a completion takes out of its sprint is in
   the snapshot, and lands in a sprint that is open (complete). *)
CarriedWorkIsKept == Sprints!CarriedWorkIsInSnapshot /\ Sprints!CarriedWorkLandsOpen

(* The charts of a sprint against what its tasks were at every instant: days measured in the
   past, scope, progress and velocity of a sprint that closed, and the older burndown. *)
ChartTellsTheTruth == part = "charts" => Charts!ChartTellsTheTruth

(* Values of custom fields, the search text of their tasks and the filters on them agree
   (domain/fields.rs and the triggers of its migration). *)
FieldsAreFound == part = "fields" => Fields!FieldsAreFound
=============================================================================
