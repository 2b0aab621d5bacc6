-------------------------- MODULE RecurringTemplates --------------------------
(***************************************************************************)
(* Task templates and the job that materialises the recurring ones:        *)
(* apps/api/src/domain/templates.rs, apps/api/src/routes/templates.rs and  *)
(* run_materialize_templates() in apps/api/src/jobs/mod.rs.                *)
(*                                                                         *)
(* The job runs in one worker at a time, again and again (JobQueue); its   *)
(* statements are steps of their own.  Times are whole units.              *)
(***************************************************************************)
EXTENDS Naturals, Sequences, FiniteSets, SequencesExt

CONSTANTS
    Template,  \* ids a row of task_templates may take: bounds the rows
    Project,   \* the projects
    Period,    \* how many units each recurrence takes
    LastTime,  \* bounds the clock
    Faults,    \* what can go wrong: "crash", "project"
    None       \* no value

VARIABLES
    now,       \* the clock
    template,  \* table task_templates
    project,   \* whether a project can take a task: live, with a default board
    job,       \* the run of materialise_due in progress
    last,      \* the scan a template last made a task in: history
    torn       \* templates whose task was made and whose UPDATE a stop took: history

vars == <<now, template, project, job, last, torn>>

----------------------------------------------------------------------------
Recurrence == {"none"} \cup DOMAIN Period

(* next is next_run_at, None for NULL. *)
TemplateRow == [row: {"absent", "live"}, project: Project, recurrence: Recurrence,
                next: Nat \cup {None}]

(* due: the rows read that remain, as they were read.  pc is "advance" between
   the task and the UPDATE of next_run_at. *)
Due == [t: Template, recurrence: Recurrence, project: Project]
Job == [pc: {"idle", "spawn", "advance"}, due: Seq(Due), at: 0 .. LastTime]

NoTemplate(p) == [row |-> "absent", project |-> p, recurrence |-> "none", next |-> None]
NoJob == [pc |-> "idle", due |-> <<>>, at |-> 0]

Live(t) == template[t].row = "live"

(* Which unused id a new row takes makes no difference. *)
Fresh(t) == ~Live(t) /\ t = CHOOSE u \in Template : ~Live(u)

(* next_run(): the next occurrence after the moment given, None for "none". *)
NextRun(recurrence, from) == IF recurrence = "none" THEN None ELSE from + Period[recurrence]

Init ==
    /\ now = 0
    /\ template = [t \in Template |-> NoTemplate(CHOOSE p \in Project : TRUE)]
    /\ project = [p \in Project |-> "live"]
    /\ job = NoJob
    /\ last = [t \in Template |-> None]
    /\ torn = {}

----------------------------------------------------------------------------
(* create(): the first run is one interval away. *)
Create(t, p, recurrence) ==
    /\ Fresh(t) /\ project[p] = "live"
    /\ template' = [template EXCEPT ![t] =
                      [row |-> "live", project |-> p, recurrence |-> recurrence,
                       next |-> NextRun(recurrence, now)]]
    /\ last' = [last EXCEPT ![t] = None] /\ torn' = torn \ {t}
    /\ UNCHANGED <<now, project, job>>

(* update(): changing the cadence resets the next run. *)
Update(t, recurrence) ==
    /\ Live(t) /\ project[template[t].project] = "live"
    /\ template' = [template EXCEPT ![t].recurrence = recurrence,
                                    ![t].next = NextRun(recurrence, now)]
    /\ UNCHANGED <<now, project, job, last, torn>>

(* remove(): the row goes. *)
Discard(t) ==
    /\ Live(t) /\ project[template[t].project] = "live"
    /\ template' = [template EXCEPT ![t] = NoTemplate(template[t].project)]
    /\ UNCHANGED <<now, project, job, last, torn>>

(* A project is soft-deleted, or its default board loses its columns; its
   templates stay. *)
ProjectGoes(p) ==
    /\ "project" \in Faults /\ project[p] = "live"
    /\ project' = [project EXCEPT ![p] = "unusable"]
    /\ UNCHANGED <<now, template, job, last, torn>>

Tick ==
    /\ now < LastTime
    /\ now' = now + 1
    /\ UNCHANGED <<template, project, job, last, torn>>

----------------------------------------------------------------------------
(* WHERE recurrence <> 'none' AND next_run_at <= now *)
DueAt(time) ==
    {t \in Template : Live(t) /\ template[t].recurrence # "none"
                      /\ template[t].next # None /\ template[t].next <= time}

(* ORDER BY next_run_at; rows that are due at one time come in any order. *)
ByNextRun(ts) ==
    {order \in SetToSeqs(ts) :
       \A i, j \in DOMAIN order : i < j => template[order[i]].next <= template[order[j]].next}

Read(t) == [t |-> t, recurrence |-> template[t].recurrence, project |-> template[t].project]

(* materialise_due(): the due rows are read once. *)
Scan ==
    /\ job.pc = "idle" /\ DueAt(now) # {}
    /\ \E order \in ByNextRun(DueAt(now)) :
         job' = [pc |-> "spawn", at |-> now, due |-> [i \in DOMAIN order |-> Read(order[i])]]
    /\ UNCHANGED <<now, template, project, last, torn>>

(* instantiate(): the task is made in a transaction of its own. *)
Spawn ==
    LET t == Head(job.due).t IN
    /\ job.pc = "spawn" /\ project[Head(job.due).project] = "live"
    /\ last' = [last EXCEPT ![t] = job.at]
    /\ job' = [job EXCEPT !.pc = "advance"]
    /\ UNCHANGED <<now, template, project, torn>>

(* An error of one template ends the run: the rest are not looked at. *)
SpawnFails ==
    /\ job.pc = "spawn" /\ project[Head(job.due).project] # "live"
    /\ job' = NoJob
    /\ UNCHANGED <<now, template, project, last, torn>>

(* UPDATE task_templates SET next_run_at, from the scan's time and the
   recurrence that was read. *)
NextOfSchedule(d, time) ==
    NextRun(d.recurrence, IF template[d.t].next = None THEN time ELSE template[d.t].next)

NextAfter(d, time) == NextRun(d.recurrence, time)

Advance ==
    LET d == Head(job.due) IN
    /\ job.pc = "advance"
    /\ template' = IF Live(d.t)
                     THEN [template EXCEPT ![d.t].next = NextAfter(d, job.at)]
                     ELSE template
    /\ job' = IF Tail(job.due) = <<>> THEN NoJob
              ELSE [job EXCEPT !.pc = "spawn", !.due = Tail(job.due)]
    /\ torn' = torn \ {d.t}
    /\ UNCHANGED <<now, project, last>>

Crash ==
    /\ "crash" \in Faults /\ job.pc # "idle"
    /\ job' = NoJob
    /\ torn' = IF job.pc = "advance" THEN torn \cup {Head(job.due).t} ELSE torn
    /\ UNCHANGED <<now, template, project, last>>

----------------------------------------------------------------------------
Work == Scan \/ Spawn \/ SpawnFails \/ Advance

Next ==
    \/ Work \/ Crash \/ Tick
    \/ \E t \in Template, p \in Project, recurrence \in Recurrence : Create(t, p, recurrence)
    \/ \E t \in Template, recurrence \in Recurrence : Update(t, recurrence)
    \/ \E t \in Template : Discard(t)
    \/ \E p \in Project : ProjectGoes(p)

Spec == Init /\ [][Next]_vars

(* The worker polls for ever, and an error of the job is retried. *)
FairSpec == Spec /\ WF_vars(Work)

----------------------------------------------------------------------------
TypeOK ==
    /\ now \in 0 .. LastTime
    /\ template \in [Template -> TemplateRow]
    /\ project \in [Project -> {"live", "unusable"}]
    /\ job.pc \in {"idle", "spawn", "advance"} /\ \A d \in ToSet(job.due) : d \in Due
    /\ last \in [Template -> Nat \cup {None}]
    /\ torn \subseteq Template

(* A template that has fallen behind catches up without a burst: however late
   the scans are and whatever is edited while they run, two tasks of one
   template are at least the shortest interval apart; a worker that stops between
   a task and its UPDATE costs one task more, and no other (materialise_due in
   domain/templates.rs). *)
MakesTask(t) == job.pc = "spawn" /\ job'.pc = "advance" /\ t = Head(job.due).t

NoBurst ==
    [][\A t \in Template :
         MakesTask(t) /\ last[t] # None /\ t \notin torn =>
           \E recurrence \in DOMAIN Period : job.at >= last[t] + Period[recurrence]]_vars

(* Every recurring template due is materialised: it makes a task, or somebody
   edits or removes it, or its own project goes. *)
DueIsMaterialised ==
    \A t \in Template :
        (Live(t) /\ t \in DueAt(now) /\ project[template[t].project] = "live")
            ~> (t \notin DueAt(now) \/ project[template[t].project] # "live")

=============================================================================
