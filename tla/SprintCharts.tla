---------------------------- MODULE SprintCharts ----------------------------
(***************************************************************************)
(* What the pages of a sprint show of its past: stats(), velocity(),       *)
(* list_tasks() and burndown() of apps/api/src/routes/sprints.rs over the  *)
(* arithmetic of domain/sprint_stats.rs, from the rows a sprint leaves     *)
(* behind: its tasks, the events of sprint_scope_events and its snapshot.  *)
(* Overlapping requests are SprintLifecycle's matter: here a request is    *)
(* one step, every step has an instant of its own (a millisecond in the    *)
(* code), and every instant is remembered, to hold the charts against.     *)
(***************************************************************************)
EXTENDS Integers, FiniteSets, Sequences, SequencesExt, FiniteSetsExt

CONSTANTS
    Task,
    Points,      \* tasks.story_points, None without an estimate; not refused below zero
    DueDay,      \* tasks.due_date, None without one
    Blocks,      \* task_links of kind 'blocks': pairs <<from, to>>
    InstantsADay,
    Starts, Ends,\* sprints.starts_at and ends_at
    LastInstant, \* bounds the clock
    None

VARIABLES
    instant,   \* the clock
    charted,   \* the row of the sprint: [state, startedAt, completedAt]
    within,    \* the tasks whose sprint_id is the sprint's
    doneAt,    \* tasks.completed_at, None while the task is not 'done'
    removed,   \* the tasks deleted
    scope,     \* sprint_scope_events of the sprint, in order of id
    frozen,    \* sprint_task_snapshots: the status of a task, None without a row
    was        \* history: at each instant, the tasks in the sprint and the done ones

vars == <<instant, charted, within, doneAt, removed, scope, frozen, was>>

----------------------------------------------------------------------------
Instant == 0 .. LastInstant
Day(i) == i \div InstantsADay
EndOfDay(d) == d * InstantsADay + InstantsADay - 1

SprintRow == [state: {"planned", "active", "completed"}, startedAt: Instant \cup {None},
              completedAt: Instant \cup {None}]
ScopeEvent == [task: Task, added: BOOLEAN, at: Instant]

Live == Task \ removed
Done == {t \in Task : doneAt[t] # None}

Init ==
    /\ instant = 0 /\ within = {} /\ removed = {} /\ scope = <<>>
    /\ charted = [state |-> "planned", startedAt |-> None, completedAt |-> None]
    /\ doneAt = [t \in Task |-> None] /\ frozen = [t \in Task |-> None]
    /\ was = <<[within |-> {}, done |-> {}]>>

(* Every step happens at the instant after the last one, which is remembered. *)
At == instant + 1
Remember ==
    /\ instant < LastInstant /\ instant' = At
    /\ was' = Append(was, [within |-> within', done |-> {t \in Task : doneAt'[t] # None}])

(* The trigger tasks_track_sprint_scope: an event for every change of a sprint_id. *)
Event(t, added) == [task |-> t, added |-> added, at |-> At]
TasksIn(T) ==
    /\ within' = T
    /\ scope' = scope \o SetToSeq({Event(t, FALSE) : t \in within \ T})
                      \o SetToSeq({Event(t, TRUE) : t \in T \ within})

----------------------------------------------------------------------------
Tick == UNCHANGED <<charted, within, doneAt, removed, scope, frozen>> /\ Remember

(* Whatever the state of the sprint: a completed one takes tasks too. *)
Assign(t) ==
    /\ t \in Live /\ TasksIn(within \cup {t})
    /\ UNCHANGED <<charted, doneAt, removed, frozen>> /\ Remember

Unassign(t) ==
    /\ TasksIn(within \ {t})
    /\ UNCHANGED <<charted, doneAt, removed, frozen>> /\ Remember

(* completed_at is stamped on the way into a done column and cleared on the way out. *)
MoveTask(t) ==
    /\ t \in Live
    /\ doneAt' = [doneAt EXCEPT ![t] = IF doneAt[t] = None THEN At ELSE None]
    /\ UNCHANGED <<charted, within, removed, scope, frozen>> /\ Remember

DeleteTask(t) ==
    /\ t \in Live /\ removed' = removed \cup {t}
    /\ UNCHANGED <<charted, within, doneAt, scope, frozen>> /\ Remember

Start ==
    /\ charted.state = "planned"
    /\ charted' = [charted EXCEPT !.state = "active", !.startedAt = At]
    /\ UNCHANGED <<within, doneAt, removed, scope, frozen>> /\ Remember

(* The contents are frozen, then what is unfinished is carried away or stays: one
   transaction, so the sprint's completed_at is the instant of its events. *)
Complete(carry) ==
    /\ charted.state = "active"
    /\ charted' = [charted EXCEPT !.state = "completed", !.completedAt = At]
    /\ frozen' = [t \in Task |-> IF t \notin within \cap Live THEN None
                                 ELSE IF t \in Done THEN "done" ELSE "open"]
    /\ TasksIn(IF carry THEN within \ (Live \ Done) ELSE within)
    /\ UNCHANGED <<doneAt, removed>> /\ Remember

Next ==
    \/ Tick \/ Start
    \/ \E carry \in BOOLEAN : Complete(carry)
    \/ \E t \in Task : Assign(t) \/ Unassign(t) \/ MoveTask(t) \/ DeleteTask(t)

Spec == Init /\ [][Next]_vars

----------------------------------------------------------------------------
(* What the pages answer. *)
HasSnapshot == \E t \in Task : frozen[t] # None
Snapshot == {t \in Task : frozen[t] # None}

(* The last event at or before an instant says whether a task was in; with no event it is
   where its row says. *)
InAt(t, at) ==
    LET events == {i \in DOMAIN scope : scope[i].task = t}
        past == {i \in events : scope[i].at <= at}
    IN IF events = {} THEN t \in within ELSE past # {} /\ scope[Max(past)].added

AsOfCompletion == IF charted.completedAt # None THEN charted.completedAt ELSE instant
(* A completed sprint is shown as it stood the moment before it closed. *)
AsOf == IF charted.completedAt # None THEN charted.completedAt - 1 ELSE instant

(* The live tasks that are, or ever were, in the sprint. *)
StatTasks == {t \in Live : t \in within \/ \E i \in DOMAIN scope : scope[i].task = t}
PointsOf(t) == IF Points[t] = None THEN 0 ELSE Points[t]
PointsIn(T) == SumFunction([t \in T |-> PointsOf(t)])
HasPoints == \E t \in StatTasks : PointsOf(t) > 0
Value(t) == IF HasPoints THEN Max({0, PointsOf(t)}) ELSE 1
Worth(T) == SumFunction([t \in T |-> Value(t)])

Members == {t \in StatTasks : InAt(t, AsOf)}
DoneNow(t) == IF charted.state = "completed" /\ HasSnapshot /\ frozen[t] # None
              THEN frozen[t] = "done" ELSE t \in Done
Progress == [tasks |-> Members, done |-> {t \in Members : DoneNow(t)}]

Blocked(t) == \E b \in Live : <<b, t>> \in Blocks /\ b \notin Done
DueSoon(t) == DueDay[t] # None /\ DueDay[t] <= Day(instant) + 2
Health ==
    LET open == {t \in Members : ~DoneNow(t)} IN
    [blocked |-> {t \in open : Blocked(t)},
     atRisk |-> {t \in open : ~Blocked(t) /\ DueSoon(t)},
     onTrack |-> {t \in open : ~Blocked(t) /\ ~DueSoon(t)}]

PlanStart == Day(Starts)
PlanEnd == Max({Day(Ends), PlanStart})
Started == charted.state # "planned"
StartedAt == IF charted.startedAt # None THEN charted.startedAt ELSE Starts

Elapsed == IF Started
           THEN Max({0, Min({Day(AsOf) - PlanStart + 1, PlanEnd - PlanStart + 1})}) ELSE 0

(* The tasks that came after the start are counted by their events: whatever became of
   them since. *)
Original == {t \in StatTasks : InAt(t, StartedAt)}
Added == {e.task : e \in {scope[i] : i \in {j \in DOMAIN scope :
             scope[j].added /\ scope[j].at > StartedAt /\ scope[j].at <= AsOf}}} \ Original
Removed == Original \ Members

GridStart == Min({Day(StartedAt), PlanStart, PlanEnd})
GridEnd == Max({PlanEnd, Day(AsOf)})
DayPoint(d) ==
    IF d > Day(AsOf) THEN None
    ELSE LET at == Min({EndOfDay(d), AsOf})
             scoped == {t \in StatTasks : InAt(t, at)}
             done == {t \in scoped : t \in Done /\ doneAt[t] <= at}
         IN [scope |-> Worth(scoped), done |-> Worth(done),
             remaining |-> Worth(scoped) - Worth(done)]
Series == IF Started THEN [d \in GridStart .. GridEnd |-> DayPoint(d)] ELSE <<>>

(* velocity(): the tally of the running sprint, the snapshot of a completed one, and for
   one that closed empty the velocity stored then and the tasks it has now. *)
Tally(T) == [points |-> PointsIn(T), tasks |-> Cardinality(T)]
DoneInside == within \cap Live \cap Done
Velocity ==
    CASE charted.state = "planned" -> None
      [] charted.state = "active" -> Tally(DoneInside)
      [] HasSnapshot -> Tally({t \in Snapshot : frozen[t] = "done"})
      [] OTHER -> [points |-> 0, tasks |-> Cardinality(DoneInside)]

(* list_tasks(). *)
Listed == IF charted.state = "completed" /\ HasSnapshot THEN Snapshot ELSE within \cap Live

(* burndown(): the older chart, from the tasks in the sprint today. *)
Remaining(tasks, d) ==
    LET burned == {t \in tasks \cap Done : Day(doneAt[t]) <= d}
    IN Max({0, PointsIn(tasks) - PointsIn(burned)})
Burndown == [d \in PlanStart .. PlanEnd |-> Remaining(within \cap Live, d)]

----------------------------------------------------------------------------
TypeOK ==
    /\ instant \in Instant /\ charted \in SprintRow
    /\ within \subseteq Task /\ removed \subseteq Task
    /\ doneAt \in [Task -> Instant \cup {None}]
    /\ scope \in Seq(ScopeEvent)
    /\ frozen \in [Task -> {None, "done", "open"}]
    /\ Len(was) = instant + 1

(* The truth: was[1] is instant 0. *)
WithinAt(at) == was[at + 1].within \cap Live
DoneSince(at) == {t \in Live : \A i \in at .. instant : t \in was[i + 1].done}

(* Each measured day is the sprint as it was at the end of that day; a task reopened
   since then counts as never done, as sprint_stats.rs measures.  The days elapsed are
   the planned ones among them. *)
DaysAreTrue ==
    /\ Started => Elapsed = Cardinality({d \in PlanStart .. PlanEnd : Series[d] # None})
    /\ \A d \in DOMAIN Series : Series[d] # None =>
          LET at == Min({EndOfDay(d), AsOf}) IN
          /\ Series[d].scope = Worth(WithinAt(at))
          /\ Series[d].done = Worth(WithinAt(at) \cap DoneSince(at))

(* The scope card: what was in at the start, plus what came, less what went, is what is
   there; the members are the tasks of the moment before the sprint closed, and each is
   done, blocked, at risk or on track. *)
ScopeIsTrue == Started =>
    /\ Members = UNION {Progress.done, Health.blocked, Health.atRisk, Health.onTrack}
    /\ Original = WithinAt(StartedAt) /\ Members = WithinAt(AsOf)
    /\ Members \subseteq (Original \ Removed) \cup Added
    /\ Members \cap Original = Original \ Removed

(* The progress, the velocity and the list of a sprint that closed are those of the moment
   before, whatever its tasks did since; deleted tasks stay in the velocity and the list. *)
ClosingIsKept == (charted.state = "completed" /\ HasSnapshot) =>
    LET before == was[charted.completedAt] IN
    /\ Progress.done = before.done \cap WithinAt(AsOf)
    /\ Listed \cap Live = WithinAt(AsOf)
    /\ Velocity.tasks = Cardinality(Snapshot \cap before.done)

(* While the sprint runs, both charts agree on what is left today; one floors estimates
   at zero, the other adds them up as they are. *)
Estimated == HasPoints /\ \A t \in within \cap Live : PointsOf(t) >= 0
ChartsAgree == (charted.state = "active" /\ Estimated /\ Day(instant) \in DOMAIN Burndown) =>
    Burndown[Day(instant)] = Series[Day(instant)].remaining

ChartTellsTheTruth == DaysAreTrue /\ ScopeIsTrue /\ ClosingIsKept /\ ChartsAgree
=============================================================================
