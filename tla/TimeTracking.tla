---------------------------- MODULE TimeTracking ----------------------------
(***************************************************************************)
(* One user's time logs and weekly timesheets:                             *)
(* apps/api/src/routes/time_logs.rs, apps/api/src/routes/timesheets.rs,    *)
(* and the import of worklogs (apps/api/src/domain/import_export.rs).      *)
(*                                                                         *)
(* No two rows of different users meet in these tables, so one user is     *)
(* enough.  A handler that checks the week first and writes later is a     *)
(* request in two steps; the others are one statement.  Times are          *)
(* abstracted to the week they fall in.                                    *)
(*                                                                         *)
(* A total, a sum of minutes over a set of logs, is represented by the     *)
(* set of its summands.                                                    *)
(***************************************************************************)
EXTENDS Naturals, FiniteSets

CONSTANTS
    Log,         \* ids a row of time_logs may take: bounds the rows
    LastWeek,    \* weeks are 1 .. LastWeek: bounds the clock
    MaxMinutes,  \* bounds a duration
    Request,     \* slots for handlers in flight: the bound on concurrency
    Handlers,    \* which of the handlers in HandlerName run
    Overlap,     \* whether handlers overlap, or run one request at a time
    None         \* no value

HandlerName == {"timer", "create", "edit", "delete", "submit", "import"}

ASSUME ConstantsAssumption ==
    /\ LastWeek \in Nat \ {0} /\ MaxMinutes \in Nat \ {0}
    /\ Handlers \subseteq HandlerName /\ Overlap \in BOOLEAN
    /\ None \notin Log

VARIABLES
    now,    \* the current week
    log,    \* table time_logs
    sheet,  \* table timesheets, "open" standing for no row
    req     \* the handlers in flight

vars == <<now, log, sheet, req>>

----------------------------------------------------------------------------
Week == 1 .. LastWeek
Minutes == 0 .. MaxMinutes

(* minutes is the generated column duration_minutes, 0 while ended_at IS NULL. *)
LogRow == [row: {"absent", "live", "deleted"}, week: Week, running: BOOLEAN,
           minutes: Minutes, billable: BOOLEAN]

Summands == SUBSET (Log \X Minutes)

Sheet == [status: {"open", "submitted", "approved", "paid"}, total: Summands, pay: Summands]

(* What a handler in flight is about to write: row is the row to insert, or
   the columns to set on log l. *)
RequestRecord ==
    [pc: {"idle", "create", "edit", "delete", "submit"}, l: Log \cup {None},
     week: Week, minutes: Minutes \cup {None}, billable: BOOLEAN \cup {None},
     total: Summands, pay: Summands]

NoLog == [row |-> "absent", week |-> 1, running |-> FALSE, minutes |-> 0, billable |-> TRUE]
NoSheet == [status |-> "open", total |-> {}, pay |-> {}]
Idle == [pc |-> "idle", l |-> None, week |-> 1, minutes |-> None, billable |-> None,
         total |-> {}, pay |-> {}]

Live(l) == log[l].row = "live"
Running(l) == Live(l) /\ log[l].running
Closed(l) == Live(l) /\ ~log[l].running
Fresh(l) == log[l].row = "absent" /\ \A r \in Request : req[r].l # l

Init ==
    /\ now = 1
    /\ log = [l \in Log |-> NoLog]
    /\ sheet = [w \in Week |-> NoSheet]
    /\ req = [r \in Request |-> Idle]

(* A request can be accepted, a one-statement handler run. *)
Ready == Overlap \/ \A r \in Request : req[r].pc = "idle"

Begin(r, name, record) ==
    /\ Ready /\ name \in Handlers /\ req[r].pc = "idle"
    /\ req' = [req EXCEPT ![r] = record]
    /\ UNCHANGED <<now, log, sheet>>

Finish(r) == req' = [req EXCEPT ![r] = Idle]

----------------------------------------------------------------------------
(* start_timer(): the partial unique index time_logs_one_running_per_user
   refuses a second running log. *)
RunningConflict == \E o \in Log : Running(o)

StartTimer(l) ==
    /\ Ready /\ "timer" \in Handlers
    /\ Fresh(l) /\ ~RunningConflict
    /\ log' = [log EXCEPT ![l] = [NoLog EXCEPT !.row = "live", !.week = now, !.running = TRUE]]
    /\ UNCHANGED <<now, sheet, req>>

(* stop_timer(): ended_at = now() on the running log, whichever week it
   started in. *)
StopTimer(l, minutes) ==
    /\ Ready /\ Running(l)
    /\ log' = [log EXCEPT ![l].running = FALSE, ![l].minutes = minutes]
    /\ UNCHANGED <<now, sheet, req>>

----------------------------------------------------------------------------
(* ensure_week_open() *)
LockedWhenPaid(w) == sheet[w].status = "paid"

Locked(w) == sheet[w].status \in {"approved", "paid"}

(* create_manual(): any week the body names, at least a minute. *)
CreateCheck(r, l, w, minutes, billable) ==
    /\ minutes > 0
    /\ Fresh(l) /\ ~Locked(w)
    /\ Begin(r, "create", [Idle EXCEPT !.pc = "create", !.l = l, !.week = w,
                                       !.minutes = minutes, !.billable = billable])

CreateInsert(r) ==
    /\ req[r].pc = "create"
    /\ log' = [log EXCEPT ![req[r].l] =
                 [row |-> "live", week |-> req[r].week, running |-> FALSE,
                  minutes |-> req[r].minutes, billable |-> req[r].billable]]
    /\ Finish(r)
    /\ UNCHANGED <<now, sheet>>

(* edit_log(): COALESCE keeps the columns the body leaves out; a duration
   given for a running log ends it.  The UPDATE is by id. *)
EditCheck(r, l, minutes, billable) ==
    /\ Live(l) /\ ~Locked(log[l].week)
    /\ Begin(r, "edit", [Idle EXCEPT !.pc = "edit", !.l = l, !.minutes = minutes,
                                     !.billable = billable])

Assign(new, old) == new

Coalesce(new, old) == IF new = None THEN old ELSE new

Edited(row, minutes, billable) ==
    [row EXCEPT !.running = @ /\ minutes = None, !.minutes = Coalesce(minutes, @),
                !.billable = Coalesce(billable, @)]

EditUpdate(r) ==
    /\ req[r].pc = "edit"
    /\ log' = [log EXCEPT ![req[r].l] = Edited(@, req[r].minutes, req[r].billable)]
    /\ Finish(r)
    /\ UNCHANGED <<now, sheet>>

(* delete_log() *)
DeleteCheck(r, l) ==
    /\ Live(l) /\ ~Locked(log[l].week)
    /\ Begin(r, "delete", [Idle EXCEPT !.pc = "delete", !.l = l])

DeleteUpdate(r) ==
    /\ req[r].pc = "delete"
    /\ log' = [log EXCEPT ![req[r].l].row = "deleted"]
    /\ Finish(r)
    /\ UNCHANGED <<now, sheet>>

(* apply_jira_import(): worklogs are inserted closed, in the week Jira has
   them, with no look at the timesheets. *)
ImportWorklog(l, w, minutes) ==
    /\ Ready /\ "import" \in Handlers
    /\ Fresh(l)
    /\ log' = [log EXCEPT ![l] = [NoLog EXCEPT !.row = "live", !.week = w, !.minutes = minutes]]
    /\ UNCHANGED <<now, sheet, req>>

----------------------------------------------------------------------------
(* compute_view(): the closed live logs of the week. *)
CountedAny(w) == {<<l, log[l].minutes>> : l \in {k \in Log : log[k].row # "absent" /\ log[k].week = w}}

Counted(w) == {<<l, log[l].minutes>> : l \in {k \in Log : Closed(k) /\ log[k].week = w}}

Billable(counted) == {s \in counted : log[s[1]].billable}

(* submit(): the totals are computed first; "nothing to submit" when they are
   zero, a conflict when the week has a row. *)
SubmitRead(r, w) ==
    /\ sheet[w].status = "open"
    /\ \E s \in Counted(w) : s[2] > 0
    /\ Begin(r, "submit", [Idle EXCEPT !.pc = "submit", !.week = w, !.total = Counted(w),
                                       !.pay = Billable(Counted(w))])

(* INSERT INTO timesheets: the unique index on (user_id, period_start)
   refuses a second row.  No code writes a row with status 'open', so the
   branch that updates one is never taken. *)
Resubmitted(old, total, pay) == [status |-> "submitted", total |-> total, pay |-> pay]

Submitted(old, total, pay) ==
    IF old.status = "open" THEN [status |-> "submitted", total |-> total, pay |-> pay] ELSE old

SubmitInsert(r) ==
    LET w == req[r].week IN
    /\ req[r].pc = "submit"
    /\ sheet' = [sheet EXCEPT ![w] = Submitted(@, req[r].total, req[r].pay)]
    /\ Finish(r)
    /\ UNCHANGED <<now, log>>

(* approve() and mark_paid(): UPDATE ... WHERE status = *)
Advance(w, from, to) ==
    /\ Ready /\ sheet[w].status = from
    /\ sheet' = [sheet EXCEPT ![w].status = to]
    /\ UNCHANGED <<now, log, req>>

Approve(w) == Advance(w, "submitted", "approved")
MarkPaid(w) == Advance(w, "approved", "paid")

(* Time passes: timers keep running over the end of a week. *)
NextWeek ==
    /\ Ready /\ now < LastWeek
    /\ now' = now + 1
    /\ UNCHANGED <<log, sheet, req>>

----------------------------------------------------------------------------
Accept(r) ==
    \/ \E l \in Log, w \in Week, m \in Minutes, b \in BOOLEAN : CreateCheck(r, l, w, m, b)
    \/ \E l \in Log, m \in Minutes \cup {None}, b \in BOOLEAN \cup {None} : EditCheck(r, l, m, b)
    \/ \E l \in Log : DeleteCheck(r, l)
    \/ \E w \in Week : SubmitRead(r, w)

Write(r) == CreateInsert(r) \/ EditUpdate(r) \/ DeleteUpdate(r) \/ SubmitInsert(r)

Direct ==
    \/ NextWeek
    \/ \E l \in Log :
         \/ StartTimer(l)
         \/ \E m \in Minutes : StopTimer(l, m) \/ \E w \in Week : ImportWorklog(l, w, m)
    \/ \E w \in Week : Approve(w) \/ MarkPaid(w)

Next == Direct \/ \E r \in Request : Accept(r) \/ Write(r)

Spec == Init /\ [][Next]_vars

----------------------------------------------------------------------------
(* Safety, however the handlers overlap *)

(* The type invariant, with the shape of every row and handler in flight. *)
TypeOK ==
    /\ now \in Week
    /\ log \in [Log -> LogRow]
    /\ sheet \in [Week -> Sheet]
    /\ req \in [Request -> RequestRecord]

(* A user never has two timers running, whichever devices start and stop
   them and whatever edits of a running log do. *)
OneRunningTimer == \A l, k \in Log : Running(l) /\ Running(k) => l = k

(* Once a week is submitted its totals and pay stay as they were, and its
   status only moves on: a late submit cannot take an approved week back. *)
Rank(status) ==
    CASE status = "open" -> 0 [] status = "submitted" -> 1
      [] status = "approved" -> 2 [] status = "paid" -> 3

TimesheetMovesForward ==
    [][\A w \in Week :
         /\ Rank(sheet[w].status) <= Rank(sheet'[w].status)
         /\ sheet[w].status # "open" =>
              sheet'[w].total = sheet[w].total /\ sheet'[w].pay = sheet[w].pay]_vars

(* A week that is paid was worth submitting, and pay is for hours in its
   total. *)
PaidForCountedWork ==
    \A w \in Week : sheet[w].status # "open" =>
        /\ \E s \in sheet[w].total : s[2] > 0
        /\ sheet[w].pay \subseteq sheet[w].total

----------------------------------------------------------------------------
(* What the documentation says of a week that is approved *)

Approved(w) == sheet[w].status \in {"approved", "paid"}

(* No write mutates a time log inside an approved week, and none appears in
   it (ensure_week_open in routes/time_logs.rs). *)
ApprovedWeekIsLocked ==
    [][\A l \in Log :
         log'[l] # log[l] => ~Approved(log'[l].week)]_vars

(* The part of it that holds when handlers do not overlap: the logs that were closed
   when the week was approved stay as they are. *)
ClosedLogsOfApprovedWeekStay ==
    [][\A l \in Log : Closed(l) /\ Approved(log[l].week) => log'[l] = log[l]]_vars

(* The totals of a submission are those of the live logs at that moment. *)
SubmissionIsAccurate ==
    [][\A w \in Week :
         sheet[w].status = "open" /\ sheet'[w].status = "submitted" =>
           \A l \in Log, m \in Minutes :
             LET worked == Closed(l) /\ log[l].week = w /\ log[l].minutes = m IN
             /\ <<l, m>> \in sheet'[w].total <=> worked
             /\ <<l, m>> \in sheet'[w].pay <=> worked /\ log[l].billable]_vars

=============================================================================
