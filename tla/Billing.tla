------------------------------ MODULE Billing ------------------------------
(***************************************************************************)
(* Money from logged time: what an invoice asks a client for               *)
(* (domain/invoicing.rs), the month's payroll and a project's burn         *)
(* (routes/payroll.rs), and the project time report                        *)
(* (domain/time_report.rs), all of apps/api/src.                           *)
(*                                                                         *)
(* No handler writes users.hourly_rate_cents: the rates are constants.     *)
(* One client, one year and a month that is all of Day.                    *)
(***************************************************************************)
EXTENDS Integers, FiniteSets, Functions

CONSTANTS
    User,       \* the users with time
    Task,       \* the tasks with time
    ProjectOf,  \* tasks.project_id
    Rate,       \* users.hourly_rate_cents, 0 standing for NULL
    Log,        \* ids a row of time_logs may take: bounds the rows
    Minutes,    \* durations of a log
    Day,        \* the days of the month
    None        \* no value

VARIABLES
    log,      \* table time_logs, without the deleted rows
    owned,    \* the projects whose client_id is the client
    paid      \* the users whose payroll_periods.status is paid

vars == <<log, owned, paid>>

----------------------------------------------------------------------------
Project == {ProjectOf[t] : t \in Task}
LogRow == [user: User, task: Task, day: Day, minutes: Minutes, billable: BOOLEAN]

Closed == {l \in Log : log[l] # None}

PayCents(minutes, rate) == IF rate <= 0 \/ minutes <= 0 THEN 0 ELSE (minutes * rate) \div 60

SumMinutes(logs) == SumFunction([l \in logs |-> log[l].minutes])
Billable(logs) == {l \in logs : log[l].billable}

(* day_bounds(): both ends are of the period. *)
Between(first, last) == {d \in Day : first <= d /\ d <= last}
In(period) == {l \in Closed : log[l].day \in period}
Of(p) == {l \in Closed : ProjectOf[log[l].task] = p}
By(u) == {l \in Closed : log[l].user = u}

Init ==
    log = [l \in Log |-> None] /\ owned = {} /\ paid = {}

----------------------------------------------------------------------------
(* fetch_logs() and aggregate(): minutes and pay of a project, in all and split. *)
Bucket(logs) == [total |-> SumMinutes(logs), billable |-> SumMinutes(Billable(logs))]
ByUser(logs) == [u \in User |-> Bucket(logs \cap By(u))]
ByTask(logs) == [t \in Task |-> Bucket({l \in logs : log[l].task = t})]
UserPay(logs) == [u \in User |-> PayCents(ByUser(logs)[u].billable, Rate[u])]
TimeReport(p, period) ==
    LET logs == Of(p) \cap In(period)
    IN  [all |-> Bucket(logs), users |-> ByUser(logs), tasks |-> ByTask(logs),
         pay |-> SumFunction(UserPay(logs))]

(* month_overview(): a row per user; user_month(): the projects of one. *)
MonthRow(u) ==
    LET logs == By(u) \cap In(Day)
    IN  [minutes |-> Bucket(logs), pay |-> PayCents(SumMinutes(Billable(logs)), Rate[u]),
         status |-> IF u \in paid THEN "paid" ELSE "open"]
MonthDetail(u) ==
    LET lines == [p \in Project |-> Bucket(By(u) \cap Of(p) \cap In(Day))]
        sum(field) == SumFunction([p \in Project |-> lines[p][field]])
    IN  [lines |-> lines, minutes |-> [total |-> sum("total"), billable |-> sum("billable")],
         pay |-> PayCents(sum("billable"), Rate[u])]

LogPay(l) == (Rate[log[l].user] * log[l].minutes) \div 60
BurnOfAll(p) == SumFunction([l \in Of(p) |-> LogPay(l)])

(* burn(): the pay of each log is floored before they are added. *)
Burn(p) == SumFunction([l \in Billable(Of(p) \cap In(Day)) |-> LogPay(l)])

(* generate(): a line per project and user, those that come to nothing left out. *)
LineOf(p, u, period) ==
    LET minutes == SumMinutes(Billable(Of(p) \cap By(u) \cap In(period)))
    IN  [project |-> p, user |-> u, minutes |-> minutes, amount |-> PayCents(minutes, Rate[u])]
Lines(period) == {x \in {LineOf(p, u, period) : p \in owned, u \in User} : x.amount > 0}
Total(lines) == SumFunction([x \in lines |-> x.amount])

----------------------------------------------------------------------------
LogTime(l, row) ==
    /\ log[l] = None /\ log' = [log EXCEPT ![l] = row]
    /\ UNCHANGED <<owned, paid>>

DeleteLog(l) ==
    /\ log[l] # None /\ log' = [log EXCEPT ![l] = None]
    /\ UNCHANGED <<owned, paid>>

(* The client named need not be live. *)
SetProjectClient(p) ==
    /\ owned' = IF p \in owned THEN owned \ {p} ELSE owned \cup {p}
    /\ UNCHANGED <<log, paid>>

PayrollMarkPaid(u) == paid' = paid \cup {u} /\ UNCHANGED <<log, owned>>
PayrollReopen(u) == paid' = paid \ {u} /\ UNCHANGED <<log, owned>>

----------------------------------------------------------------------------
Next ==
    \/ \E l \in Log : DeleteLog(l) \/ \E row \in LogRow : LogTime(l, row)
    \/ \E p \in Project : SetProjectClient(p)
    \/ \E u \in User : PayrollMarkPaid(u) \/ PayrollReopen(u)

Spec == Init /\ [][Next]_vars

----------------------------------------------------------------------------
TypeOK ==
    /\ log \in [Log -> LogRow \cup {None}]
    /\ owned \subseteq Project /\ paid \subseteq User

(* The four accounts of the same time agree: what an invoice of the whole month would
   ask for is the pay in the reports of its projects; a report's splits add up; the
   overview of the month counts what its detail counts; flooring every log, every line
   or the whole loses less than a cent a piece, and never gains (invoicing.rs,
   time_report.rs, payroll.rs). *)
BooksAgree ==
    /\ \A first, last \in Day :
         Total(Lines(Between(first, last))) =
             SumFunction([p \in owned |-> TimeReport(p, Between(first, last)).pay])
    /\ \A p \in Project :
         LET report == TimeReport(p, Day)
         IN  /\ \A field \in {"total", "billable"} :
                  /\ report.all[field] = SumFunction([u \in User |-> report.users[u][field]])
                  /\ report.all[field] = SumFunction([t \in Task |-> report.tasks[t][field]])
             /\ Burn(p) <= report.pay
             /\ report.pay - Burn(p) <= Cardinality(Of(p))
    /\ \A u \in User :
         LET lines == SumFunction([p \in Project |-> LineOf(p, u, Day).amount])
         IN  /\ MonthRow(u).minutes = MonthDetail(u).minutes /\ MonthRow(u).pay = MonthDetail(u).pay
             /\ lines <= MonthRow(u).pay /\ MonthRow(u).pay - lines < Cardinality(Project)

=============================================================================
