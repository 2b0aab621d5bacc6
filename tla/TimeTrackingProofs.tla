------------------------- MODULE TimeTrackingProofs -------------------------
(***************************************************************************)
(* Theorems about TimeTracking, for any logs, weeks and requests.          *)
(*                                                                         *)
(* What holds however handlers overlap follows from the types and from     *)
(* what a request carries (RequestShape).  What holds only when they do    *)
(* not, follows from Alone: a request is by itself, and what it checked    *)
(* still stands when it writes.                                            *)
(***************************************************************************)
EXTENDS TimeTracking, TLAPS

(* What a request in flight carries, by its handler. *)
Shaped(q) ==
    /\ q.pc \in {"create", "edit", "delete"} => q.l \in Log
    /\ q.pc = "create" => q.minutes \in Minutes /\ q.billable \in BOOLEAN
    /\ q.pc = "submit" => (\E s \in q.total : s[2] > 0) /\ q.pay \subseteq q.total

RequestShape == \A r \in Request : Shaped(req[r])

Inv == TypeOK /\ RequestShape /\ OneRunningTimer /\ PaidForCountedWork

(* What a request checked is so. *)
Stands(q) ==
    /\ q.pc = "create" => log[q.l].row = "absent"
    /\ q.pc \in {"edit", "delete"} => ~Locked(log[q.l].week)
    /\ q.pc = "submit" => q.total = Counted(q.week) /\ q.pay = Billable(Counted(q.week))

Alone ==
    \A r \in Request : req[r].pc # "idle" =>
        /\ \A q \in Request \ {r} : req[q].pc = "idle"
        /\ Stands(req[r])

----------------------------------------------------------------------------
(* Lemmas about the definitions of TimeTracking. *)

LEMMA LogFields ==
    ASSUME NEW row \in LogRow
    PROVE  /\ row.row \in {"absent", "live", "deleted"} /\ row.week \in Week
           /\ row.running \in BOOLEAN /\ row.minutes \in Minutes /\ row.billable \in BOOLEAN
  BY DEF LogRow

LEMMA ConstantTypes ==
    NoLog \in LogRow /\ NoSheet \in Sheet /\ Idle \in RequestRecord /\ Shaped(Idle)
  BY ConstantsAssumption
     DEF ConstantsAssumption, NoLog, LogRow, NoSheet, Sheet, Summands, Idle, RequestRecord,
         Week, Minutes, Shaped

LEMMA CountedType ==
    ASSUME TypeOK, NEW w \in Week
    PROVE  Counted(w) \in Summands /\ Billable(Counted(w)) \subseteq Counted(w)
<1>1. \A l \in Log : log[l].minutes \in Minutes
  BY DEF TypeOK, LogRow
<1> QED
  BY <1>1 DEF Counted, Billable, Summands

(* An edit keeps the type of a row, and never starts a timer. *)
LEMMA EditedType ==
    ASSUME NEW row \in LogRow, NEW m \in Minutes \cup {None}, NEW b \in BOOLEAN \cup {None}
    PROVE  /\ Edited(row, m, b) \in LogRow
           /\ Edited(row, m, b).row = row.row
           /\ Edited(row, m, b).running => row.running
  BY DEF Edited, Coalesce, LogRow

----------------------------------------------------------------------------
LEMMA InitInv == Init => Inv
<1> SUFFICES ASSUME Init PROVE Inv
  OBVIOUS
<1>1. TypeOK
  BY ConstantTypes, ConstantsAssumption DEF Init, TypeOK, ConstantsAssumption, Week
<1>2. RequestShape
  BY ConstantTypes DEF Init, RequestShape
<1>3. OneRunningTimer
  BY DEF Init, OneRunningTimer, Running, Live, NoLog
<1>4. PaidForCountedWork
  BY DEF Init, PaidForCountedWork, NoSheet
<1> QED
  BY <1>1, <1>2, <1>3, <1>4 DEF Inv

(* A request that is accepted changes nothing but its slot. *)
LEMMA BeginInv ==
    ASSUME Inv, NEW r \in Request, NEW name, NEW q \in RequestRecord, Shaped(q),
           Begin(r, name, q)
    PROVE  Inv'
<1>1. TypeOK'
  BY DEF Inv, TypeOK, Begin
<1>2. RequestShape'
  BY DEF Inv, TypeOK, RequestShape, Begin, Shaped
<1>3. OneRunningTimer' /\ PaidForCountedWork'
  BY DEF Inv, OneRunningTimer, PaidForCountedWork, Running, Live, Begin
<1> QED
  BY <1>1, <1>2, <1>3 DEF Inv

LEMMA AcceptInv ==
    ASSUME Inv, NEW r \in Request, Accept(r)
    PROVE  Inv'
<1>1. ASSUME NEW l \in Log, NEW w \in Week, NEW m \in Minutes, NEW b \in BOOLEAN,
             CreateCheck(r, l, w, m, b)
      PROVE  Inv'
  <2> DEFINE q == [Idle EXCEPT !.pc = "create", !.l = l, !.week = w, !.minutes = m,
                               !.billable = b]
  <2>1. q \in RequestRecord /\ Shaped(q)
    BY ConstantTypes DEF Idle, RequestRecord, Shaped
  <2> QED
    BY <1>1, <2>1, BeginInv DEF CreateCheck
<1>2. ASSUME NEW l \in Log, NEW m \in Minutes \cup {None}, NEW b \in BOOLEAN \cup {None},
             EditCheck(r, l, m, b)
      PROVE  Inv'
  <2> DEFINE q == [Idle EXCEPT !.pc = "edit", !.l = l, !.minutes = m, !.billable = b]
  <2>1. q \in RequestRecord /\ Shaped(q)
    BY ConstantTypes DEF Idle, RequestRecord, Shaped
  <2> QED
    BY <1>2, <2>1, BeginInv DEF EditCheck
<1>3. ASSUME NEW l \in Log, DeleteCheck(r, l)
      PROVE  Inv'
  <2> DEFINE q == [Idle EXCEPT !.pc = "delete", !.l = l]
  <2>1. q \in RequestRecord /\ Shaped(q)
    BY ConstantTypes DEF Idle, RequestRecord, Shaped
  <2> QED
    BY <1>3, <2>1, BeginInv DEF DeleteCheck
<1>4. ASSUME NEW w \in Week, SubmitRead(r, w)
      PROVE  Inv'
  <2> DEFINE total == Counted(w)
             pay == Billable(Counted(w))
             q == [Idle EXCEPT !.pc = "submit", !.week = w, !.total = total, !.pay = pay]
  <2>1. /\ total \in Summands /\ pay \in Summands /\ pay \subseteq total
        /\ \E s \in total : s[2] > 0
    BY <1>4, CountedType DEF Inv, SubmitRead, Summands
  <2> HIDE DEF total, pay
  <2>2. q \in RequestRecord /\ Shaped(q)
    BY <2>1, ConstantTypes DEF Idle, RequestRecord, Shaped
  <2>3. Begin(r, "submit", q)
    BY <1>4 DEF SubmitRead, total, pay
  <2> HIDE DEF q
  <2> QED
    BY <2>2, <2>3, BeginInv
<1> QED
  BY <1>1, <1>2, <1>3, <1>4 DEF Accept

(* A write to time_logs that starts no timer. *)
LEMMA WriteLogInv ==
    ASSUME Inv, NEW l \in Log, NEW row \in LogRow,
           row.row = "live" /\ row.running => Running(l),
           log' = [log EXCEPT ![l] = row], sheet' = sheet, now' = now,
           \/ req' = req
           \/ \E r \in Request : Finish(r)
    PROVE  Inv'
<1>1. req' \in [Request -> RequestRecord] /\ RequestShape'
  BY ConstantTypes DEF Inv, TypeOK, RequestShape, Finish
<1>2. log \in [Log -> LogRow] /\ log' \in [Log -> LogRow]
  BY DEF Inv, TypeOK
<1>3. TypeOK'
  BY <1>1, <1>2 DEF Inv, TypeOK
<1>4. \A k \in Log : log'[k].row = "live" /\ log'[k].running => Running(k)
  BY <1>2 DEF Running, Live
<1>5. OneRunningTimer'
  BY <1>4 DEF Inv, OneRunningTimer, Running, Live
<1>6. PaidForCountedWork'
  BY DEF Inv, PaidForCountedWork
<1> QED
  BY <1>1, <1>3, <1>5, <1>6 DEF Inv

LEMMA WriteInv ==
    ASSUME Inv, NEW r \in Request, Write(r)
    PROVE  Inv'
<1>1. req[r] \in RequestRecord /\ Shaped(req[r]) /\ log \in [Log -> LogRow]
  BY DEF Inv, TypeOK, RequestShape
<1>2. CASE CreateInsert(r)
  <2> DEFINE row == [row |-> "live", week |-> req[r].week, running |-> FALSE,
                     minutes |-> req[r].minutes, billable |-> req[r].billable]
  <2>1. req[r].l \in Log /\ row \in LogRow /\ ~row.running
    BY <1>1, <1>2 DEF CreateInsert, Shaped, RequestRecord, LogRow
  <2>2. /\ log' = [log EXCEPT ![req[r].l] = row] /\ Finish(r) /\ sheet' = sheet /\ now' = now
    BY <1>2 DEF CreateInsert
  <2> HIDE DEF row
  <2> QED
    BY <2>1, <2>2, WriteLogInv
<1>3. CASE EditUpdate(r)
  <2> DEFINE old == log[req[r].l]
             row == Edited(old, req[r].minutes, req[r].billable)
  <2>1. /\ req[r].l \in Log /\ old \in LogRow
        /\ req[r].minutes \in Minutes \cup {None} /\ req[r].billable \in BOOLEAN \cup {None}
    BY <1>1, <1>3 DEF EditUpdate, Shaped, RequestRecord
  <2>2. row \in LogRow /\ row.row = old.row /\ (row.running => old.running)
    BY <2>1, EditedType
  <2>3. /\ log' = [log EXCEPT ![req[r].l] = row] /\ Finish(r) /\ sheet' = sheet /\ now' = now
    BY <1>3 DEF EditUpdate
  <2>4. row.row = "live" /\ row.running => Running(req[r].l)
    BY <2>2 DEF Running, Live
  <2> HIDE DEF row
  <2> QED
    BY <2>1, <2>2, <2>3, <2>4, WriteLogInv
<1>4. CASE DeleteUpdate(r)
  <2> DEFINE row == [log[req[r].l] EXCEPT !.row = "deleted"]
  <2>1. req[r].l \in Log
    BY <1>1, <1>4 DEF DeleteUpdate, Shaped
  <2>2. row \in LogRow /\ row.row = "deleted"
    BY <1>1, <2>1 DEF LogRow
  <2>3. /\ log' = [log EXCEPT ![req[r].l] = row] /\ Finish(r) /\ sheet' = sheet /\ now' = now
    BY <1>1, <1>4 DEF DeleteUpdate
  <2> HIDE DEF row
  <2> QED
    BY <2>1, <2>2, <2>3, WriteLogInv
<1>5. CASE SubmitInsert(r)
  <2> DEFINE w == req[r].week
             new == Submitted(sheet[w], req[r].total, req[r].pay)
  <2>1. /\ w \in Week /\ req[r].total \in Summands /\ req[r].pay \in Summands
        /\ \E s \in req[r].total : s[2] > 0
        /\ req[r].pay \subseteq req[r].total
        /\ sheet \in [Week -> Sheet]
    BY <1>1, <1>5 DEF SubmitInsert, Shaped, RequestRecord, Inv, TypeOK
  <2>2. sheet' = [sheet EXCEPT ![w] = new] /\ Finish(r) /\ log' = log /\ now' = now
    BY <1>5 DEF SubmitInsert
  <2>3. new \in Sheet
    BY <2>1 DEF Submitted, Sheet
  <2>4. (\E s \in new.total : s[2] > 0) /\ new.pay \subseteq new.total
    BY <2>1 DEF Submitted, Sheet, Inv, PaidForCountedWork
  <2>5. TypeOK' /\ RequestShape'
    BY <2>1, <2>2, <2>3, ConstantTypes DEF Inv, TypeOK, RequestShape, Finish
  <2>6. OneRunningTimer'
    BY <2>2 DEF Inv, OneRunningTimer, Running, Live
  <2>7. PaidForCountedWork'
    BY <2>1, <2>2, <2>4 DEF Inv, PaidForCountedWork
  <2> QED
    BY <2>5, <2>6, <2>7 DEF Inv
<1> QED
  BY <1>2, <1>3, <1>4, <1>5 DEF Write

LEMMA DirectInv == Inv /\ Direct => Inv'
<1> SUFFICES ASSUME Inv, Direct PROVE Inv'
  OBVIOUS
<1>0. log \in [Log -> LogRow] /\ now \in Week /\ sheet \in [Week -> Sheet]
  BY DEF Inv, TypeOK
<1>1. CASE NextWeek
  <2>1. now' \in Week
    BY <1>0, <1>1, ConstantsAssumption DEF NextWeek, Week, ConstantsAssumption
  <2> QED
    BY <1>1, <2>1 DEF NextWeek, Inv, TypeOK, RequestShape, OneRunningTimer, Running, Live,
                      PaidForCountedWork
<1>2. ASSUME NEW l \in Log, StartTimer(l) PROVE Inv'
  <2> DEFINE row == [NoLog EXCEPT !.row = "live", !.week = now, !.running = TRUE]
  <2>1. row \in LogRow
    BY <1>0, ConstantTypes DEF LogRow
  <2>2. /\ log' = [log EXCEPT ![l] = row] /\ \A k \in Log : ~Running(k)
        /\ sheet' = sheet /\ now' = now /\ req' = req
    BY <1>2 DEF StartTimer, RunningConflict
  <2> HIDE DEF row
  <2>3. TypeOK' /\ RequestShape' /\ PaidForCountedWork'
    BY <2>1, <2>2 DEF Inv, TypeOK, RequestShape, PaidForCountedWork
  <2>4. \A k \in Log \ {l} : log'[k] = log[k]
    BY <1>0, <2>2
  <2>5. OneRunningTimer'
    BY <2>2, <2>4 DEF OneRunningTimer, Running, Live
  <2> QED
    BY <2>3, <2>5 DEF Inv
<1>3. ASSUME NEW l \in Log, NEW m \in Minutes, StopTimer(l, m) PROVE Inv'
  <2> DEFINE row == [log[l] EXCEPT !.running = FALSE, !.minutes = m]
  <2>1. row \in LogRow /\ ~row.running
    BY <1>0 DEF LogRow
  <2>2. log' = [log EXCEPT ![l] = row] /\ sheet' = sheet /\ now' = now /\ req' = req
    BY <1>0, <1>3 DEF StopTimer
  <2> HIDE DEF row
  <2> QED
    BY <2>1, <2>2, WriteLogInv
<1>4. ASSUME NEW l \in Log, NEW w \in Week, NEW m \in Minutes, ImportWorklog(l, w, m)
      PROVE  Inv'
  <2> DEFINE row == [NoLog EXCEPT !.row = "live", !.week = w, !.minutes = m]
  <2>1. row \in LogRow /\ ~row.running
    BY ConstantTypes DEF LogRow, NoLog
  <2>2. log' = [log EXCEPT ![l] = row] /\ sheet' = sheet /\ now' = now /\ req' = req
    BY <1>4 DEF ImportWorklog
  <2> HIDE DEF row
  <2> QED
    BY <2>1, <2>2, WriteLogInv
<1>5. ASSUME NEW w \in Week, NEW from, NEW to \in {"approved", "paid"}, from # "open",
             Advance(w, from, to)
      PROVE  Inv'
  <2> DEFINE new == [sheet[w] EXCEPT !.status = to]
  <2>1. /\ new \in Sheet /\ new.total = sheet[w].total /\ new.pay = sheet[w].pay
        /\ sheet[w].status # "open"
    BY <1>0, <1>5 DEF Advance, Sheet
  <2>2. sheet' = [sheet EXCEPT ![w] = new] /\ log' = log /\ now' = now /\ req' = req
    BY <1>0, <1>5 DEF Advance
  <2> HIDE DEF new
  <2>3. TypeOK' /\ RequestShape' /\ OneRunningTimer'
    BY <2>1, <2>2 DEF Inv, TypeOK, RequestShape, OneRunningTimer, Running, Live
  <2>4. PaidForCountedWork'
    BY <1>0, <2>1, <2>2 DEF Inv, PaidForCountedWork
  <2> QED
    BY <2>3, <2>4 DEF Inv
<1>6. ASSUME NEW w \in Week, Approve(w) \/ MarkPaid(w) PROVE Inv'
  BY <1>5, <1>6 DEF Approve, MarkPaid
<1> QED
  BY <1>1, <1>2, <1>3, <1>4, <1>6 DEF Direct

LEMMA NextInv == Inv /\ [Next]_vars => Inv'
<1> SUFFICES ASSUME Inv, [Next]_vars PROVE Inv'
  OBVIOUS
<1>1. CASE UNCHANGED vars
  BY <1>1 DEF vars, Inv, TypeOK, RequestShape, OneRunningTimer, Running, Live,
              PaidForCountedWork
<1> QED
  BY <1>1, DirectInv, AcceptInv, WriteInv DEF Next

(* The invariant the theorems below are read off. *)
THEOREM Invariance == Spec => []Inv
  BY InitInv, NextInv, PTL DEF Spec

(* Rows and requests keep their shapes. *)
THEOREM TypeCorrect == Spec => []TypeOK
<1>1. Inv => TypeOK
  BY DEF Inv
<1> QED
  BY <1>1, Invariance, PTL

(* A user never has two timers running, however many requests overlap. *)
THEOREM OneTimer == Spec => []OneRunningTimer
<1>1. Inv => OneRunningTimer
  BY DEF Inv
<1> QED
  BY <1>1, Invariance, PTL

(* A week that left "open" was worth submitting, and pays for its own hours. *)
THEOREM PaidWork == Spec => []PaidForCountedWork
<1>1. Inv => PaidForCountedWork
  BY DEF Inv
<1> QED
  BY <1>1, Invariance, PTL

(***************************************************************************)
(* A submitted week only moves on                                          *)
(***************************************************************************)

(* What a step may do to a timesheet. *)
SheetForward ==
    \A w \in Week :
        /\ Rank(sheet[w].status) <= Rank(sheet'[w].status)
        /\ sheet[w].status # "open" =>
             sheet'[w].total = sheet[w].total /\ sheet'[w].pay = sheet[w].pay

(* Totals and pay of a submitted week never change, and its status only moves
   on, however submissions and approvals overlap. *)
THEOREM MovesForward == Spec => TimesheetMovesForward
<1>1. ASSUME Inv, [Next]_vars PROVE SheetForward
  <2>0. /\ sheet \in [Week -> Sheet] /\ req \in [Request -> RequestRecord]
        /\ \A w \in Week : sheet[w].status \in {"open", "submitted", "approved", "paid"}
    BY <1>1 DEF Inv, TypeOK, Sheet
  <2>1. CASE sheet' = sheet
    BY <2>0, <2>1 DEF SheetForward, Rank
  <2>2. ASSUME NEW r \in Request, SubmitInsert(r) PROVE SheetForward
    <3> DEFINE w == req[r].week
               new == Submitted(sheet[w], req[r].total, req[r].pay)
    <3>1. sheet' = [sheet EXCEPT ![w] = new]
      BY <2>2 DEF SubmitInsert
    <3>2. sheet[w].status # "open" => new = sheet[w]
      BY DEF Submitted
    <3>3. sheet[w].status = "open" => new.status = "submitted"
      BY DEF Submitted
    <3> HIDE DEF new
    <3> QED
      BY <2>0, <3>1, <3>2, <3>3 DEF SheetForward, Rank
  <2>3. ASSUME NEW w \in Week, Approve(w) \/ MarkPaid(w) PROVE SheetForward
    <3>1. PICK to \in {"approved", "paid"} :
            /\ sheet[w].status = IF to = "paid" THEN "approved" ELSE "submitted"
            /\ sheet' = [sheet EXCEPT ![w].status = to]
      BY <2>3 DEF Approve, MarkPaid, Advance
    <3>2. /\ sheet'[w].total = sheet[w].total /\ sheet'[w].pay = sheet[w].pay
          /\ sheet'[w].status = to
      BY <2>0, <3>1 DEF Sheet
    <3>3. Rank(sheet[w].status) <= Rank(sheet'[w].status)
      BY <3>1, <3>2 DEF Rank
    <3>4. \A v \in Week \ {w} : sheet'[v] = sheet[v]
      BY <2>0, <3>1
    <3>5. \A v \in Week : Rank(sheet[v].status) <= Rank(sheet[v].status)
      BY <2>0 DEF Rank
    <3> QED
      BY <3>2, <3>3, <3>4, <3>5 DEF SheetForward
  <2>4. CASE UNCHANGED vars
    BY <2>1, <2>4 DEF vars
  <2> QED
    BY <1>1, <2>1, <2>2, <2>3, <2>4
       DEF Next, Direct, Accept, Write, NextWeek, StartTimer, StopTimer, ImportWorklog,
           CreateCheck, EditCheck, DeleteCheck, SubmitRead, Begin, CreateInsert, EditUpdate,
           DeleteUpdate
<1>2. Inv /\ [Next]_vars => [SheetForward]_vars
  BY <1>1
<1> QED
  BY <1>2, Invariance, PTL DEF Spec, TimesheetMovesForward, SheetForward

(***************************************************************************)
(* One request at a time                                                   *)
(***************************************************************************)

LEMMA AloneInit == Init => Alone
  BY DEF Init, Alone, Idle

(* A check that passes, when nobody else is in flight, stands. *)
LEMMA AloneAccept ==
    ASSUME ~Overlap, Inv, Alone, NEW r \in Request, Accept(r)
    PROVE  Alone'
<1>1. ASSUME NEW name, NEW q, Begin(r, name, q), Stands(q)
      PROVE  Alone'
  <2>1. \A p \in Request : req[p].pc = "idle"
    BY <1>1 DEF Begin, Ready
  <2>2. req' = [req EXCEPT ![r] = q] /\ log' = log /\ req \in [Request -> RequestRecord]
    BY <1>1 DEF Begin, Inv, TypeOK
  <2>3. \A p \in Request : IF p = r THEN req'[p] = q ELSE req'[p].pc = "idle"
    BY <2>1, <2>2
  <2>4. sheet' = sheet
    BY <1>1 DEF Begin
  <2>5. Stands(q)'
    BY <1>1, <2>2, <2>4 DEF Stands, Locked, Counted, Billable, Closed, Live
  <2> QED
    BY <2>3, <2>5 DEF Alone, Stands
<1> QED
  BY <1>1 DEF Accept, CreateCheck, EditCheck, DeleteCheck, SubmitRead, Stands, Fresh, Idle

(* A handler that writes is done, and was the only one. *)
LEMMA AloneWrite ==
    ASSUME Inv, Alone, NEW r \in Request, Write(r)
    PROVE  Alone'
<1>1. req' = [req EXCEPT ![r] = Idle] /\ req[r].pc # "idle"
  BY DEF Write, CreateInsert, EditUpdate, DeleteUpdate, SubmitInsert, Finish
<1>2. \A p \in Request : req'[p].pc = "idle"
  BY <1>1 DEF Alone, Inv, TypeOK, Idle
<1> QED
  BY <1>2 DEF Alone

(* A handler of one statement runs while no other does. *)
LEMMA AloneDirect == ~Overlap /\ Alone /\ Direct => Alone'
<1> SUFFICES ASSUME ~Overlap, Direct PROVE Alone'
  OBVIOUS
<1>1. Ready /\ req' = req
  BY DEF Direct, NextWeek, StartTimer, StopTimer, ImportWorklog, Approve, MarkPaid, Advance
<1> QED
  BY <1>1 DEF Alone, Ready

(* One request at a time, what a request checked stands until it writes. *)
THEOREM AloneInvariance == ~Overlap => (Spec => [](Inv /\ Alone))
<1> SUFFICES ASSUME ~Overlap PROVE Spec => [](Inv /\ Alone)
  OBVIOUS
<1>1. Inv /\ Alone /\ [Next]_vars => Alone'
  <2> SUFFICES ASSUME Inv, Alone, [Next]_vars PROVE Alone'
    OBVIOUS
  <2>1. CASE UNCHANGED vars
    BY <2>1 DEF vars, Alone, Stands, Locked, Counted, Billable, Closed, Live
  <2> QED
    BY <2>1, AloneAccept, AloneWrite, AloneDirect DEF Next
<1> QED
  BY <1>1, AloneInit, InitInv, NextInv, PTL DEF Spec

(* What a step must leave alone for ClosedLogsOfApprovedWeekStay. *)
ClosedStay == \A l \in Log : Closed(l) /\ Approved(log[l].week) => log'[l] = log[l]

(* One request at a time, what was closed when its week was approved stays as
   it is, for any weeks, logs and handlers, timers and imports included. *)
THEOREM ClosedLogsStay == ~Overlap => (Spec => ClosedLogsOfApprovedWeekStay)
<1> SUFFICES ASSUME ~Overlap PROVE Spec => ClosedLogsOfApprovedWeekStay
  OBVIOUS
<1>1. ASSUME Inv, Alone, [Next]_vars PROVE ClosedStay
  <2> SUFFICES ASSUME NEW k \in Log, Closed(k), Approved(log[k].week)
               PROVE  log'[k] = log[k]
    BY DEF ClosedStay
  <2>0. log \in [Log -> LogRow]
    BY <1>1 DEF Inv, TypeOK
  <2>1. ASSUME NEW r \in Request, Write(r) PROVE log'[k] = log[k]
    <3>1. Shaped(req[r]) /\ (req[r].pc # "idle" => Stands(req[r]))
      BY <1>1 DEF Inv, RequestShape, Alone
    <3>2. CASE CreateInsert(r)
      BY <2>0, <3>1, <3>2 DEF CreateInsert, Stands, Closed, Live
    <3>3. CASE EditUpdate(r) \/ DeleteUpdate(r)
      <4>1. req[r].l # k
        BY <3>1, <3>3 DEF EditUpdate, DeleteUpdate, Stands, Locked, Approved
      <4> QED
        BY <2>0, <3>3, <4>1 DEF EditUpdate, DeleteUpdate
    <3>4. CASE SubmitInsert(r)
      BY <3>4 DEF SubmitInsert
    <3> QED
      BY <2>1, <3>2, <3>3, <3>4 DEF Write
  <2>2. CASE Direct
    <3>1. ASSUME NEW l \in Log, NEW row, log' = [log EXCEPT ![l] = row], Fresh(l) \/ Running(l)
          PROVE  log'[k] = log[k]
      BY <2>0, <3>1 DEF Fresh, Running, Closed, Live
    <3>2. ASSUME NEW l \in Log, NEW m, StopTimer(l, m) PROVE log'[k] = log[k]
      BY <2>0, <3>2 DEF StopTimer, Running, Closed
    <3> QED
      BY <2>2, <3>1, <3>2
         DEF Direct, NextWeek, StartTimer, ImportWorklog, Approve, MarkPaid, Advance
  <2>3. CASE UNCHANGED vars
    BY <2>3 DEF vars
  <2> QED
    BY <1>1, <2>1, <2>2, <2>3
       DEF Next, Accept, CreateCheck, EditCheck, DeleteCheck, SubmitRead, Begin
<1>2. Inv /\ Alone /\ [Next]_vars => [ClosedStay]_vars
  BY <1>1
<1>3. Spec => [](Inv /\ Alone)
  BY AloneInvariance
<1> QED
  BY <1>2, <1>3, PTL DEF Spec, ClosedLogsOfApprovedWeekStay, ClosedStay

(* What a step that submits must write for SubmissionIsAccurate. *)
Accurate ==
    \A w \in Week :
        sheet[w].status = "open" /\ sheet'[w].status = "submitted" =>
            \A l \in Log, m \in Minutes :
                LET worked == Closed(l) /\ log[l].week = w /\ log[l].minutes = m IN
                /\ <<l, m>> \in sheet'[w].total <=> worked
                /\ <<l, m>> \in sheet'[w].pay <=> worked /\ log[l].billable

(* One request at a time, a submission totals the logs of its week as they are
   at that moment, and pays for the billable ones among them. *)
THEOREM AccurateSubmissions == ~Overlap => (Spec => SubmissionIsAccurate)
<1> SUFFICES ASSUME ~Overlap PROVE Spec => SubmissionIsAccurate
  OBVIOUS
<1>1. ASSUME Inv, Alone, [Next]_vars PROVE Accurate
  <2> SUFFICES ASSUME NEW w \in Week, sheet[w].status = "open",
                      sheet'[w].status = "submitted",
                      NEW l \in Log, NEW m \in Minutes
               PROVE  LET worked == Closed(l) /\ log[l].week = w /\ log[l].minutes = m IN
                      /\ <<l, m>> \in sheet'[w].total <=> worked
                      /\ <<l, m>> \in sheet'[w].pay <=> worked /\ log[l].billable
    BY DEF Accurate
  <2>0. sheet \in [Week -> Sheet]
    BY <1>1 DEF Inv, TypeOK
  <2>1. PICK r \in Request : SubmitInsert(r)
    <3>1. sheet' # sheet
      OBVIOUS
    <3>2. ASSUME NEW v \in Week, Approve(v) \/ MarkPaid(v) PROVE FALSE
      BY <2>0, <3>2 DEF Approve, MarkPaid, Advance, Sheet
    <3> QED
      BY <1>1, <3>1, <3>2
         DEF Next, vars, Direct, Accept, Write, NextWeek, StartTimer, StopTimer, ImportWorklog,
             CreateCheck, EditCheck, DeleteCheck, SubmitRead, Begin, CreateInsert, EditUpdate,
             DeleteUpdate
  <2>2. req[r].week = w
    BY <2>0, <2>1 DEF SubmitInsert
  <2>3. sheet'[w].total = Counted(w) /\ sheet'[w].pay = Billable(Counted(w))
    BY <1>1, <2>0, <2>1, <2>2 DEF SubmitInsert, Submitted, Alone, Stands
  <2>4. <<l, m>> \in Counted(w) <=> Closed(l) /\ log[l].week = w /\ log[l].minutes = m
    BY DEF Counted
  <2>5. <<l, m>> \in Billable(Counted(w)) <=> <<l, m>> \in Counted(w) /\ log[l].billable
    BY DEF Billable
  <2> QED
    BY <2>3, <2>4, <2>5
<1>2. Inv /\ Alone /\ [Next]_vars => [Accurate]_vars
  BY <1>1
<1>3. Spec => [](Inv /\ Alone)
  BY AloneInvariance
<1> QED
  BY <1>2, <1>3, PTL DEF Spec, SubmissionIsAccurate, Accurate
=============================================================================
