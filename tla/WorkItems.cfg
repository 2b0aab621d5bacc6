SPECIFICATION WorkSpec
CONSTANTS
    Log = {l1, l2}
    LastWeek = 2
    MaxMinutes = 1
    Request = {r1, r2}
    Handlers = {"timer", "create", "edit", "delete", "submit", "import"}
    Overlap = FALSE
    Task = {t1, t2, t3}
    Card = {k1, k2}
    Column = {c1, c2}
    Template = {m1, m2}
    Project = {p1, p2}
    Colleague = {u1, u2}
    Comment = {n1}
    Slot = {s1}
    None = None
INVARIANTS TypesOK BoardIsSound  RecordDoesNotLie  EachHearsOnce
PROPERTIES ClosedLogsOfApprovedWeekStay SubmissionIsAccurate LandsWhereDropped  OnlyReaddingTakesTheLastLead RestoreIsExact
CHECK_DEADLOCK FALSE
