SPECIFICATION Spec
CONSTANTS
    Log = {l1, l2}
    LastWeek = 2
    MaxMinutes = 1
    Request = {r1}
    Handlers = {"timer", "create", "submit"}
    Overlap = FALSE
    None = None
SYMMETRY Interchangeable
PROPERTIES ApprovedWeekIsLocked
CHECK_DEADLOCK FALSE
