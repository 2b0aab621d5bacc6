SPECIFICATION Spec
CONSTANTS
    Project = {p1, p2}
    Key = {k1, k2, k3}
    Task = {t1}
    LastTime = 2
    None = None
INVARIANTS LinksLeadHome
CHECK_DEADLOCK FALSE
