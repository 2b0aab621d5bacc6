SPECIFICATION FairSpec
CONSTANTS
    Template = {m1, m2}
    Project = {p1, p2}
    Period <- EachPeriod
    LastTime = 1
    Faults = {"project"}
    None = None
PROPERTIES DueIsMaterialised
CHECK_DEADLOCK FALSE
