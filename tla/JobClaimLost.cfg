SPECIFICATION FairSpec
CONSTANTS
    Job = {j1, j2, j3}
    Worker = {w1}
    Periodic = {scan}
    OneShot = {hook}
    Unknown = {}
    MayFail = {}
    MaxAttempts = 2
    Faults = {"crash"}
PROPERTIES EveryJobFinishes
