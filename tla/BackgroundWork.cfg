SPECIFICATION WorkSpec
CONSTANTS
    Job = {j1, j2, j3}
    Worker = {w1, w2}
    Periodic = {scan}
    OneShot = {once}
    Unknown = {}
    MayFail = {scan, once}
    MaxAttempts = 2
    Faults = {"crash", "statement"}
    Ticker = {k1, k2, k3}
    NoteKind = {mention}
    MaxNotes = 2
    Limit = 1
    Sha = {c1, c2}
    Payloads = {"open", "merged", "passed"}
    MaxWaiting = 1
    Delivery = {d1}
    Tries = 3
    File = {f1}
    MaxBackups = 2
    KeepCount = None
    KeepDays = 0
    LastDay = 1
    Query = {"tasks", "project"}
    MaxWrites = 2
    Losses = {"redis", "network", "stop"}
    None = None
INVARIANTS TypesOK RunsAreAccountedFor      
PROPERTIES SucceededOnce ImplementsRetryQueue
CHECK_DEADLOCK FALSE
