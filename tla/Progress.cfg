SPECIFICATION ProgressSpec
CONSTANTS
    Sprint = {s1}
    Task = {t1}
    Subtask = {}
    Request = {r1, r2}
    Handlers = {"start", "velocity", "delete_tasks", "assign"}
    Backlog = Backlog
    None = None
    Job = {j1, j2, j3}
    Worker = {w1, w2}
PROPERTIES EveryRequestEnds QueueKeepsRunning
CHECK_DEADLOCK FALSE
