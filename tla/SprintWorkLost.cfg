SPECIFICATION Spec
CONSTANTS
    Sprint = {s1}
    Task = {t1}
    Subtask = {}
    Request = {r1, r2}
    Handlers = {"delete_tasks", "assign"}
    Backlog = Backlog
    None = None
INVARIANTS NoWorkLost
CHECK_DEADLOCK FALSE
