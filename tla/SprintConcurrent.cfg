SPECIFICATION Spec
CONSTANTS
    Sprint = {s1, s2}
    Task = {t1}
    Subtask = {}
    Request = {r1, r2}
    Handlers = {"insert", "start", "velocity", "delete_tasks", "assign", "edit"}
    Backlog = Backlog
    None = None
VIEW WithoutEdits
SYMMETRY Interchangeable
INVARIANTS OneActiveSprint 
PROPERTIES SnapshotImmutable
CHECK_DEADLOCK FALSE
