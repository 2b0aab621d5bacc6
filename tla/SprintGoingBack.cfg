SPECIFICATION Spec
CONSTANTS
    Sprint = {s1}
    Task = {t1}
    Subtask = {}
    Request = {r1, r2}
    Handlers = {"start", "velocity"}
    Backlog = Backlog
    None = None
PROPERTIES NoGoingBack
CHECK_DEADLOCK FALSE
