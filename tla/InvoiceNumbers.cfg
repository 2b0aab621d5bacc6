SPECIFICATION Spec
CONSTANTS
    Invoice = {i1, i2, i3}
    Amount = {0, 1, 2}
    Request = {r1}
    MaxDeleted = 1
    None = None
INVARIANTS NumberIsFree
CHECK_DEADLOCK FALSE
