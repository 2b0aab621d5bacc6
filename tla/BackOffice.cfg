SPECIFICATION BackOfficeSpec
CONSTANTS
    Log = {l1, l2, l3}
    LastWeek = 2
    MaxMinutes = 1
    Request = {r1, r2}
    Handlers = {"timer", "submit"}
    Overlap = TRUE
    None = None
    Session = {s1}
    Token = {k1, k2, k3, k4}
    Tab = {b1, b2}
    Grace = 2
    Lifetime = 2
    LastTime = 2
    User = {u1, u2}
    Invite = {i1}
    Secret = {x1, x2}
    Worker = {"ann", "bob"}
    Job = {"t1", "t2"}
    JobProject <- BookProject
    Wage <- BookWage
    Duration = {10}
    MonthDay = {1, 2}
    Invoice = {v1, v2, v3}
    Amount = {0, 1, 2}
    Plans <- OneExport
    MaxTasks = 3
    Sprint = {c1, c2}
    Work = {w1, w2}
    Subtask = {w2}
    Backlog = Backlog
    Story = {"t1", "t2"}
    StoryPoints <- ChartPoints
    StoryDue <- ChartDue
    StoryBlocks <- ChartBlocks
    InstantsADay = 2
    Starts = 1
    Ends = 3
    LastInstant = 5
    FieldId = {f1, f2}
    Card = {t1}
    FieldName = {"Size", "size"}
    FieldType = {"select"}
    Spelling = {"high", "3.0"}
    Options <- FieldOptions
    Fold <- FieldFold
    Numeral <- FieldNumeral
INVARIANTS PartsTypeOK WorkIsKept   ImportedOnce   FieldsAreFound
PROPERTIES TimesheetMovesForward HonestTabsStaySignedIn  ClosedSprintStays CarriedWorkIsKept
CHECK_DEADLOCK FALSE
