SPECIFICATION LiveSpec
CONSTANTS
    Approvals = {a1}
    MaxTasks = 3
INVARIANTS
    TypeOK
    OneTurn
PROPERTIES
    Approved
    TurnEnds
CHECK_DEADLOCK FALSE
