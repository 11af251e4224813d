SPECIFICATION LiveSpec
CONSTANTS
    Approvals = {a1}
    MaxTasks = 3
PROPERTY BusyRejected
CHECK_DEADLOCK FALSE
