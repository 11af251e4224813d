CONSTANTS
    None = None
    Events = {e1, e2}
    Background = {}
    Window = 1
    Reasons = {"needed", "recovered"}
    MaxChanges = 2
SPECIFICATION FairSpec
PROPERTIES
    Diagnosed
CHECK_DEADLOCK FALSE
