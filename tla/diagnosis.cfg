CONSTANTS
    None = None
    Events = {e1, e2}
    Background = {b1}
    Window = 1
    Reasons = {"needed", "recovered"}
    MaxChanges = 1
SPECIFICATION Spec
INVARIANTS
    TypeOK
PROPERTIES
    ReuseIsRecent
CHECK_DEADLOCK FALSE
