CONSTANTS
    Collectors = {c1, c2}
    Requests = {r1}
    AlertIds = {a1, a2, a3}
    EventIds = {e1, e2}
    Keys = {k1}
    Kinds = {threshold}
    MaxSeverity = 2
    Window = 0
    MaxTime = 1
    MaxChanges = 1
    UserOps = {"ack_alert", "resolve_alert", "ack_event", "resolve_event"}
    NoAlert = NoAlert
    NoEvent = NoEvent
SYMMETRY Symmetry
SPECIFICATION Spec
INVARIANTS
    TypeOK
    EventNeverEmpty
    AlertCountExact
    SeverityIsHighest
    OneActiveAlertPerMetric
CHECK_DEADLOCK FALSE
