CONSTANTS
    Collectors = {c1}
    Requests = {}
    AlertIds = {a1, a2}
    EventIds = {e1, e2}
    Keys = {k1}
    Kinds = {threshold, baseline}
    MaxSeverity = 1
    Window = 1
    MaxTime = 1
    MaxChanges = 1
    UserOps = {"resolve_event"}
    NoAlert = NoAlert
    NoEvent = NoEvent
SYMMETRY Symmetry
SPECIFICATION Spec
INVARIANTS
    ResolvedEventHasNoOpenAlert
CHECK_DEADLOCK FALSE
