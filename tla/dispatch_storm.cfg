CONSTANTS
    a1 = a1
    a2 = a2
    s1 = s1
    s2 = s2
    t1 = t1
    t2 = t2
    t3 = t3
    None = None
    Alerts = {a1, a2}
    Subs = {s1}
    EventOf <- OneEvent
    Severity <- Rising
    Probes = {}
    Matches <- AllMatch
    TimeRanged = {}
    AlertTargets <- BothTargets
    RecoveryTargets <- BothTargets
    Cooldown = 1
    Window = 1
    MaxSilence = 1
    Ops = {"silence", "crash"}
SYMMETRY TargetSymmetry
SPECIFICATION Spec
INVARIANTS
    TypeOK
PROPERTIES
    NoStorm
