CONSTANTS
    a1 = a1
    a2 = a2
    s1 = s1
    s2 = s2
    t1 = t1
    t2 = t2
    t3 = t3
    None = None
    Alerts = {a1}
    Subs = {s1, s2}
    EventOf <- OneEvent
    Severity <- Rising
    Probes = {}
    Matches <- AllMatch
    TimeRanged = {s1}
    AlertTargets <- OneAndOne
    RecoveryTargets <- TwoAndOne
    Cooldown = 1
    Window = 0
    MaxSilence = 0
    Ops = {"acknowledge", "resolve", "delete", "crash"}
SPECIFICATION Spec
INVARIANTS
    OneRecoveryPerAlert
    RecoveryOnlyToReceivers
PROPERTIES
    NoAlertAfterRecovery
    Notifies
