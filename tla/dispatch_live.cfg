CONSTANTS
    a1 = a1
    a2 = a2
    s1 = s1
    s2 = s2
    t1 = t1
    t2 = t2
    t3 = t3
    None = None
    Alerts = {a1, a2}
    Subs = {s1, s2}
    EventOf <- OwnEvents
    Severity <- Rising
    Probes = {a2}
    Matches <- FirstMatches
    TimeRanged = {}
    AlertTargets <- OwnTarget
    RecoveryTargets <- NoTargets
    Cooldown = 1
    Window = 0
    MaxSilence = 0
    Ops = {"resolve"}
SPECIFICATION FairSpec
PROPERTIES
    EveryoneIsTold
