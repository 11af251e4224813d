CONSTANTS
    Levels <- TwoLevels
    Threshold <- OddThreshold
    Duration <- MilderIsLonger
    Cooldown = 3
    MaxValue = 4
    MaxTime = 4
    Expr = Expr
    None = None
    Rules = {"levels", "expression"}
SPECIFICATION AlertingSpec
INVARIANTS
    TypeOK
    TriggerAfterDuration
    OnlyCooldownWithholdsAlert
    WithheldHasReason
PROPERTIES
    CooldownRespected
