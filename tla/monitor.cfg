SPECIFICATION Spec
CONSTANTS
    Datasources = {d1, d2}
    Integrated = {d1}
    Ranges <- MCRanges
    None = None
    Window = 2
    MinPoints = 1
    Margin = 1
    MaxPoints = 2
    MaxSamples = 2
    MaxCalls = 3
    MaxRequests = 2
    MaxVersions = 3
    MaxManagers = 2
    MaxFaults = 1
    MaxReconnectAttempts = 1
INVARIANTS
    TypeOK
    ChartOfSelected
    ChartOrdered
    CardAgrees
    LossIsVisible
    IntegratedShownOnce
PROPERTY NoLostSample
CHECK_DEADLOCK FALSE
