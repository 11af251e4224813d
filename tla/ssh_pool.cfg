CONSTANTS
    Conns = {k1, k2}
    Collectors = {u1}
    Requests = {u2}
    Health = health
    None = none
    MaxIdle = 1
    BackoffBase = 1
    BackoffMax = 2
    MaxAbandoned = 1
SPECIFICATION FairSpec
INVARIANTS TypeOK PooledIsOpen OneAttempt
PROPERTIES CollectorsBackOff AcquireReturns
