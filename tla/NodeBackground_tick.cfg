SPECIFICATION Spec
CONSTANTS
    k1 = k1
    k2 = k2
    u1 = u1
    TickThreads = {k1}
    NoThread = NoThread
    Upstreams = {u1}
    AmRoot = FALSE
    PingCheckInterval = 2
    HousekeepingPeriod = 3
    ActivityTimeout = 2
    Granularity = 1
    TimerDelays = {0, 1, 4}
    StartTime = 3
    MaxTime = 8
    TimeModulus = 16
INVARIANTS
    TypeOK
    PingCheckTimely
