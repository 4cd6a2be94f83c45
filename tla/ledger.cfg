CONSTANTS
    i0 = i0
    i1 = i1
    i2 = i2
    Containers = {i0, i1, i2}
    Workload <- Mixed
    Cores = 5
    MaxPerCont = 4
    Assignment = "always_attend"
    Priorities = 1
    MaxFaults = 0
    Crashes = FALSE
    SlowContainers = FALSE
    MemoryPressure = FALSE
    DockerErrors = FALSE
    TFOutlivesRegistration = TRUE
SPECIFICATION FairSpec
CHECK_DEADLOCK FALSE
INVARIANTS
    LedgerExact
    NoOversubscription
PROPERTIES
    ImplementsLedger
    RoundEnds
    ClientEnds
