CONSTANTS
    i0 = i0
    i1 = i1
    i2 = i2
    Containers = {i0, i1}
    Workload <- TwoContainers
    Cores = 4
    MaxPerCont = 4
    Assignment = "strict"
    Priorities = 1
    MaxFaults = 1
    Crashes = FALSE
    SlowContainers = FALSE
    MemoryPressure = FALSE
    DockerErrors = FALSE
    TFOutlivesRegistration = TRUE
SPECIFICATION Spec
CHECK_DEADLOCK FALSE
INVARIANTS
    LedgerExact
