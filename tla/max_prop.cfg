CONSTANTS
    i0 = i0
    i1 = i1
    i2 = i2
    Containers = {i0, i1, i2}
    Workload <- ThreeContainers
    Cores = 4
    MaxPerCont = 4
    Assignment = "max_prop"
    Priorities = 1
    MaxFaults = 0
    Crashes = FALSE
    SlowContainers = FALSE
    MemoryPressure = FALSE
    DockerErrors = FALSE
    TFOutlivesRegistration = TRUE
SPECIFICATION Spec
CHECK_DEADLOCK FALSE
INVARIANTS
    NoOversubscription
PROPERTIES
    ImplementsLedger
