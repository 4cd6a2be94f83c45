CONSTANTS
    i0 = i0
    i1 = i1
    i2 = i2
    Containers = {i0, i1, i2}
    Workload <- Capped
    Cores = 6
    MaxPerCont = 2
    Assignment = "always_attend"
    Priorities = 1
    MaxFaults = 0
    Crashes = FALSE
    SlowContainers = FALSE
    MemoryPressure = FALSE
    DockerErrors = FALSE
    TFOutlivesRegistration = TRUE
SPECIFICATION Spec
CHECK_DEADLOCK FALSE
INVARIANTS
    NoOversubscription
