CONSTANTS
    i0 = i0
    i1 = i1
    i2 = i2
    Containers = {i0}
    Workload <- ToOneCore
    Cores = 4
    MaxPerCont = 4
    Assignment = "always_attend"
    Priorities = 2
    MaxFaults = 2
    Crashes = TRUE
    SlowContainers = TRUE
    MemoryPressure = TRUE
    DockerErrors = TRUE
    TFOutlivesRegistration = FALSE
SPECIFICATION Spec
CHECK_DEADLOCK FALSE
INVARIANTS
    TypeOK
    NoOvercommit
PROPERTIES
    FailedUntilRestarted
