CONSTANTS
    Worlds <- MalleableWorld
    Updates <- SomeUpdates
    First <- FirstThreads
    MaxProbes = 1
    CoresCpu = 4
SPECIFICATION Spec
CHECK_DEADLOCK FALSE
INVARIANTS
    RestartOnlyDead
