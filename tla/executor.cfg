CONSTANTS
    Runs <- Steps
    Threads = {t1, t2}
SPECIFICATION FairSpec
CHECK_DEADLOCK FALSE
INVARIANTS
    TypeOK
    CountExact
    OpsExact
    IterationAlive
    ParallelIterations
    InputsWhole
    FinishOnce
    Complete
    OnlyEntryAfterDelete
PROPERTIES
    ImplementsDataflow
    StepEnds
