CONSTANTS
    Worlds <- AllWorlds
    Updates <- SomeUpdates
    First <- FirstThreads
    MaxProbes = 1
    CoresCpu = 4
SPECIFICATION FairSpec
CHECK_DEADLOCK FALSE
INVARIANTS
    NoUpdateForgotten
    LatestApplied
    AnswersMatch
    AckInOnePiece
    LiveKept
PROPERTIES
    ExitAttended
    AckEndsClient
