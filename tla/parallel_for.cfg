CONSTANTS
    Calls <- SmallCalls
SPECIFICATION FairSpec
CHECK_DEADLOCK FALSE
INVARIANTS
    ExactlyOnce
    NoUseAfterReturn
    FixedBlocks
PROPERTIES
    Returns
