SPECIFICATION Spec
CONSTANTS
    Calls = {1, 2}
    Targets = {1, 2}
    Slug <- TwoSlugs
    Interval <- TwoIntervals
    MaxParallel <- Widths
    MaxNow = 1
    MaxTicks = 2
    Free = Free
    Gone = Gone
    Partial = Partial
    Null = Null
INVARIANTS
    TypeOK
    WorktreeIsOwn
    GitIsSerial
    NothingLeftOver
    NobodyIsStuck
PROPERTIES
    NoHotLoop
    AnchorIsKept
CHECK_DEADLOCK FALSE
