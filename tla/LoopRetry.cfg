\* A wall budget, and a failing call that is retried.
SPECIFICATION Spec
CONSTANTS
    Absent = Absent
    NoDim = NoDim
    NoReport = NoReport
    Dims = {"d1", "d2"}
    Fixtures = {"f1"}
    Reports <- LadderReports
    Paths = {"src"}
    NewPaths = {}
    Resolutions = {}
    Costs = {0}
    Durations = {0, 1}
    ClockBound = 3
    TargetGrade = 5
    TargetScore = {}
    MinScoreGain = 1
    MaxIterations = 4
    PlateauPatience = 1
    PlateauPivots = 1
    TokenBudget = {}
    MaxWallSeconds = {2}
    MaxToolRetries = 2
    Compressor = FALSE
    CompressionInterval = 1
    MinLearnings = 2
INVARIANTS RetryWithinWall
CHECK_DEADLOCK FALSE
