\* The letter ladder with fork-card reversals, retries, files on disk and a
\* compression pass after every accepted refactor.
SPECIFICATION Spec
CONSTANTS
    Absent = Absent
    NoDim = NoDim
    NoReport = NoReport
    Dims = {"d1", "d2"}
    Fixtures = {"f1"}
    Reports <- LadderReports
    Paths = {"src"}
    NewPaths = {}
    Resolutions = {"reverse"}
    Costs = {0}
    Durations = {0}
    ClockBound = 0
    TargetGrade = 5
    TargetScore = {}
    MinScoreGain = 1
    MaxIterations = 4
    PlateauPatience = 1
    PlateauPivots = 1
    TokenBudget = {}
    MaxWallSeconds = {}
    MaxToolRetries = 1
    Compressor = TRUE
    CompressionInterval = 1
    MinLearnings = 2
INVARIANTS TypeOK TreeIsGraded ConvergedIsEarned LineageImproves CompoundedIsKept SafetyRollsBack IterationBound
CHECK_DEADLOCK FALSE
