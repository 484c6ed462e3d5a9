\* A score target with every budget, pivots and a retry.
SPECIFICATION Spec
CONSTANTS
    Absent = Absent
    NoDim = NoDim
    NoReport = NoReport
    Dims = {"d1", "d2"}
    Fixtures = {"f1"}
    Reports <- ScoreReports
    Paths = {}
    NewPaths = {}
    Resolutions = {}
    Costs = {0, 1}
    Durations = {0, 1}
    ClockBound = 5
    TargetGrade = 5
    TargetScore = {10}
    MinScoreGain = 1
    MaxIterations = 7
    PlateauPatience = 1
    PlateauPivots = 2
    TokenBudget = {2}
    MaxWallSeconds = {1}
    MaxToolRetries = 1
    Compressor = FALSE
    CompressionInterval = 1
    MinLearnings = 1
INVARIANTS PivotsGetTheirWindow PlateauMeansNoGain OverrunIsOneAttempt
PROPERTIES PivotRotates KeepsPromise Termination
CHECK_DEADLOCK FALSE
