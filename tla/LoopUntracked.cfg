\* A refactor may create a file.
SPECIFICATION Spec
CONSTANTS
    Absent = Absent
    NoDim = NoDim
    NoReport = NoReport
    Dims = {"d1", "d2"}
    Fixtures = {"f1"}
    Reports <- GradeReports
    Paths = {"src", "extra"}
    NewPaths = {"extra"}
    Resolutions = {}
    Costs = {0}
    Durations = {0}
    ClockBound = 0
    TargetGrade = 5
    TargetScore = {}
    MinScoreGain = 1
    MaxIterations = 4
    PlateauPatience = 1
    PlateauPivots = 1
    TokenBudget = {}
    MaxWallSeconds = {}
    MaxToolRetries = 1
    Compressor = FALSE
    CompressionInterval = 1
    MinLearnings = 1
INVARIANTS TreeIsGraded
CHECK_DEADLOCK FALSE
