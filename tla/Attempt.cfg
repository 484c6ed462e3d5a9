SPECIFICATION Spec
CONSTANTS
    None = None
    NaN = NaN
    Files <- MCFiles
    Links <- MCLinks
    GradeRank <- MCGradeRank
    DefaultBudget <- MCDefaultBudget
    Emissions <- MCEmissions
    Usages <- MCUsages
    ProviderKeys <- MCProviderKeys
    ToolReports <- MCToolReports
    MaxCalls = 3
INVARIANTS
    CallIsAccounted
    NothingLeaks
