SPECIFICATION Spec
CONSTANTS
    None = None
    Files <- MCFiles
    Links <- MCLinks
    GradeRank <- MCGradeRank
    DefaultBudget <- MCDefaultBudget
    Verdicts <- MCVerdicts
    Requests <- MCRequests
    Corpus <- MCCorpus
    Sanitized <- MCSanitized
    MaxRuns = 2
INVARIANTS
    TypeOK
    ShippableIsConfirmed
    PublishedIsSettled
    ImportedOnce
PROPERTY
    ImportLeavesTrends
