SPECIFICATION Spec
CONSTANTS
    None = None
    NaN = NaN
    Files <- MCFiles
    Links <- MCLinks
    GradeRank <- MCGradeRank
    DefaultBudget <- MCDefaultBudget
    Skills <- MCSkills
    Summaries <- MCSummaries
    Texts <- MCTexts
    Specs <- MCSpecs
    Rollouts <- MCRollouts
    Draws <- MCDraws
    Reports <- MCReports
    Probes <- MCProbes
    Cards <- MCCards
    Briefs <- MCBriefs
    Libraries <- MCLibraries
    Items <- MCItems
    Legs <- MCLegs
    Outcomes <- MCOutcomes
    FleetSpecs <- MCFleetSpecs
    Hosts <- MCHosts
    Adapters <- MCAdapters
    Installs <- MCInstalls
    Environments <- MCEnvironments
INVARIANTS
    PassesAreSound
    OutOfReach
