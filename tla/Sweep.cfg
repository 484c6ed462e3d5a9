SPECIFICATION Spec
CONSTANTS
    None = None
    Targets <- MCTargets
    Names = 3
    N_SWEEP <- MCN_SWEEP
    SEEDS <- MCSEEDS
    MIN_TRIALS = 2
    Replies <- MCReplies
    Keys <- MCKeys
    MaxRuns = 2
INVARIANTS
    TalliesAreAnswers
    RerunsAgree
CHECK_DEADLOCK FALSE
