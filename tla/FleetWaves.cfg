SPECIFICATION Spec
CONSTANTS
    Items = {1, 2, 3}
    Graphs <- AllGraphs
    Results = {"shippable", "gated", "crash"}
    Coordinator = run_fleet
    Humans = {ann}
    MaxStarts = 2
    Escalating = TRUE
    EarlyTalk = FALSE
    None = None
CHECK_DEADLOCK FALSE
INVARIANTS UpstreamIsCurrent ConvergedIsShippable NothingRunnableIsLeft
PROPERTIES Returns ImplementsWorkflow
