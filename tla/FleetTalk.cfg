SPECIFICATION Spec
CONSTANTS
    Items = {1, 2, 3}
    Graphs <- TalkGraphs
    Results = {"shippable", "gated"}
    Coordinator = run_fleet
    Humans = {ann, bob}
    MaxStarts = 2
    Escalating = TRUE
    EarlyTalk = TRUE
    None = None
CHECK_DEADLOCK FALSE
INVARIANTS TypeOK WorkersOwnTheirItems
PROPERTIES ConvergedIsFinal
