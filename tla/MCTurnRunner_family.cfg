SPECIFICATION FairSpec
CONSTANTS
    main = main
    aside = aside
    lead = lead
    child = child
    NoTurn = NoTurn
    NoOp = 0
    Threads = {main, aside}
    Turns = {lead, child}
    ThreadOf <- Family
    Parent <- Lineage
    TurnOf <- Both
    Ops = {1}
    Conflicts = {}
    Requests = {}
    MaxInputs = 1
    Models = {1, 2, 3}
    MaxGeneration = 1
    MaxRetries = 0
    Parallel = {1}
    Policy <- AlwaysAllow
    Responses <- Batch
    Crashes = FALSE
    Stops = FALSE
CHECK_DEADLOCK FALSE
PROPERTIES
    KeepsPromise
    RevocationStops
