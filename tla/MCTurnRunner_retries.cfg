SPECIFICATION FairSpec
CONSTANTS
    main = main
    aside = aside
    lead = lead
    child = child
    NoTurn = NoTurn
    NoOp = 0
    Threads = {main}
    Turns = {lead}
    ThreadOf <- OneTurn
    Parent <- NoParent
    TurnOf <- Both
    Ops = {}
    Conflicts = {}
    Requests = {}
    MaxInputs = 2
    Models = {1, 2}
    MaxGeneration = 2
    MaxRetries = 1
    Parallel = {}
    Policy <- AnyPolicy
    Responses <- Batch
    Crashes = FALSE
    Stops = TRUE
CHECK_DEADLOCK FALSE
PROPERTIES
    DriverReturns
    RevocationStops
