SPECIFICATION RunnerSpec
CONSTANTS
    main = main
    aside = aside
    lead = lead
    child = child
    NoTurn = NoTurn
    NoOp = 0
    Threads = {main}
    Turns = {lead}
    ThreadOf <- OneTurn
    Parent <- NoParent
    TurnOf <- Both
    Ops = {1}
    Conflicts = {}
    Requests = {1, 2}
    MaxInputs = 2
    Models = {1, 2}
    MaxGeneration = 1
    MaxRetries = 0
    Parallel = {1}
    Policy <- AnyPolicy
    Responses <- Batch
    Crashes = TRUE
    Stops = TRUE
CHECK_DEADLOCK FALSE
INVARIANTS
    OffersAreHonoured
