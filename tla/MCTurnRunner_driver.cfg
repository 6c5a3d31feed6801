SPECIFICATION RunnerSpec
CONSTANTS
    main = main
    aside = aside
    lead = lead
    child = child
    NoTurn = NoTurn
    NoOp = 0
    Threads = {main}
    Turns = {lead}
    ThreadOf <- OneTurn
    Parent <- NoParent
    TurnOf <- Both
    Ops = {1, 2, 3}
    Conflicts <- Clash
    Requests = {1, 2}
    MaxInputs = 2
    Models = {1, 2}
    MaxGeneration = 1
    MaxRetries = 0
    Parallel = {1, 2, 3}
    Policy <- Mixed
    Responses <- PairOrAsked
    Crashes = TRUE
    Stops = TRUE
CONSTRAINT OneBatch
CHECK_DEADLOCK FALSE
INVARIANTS
    RunnerTypeOK
    EffectAtMostOnce
    ConflictsExclude
    OpenMattersHoldTurn
    NeverStranded
PROPERTIES
    KeepsPromise
