SPECIFICATION Spec
CONSTANTS
    main = main
    aside = aside
    lead = lead
    child = child
    NoTurn = NoTurn
    NoOp = 0
    Threads = {main, aside}
    Turns = {lead, child}
    ThreadOf <- Family
    Parent <- Lineage
    Ops = {1, 2}
    TurnOf <- Both
    Conflicts <- Clash
    Requests = {1, 2}
    MaxInputs = 2
    Models = {1}
    MaxGeneration = 3
    MaxRetries = 1
CONSTRAINT OneCrowdAtATime
CHECK_DEADLOCK FALSE
INVARIANTS
    TypeOK
    ClaimedAtMostOnce
    UnknownAsksOnce
    ApprovalBlocksItsCall
    StartedOnlyIfApproved
    SlotNamesOpenTurn
    DispatchedOnlyIfAwaited
    CompletedLeavesNoChild
PROPERTIES
    UncertainExposureKept
