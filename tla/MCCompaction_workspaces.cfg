SPECIFICATION BothSpec
CONSTANTS
    c1 = c1
    c2 = c2
    p1 = p1
    p2 = p2
    orig = orig
    user = user
    none = none
    Children <- TwoChildren
    Paths <- TwoPaths
    Contents <- FourContents
    Original <- orig
    None <- none
    Scenarios <- AllScenarios
    Compactions = {1, 2}
    Nodes = {1, 2}
    MaxRequests = 3
    MaxRepeats = 1
    MaxMessages = 2
    Losses = TRUE
SYMMETRY Symmetry
CHECK_DEADLOCK FALSE
INVARIANTS
    WorkspaceTypeOK
    CheckoutKeptWhileNeeded
    CompactionInv
PROPERTIES
    ParentFinishesTested
    PatchesKeepPromise
    ReplacementIsCurrent
